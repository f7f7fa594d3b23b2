----------------------------- MODULE Nxfs_proofs -----------------------------
(***************************************************************************)
(* What a crash can never find on an NXFS volume, for any number of        *)
(* inodes, blocks and names, any geometry of a file and of a directory,    *)
(* wherever the power fails and whichever commits report an error.         *)
(***************************************************************************)
EXTENDS Nxfs, Lemmas, FiniteSetTheorems

\* Nobody uses "." or ".." as the name of a file, and nxfs_check, where it is
\* called, does not let other calls in.
Plain == Dots = {} /\ {".", ".."} \intersect Name = {} /\ (Checks => ~Ticks)

-----------------------------------------------------------------------------
(* The invariant: types.                                                   *)

Place   == 1 .. FileMax + 1
NodeRec ==
  [type : {"free", "file", "dir"}, name : Name \union {Nil}, parent : Ino,
   size : 0 .. FileMax, direct : [1 .. Direct -> Ptr], ind1 : Ptr, kids : Seq(Ino)]
Store ==
  [ino : [Ino -> NodeRec], ind : [Blk -> [1 .. Fan -> Ptr]], ibm : SUBSET Ino, bbm : SUBSET Blk]
Counters == [fb : 0 .. Ctr - 1, fi : 0 .. Ctr - 1]
Loads    == [fb : 0 .. Ctr - 1, fi : 0 .. Ctr - 1, dirty : BOOLEAN]
Stream   == [active : BOOLEAN, suspended : BOOLEAN, ino : Ino, n : NodeRec]

TruncFrame  == [op : {"trunc"}, ino : Ino, cleared : BOOLEAN,
                todo : {<<>>} \union [Place -> Ptr]]
BeginFrame  == [op : {"begin"}, ino : Ino]
AppendFrame == [op : {"append"}, blk : Blk]
CreateFrame == [op : {"create"}, dir : Ino, name : Name, type : {"file", "dir"}]
FileFrame   == [op : {"delfile"}, dir : Ino, ino : Ino]
DirFrame    == [op : {"deldir"}, dir : Ino, ino : Ino, snap : Seq(Ino)]
Visit       == [ino : Ino, depth : Nat]
CheckFrame  == [op : {"check"}, walk : Seq(Visit), seenB : SUBSET Blk, seenI : SUBSET Ino,
                tick : {FALSE}]
Frame       == TruncFrame \union BeginFrame \union AppendFrame \union CreateFrame
                 \union FileFrame \union DirFrame \union (IF Checks THEN CheckFrame ELSE {})

Types ==
  /\ sb \in Loads /\ sbDisk \in Counters
  /\ open \in BOOLEAN
  /\ written \subseteq Blk
  /\ ws \in Stream
  /\ doubt # Nil => doubt \in [m : Store, sb : Counters]
  /\ view \in Store
  /\ job \in Seq(Frame)

-----------------------------------------------------------------------------
(* The invariant: what a volume is.  It speaks of every inode and not only *)
(* of those in the tree: a directory that was freed around a child that    *)
(* could not be deleted leaves an orphan, which callers go on using.       *)

\* Every entry leads to a live node that names its directory as its parent.
Entries(m) ==
  \A i \in Ino : \A k \in 1 .. Len(m.ino[i].kids) :
    LET c == m.ino[i].kids[k]
    IN  c \notin {Root, i} /\ m.ino[c].type # "free" /\ m.ino[c].parent = i

\* No two entries of a directory have the same name.
NamedApart(m) ==
  \A i \in Ino : \A j, k \in 1 .. Len(m.ino[i].kids) :
    m.ino[m.ino[i].kids[j]].name = m.ino[m.ino[i].kids[k]].name => j = k

\* The inodes that are marked are the live ones; only directories have entries.
Tree(m) ==
  /\ m.ino[Root].type = "dir"
  /\ \A i \in Ino : i \in m.ibm <=> m.ino[i].type # "free"
  /\ \A i \in Ino : Len(m.ino[i].kids) <= MaxKids
  /\ \A i \in Ino : m.ino[i].type # "dir" => m.ino[i].kids = <<>>
  /\ Entries(m) /\ NamedApart(m)

\* What is mapped is marked, is mapped once, and, within the size, was written.
Slot(m, i, k) == Chain(m, m.ino[i])[k]
Marked(m) == \A i \in Ino, k \in Place : Slot(m, i, k) # Nil => Slot(m, i, k) \in m.bbm
Apart(m)  ==
  \A i, j \in Ino, k, l \in Place :
    Slot(m, i, k) # Nil /\ Slot(m, i, k) = Slot(m, j, l) => i = j /\ k = l
Filled(m, done) == \A i \in Ino : \A k \in 1 .. m.ino[i].size : Slot(m, i, k) \in done

Sound(m, done) == m \in Store /\ Tree(m) /\ Marked(m) /\ Apart(m) /\ Filled(m, done)

\* A file of n is the file of m, empty, or that file made longer.
Follows(m, n) ==
  \A i \in Ino :
    m.ino[i].type = "file" /\ n.ino[i].type = "file" /\ n.ino[i].size # 0 =>
      /\ n.ino[i].size >= m.ino[i].size
      /\ \A k \in 1 .. m.ino[i].size : Mapped(n, n.ino[i], k) = Mapped(m, m.ino[i], k)

\* What a mount would find, and what it may find after a commit that failed.
Stores ==
  /\ Sound(disk, written)
  /\ doubt # Nil => Sound(doubt.m, written) /\ Follows(disk, doubt.m)

-----------------------------------------------------------------------------
(* The invariant: the stream and the calls in progress.                    *)

\* The transaction is the stream's; it is lent to one create at a time, when all
\* that the stream has is on the disk.
Opened ==
  /\ open <=> ws.active /\ ~ws.suspended
  /\ ws.suspended => ws.active /\ At("create") /\ ws.n = disk.ino[ws.ino]
  /\ ~open => view = disk

\* The metadata that the next commit of the stream writes.
With(m, i, n) == [m EXCEPT !.ino[i] = n]
Ahead == With(view, ws.ino, ws.n)

\* It is sound; apart from the stream's own inode and indirect block it is what is
\* on the disk; and it goes on from the file on the disk.
Streaming ==
  ws.active =>
    /\ Sound(Ahead, written)
    /\ view.ino = disk.ino /\ view.ibm = disk.ibm /\ disk.bbm \subseteq view.bbm
    /\ \A b \in Blk : view.ind[b] # disk.ind[b] => b = ws.n.ind1
    /\ disk.ino[ws.ino].type = "file" /\ ws.n.type = "file"
    /\ ws.n.name = disk.ino[ws.ino].name /\ ws.n.parent = disk.ino[ws.ino].parent
    /\ disk.ino[ws.ino].size <= ws.n.size
    /\ \A k \in 1 .. disk.ino[ws.ino].size :
         Mapped(view, ws.n, k) = Mapped(disk, disk.ino[ws.ino], k)
    /\ doubt # Nil => doubt.m.bbm \subseteq view.bbm

\* What a truncation has yet to free is mapped nowhere.
Truncating ==
  At("trunc") /\ Top.cleared =>
    /\ ~open
    /\ Top.todo \in [Place -> Ptr]
    /\ \A k, l \in Place, i \in Ino : Top.todo[k] # Nil => Top.todo[k] # Slot(disk, i, l)

\* The block that an append is about to write lies just behind the end of the file.
Appending ==
  At("append") =>
    /\ ws.active
    /\ ws.n.size < FileMax
    /\ Mapped(view, ws.n, ws.n.size + 1) = Top.blk

\* stream_begin waits for its truncation only, and then no commit is in doubt.
Beginning ==
  /\ \A p \in 1 .. Len(job) : job[p].op = "begin" =>
       /\ p = Len(job) /\ (p = 1 \/ (p = 2 /\ job[1].op = "trunc"))
       /\ ~ws.active /\ disk.ino[job[p].ino].type = "file"
  /\ At("begin") => doubt = Nil

\* What is to be deleted is no other directory's entry, even if it is gone by now.
Deleting ==
  \A p \in 1 .. Len(job) : job[p].op \in {"delfile", "deldir"} =>
    /\ job[p].ino \notin {Root, job[p].dir}
    /\ disk.ino[job[p].ino].type # "free" => disk.ino[job[p].ino].parent = job[p].dir

\* Only the innermost call truncates; nothing runs below one that appends, creates
\* or checks, and what creates has been lent the transaction.
Stacked ==
  /\ \A p \in 2 .. Len(job) : job[p].op \notin {"trunc", "append", "create", "check"}
  /\ At("append") \/ At("create") \/ At("check") => Len(job) = 1
  /\ At("create") => ~open

Inv ==
  /\ Types /\ Stores /\ Opened /\ Streaming
  /\ Truncating /\ Appending /\ Beginning /\ Deleting /\ Stacked

-----------------------------------------------------------------------------
(* The constants, chains and children.                                     *)

LEMMA Consts ==
  /\ Direct \in Nat /\ Direct > 0 /\ Fan \in Nat /\ Fan > 0
  /\ MaxKids \in Nat /\ Ctr \in Nat /\ Ctr > 0
  /\ Root \in Ino /\ Nil \notin Blk /\ Nil \notin Ino /\ Nil \notin Name
  /\ Nil # "." /\ Nil # ".."
  /\ IsFiniteSet(Ino) /\ IsFiniteSet(Blk)
BY NxfsAssumption

LEMMA FileMaxIs == FileMax \in Nat /\ FileMax = Direct + Fan /\ FileMax > 0 /\ Direct < FileMax
BY Consts DEF FileMax

LEMMA HeadIs ==
  ASSUME NEW S, NEW s \in Seq(S), s # <<>>
  PROVE  Head(s) = s[1] /\ Len(s) \in Nat /\ Len(s) > 0 /\ 1 \in 1 .. Len(s)
OBVIOUS

LEMMA FirstReplaced ==
  ASSUME NEW S, NEW s \in Seq(S), s # <<>>, NEW e \in S
  PROVE  LET t == [s EXCEPT ![1] = e]
         IN  t \in Seq(S) /\ Len(t) = Len(s) /\ \A p \in 1 .. Len(t) : t[p] = IF p = 1 THEN e ELSE s[p]
OBVIOUS

\* What a node of a store maps is a block or nothing.
LEMMA ChainType ==
  ASSUME NEW m \in Store, NEW n \in NodeRec
  PROVE  /\ Chain(m, n) \in [Place -> Ptr]
         /\ \A k \in 1 .. FileMax : Mapped(m, n, k) \in Ptr /\ Chain(m, n)[k] = Mapped(m, n, k)
         /\ Chain(m, n)[FileMax + 1] = n.ind1
<1>1. \A k \in 1 .. FileMax : Mapped(m, n, k) \in Ptr
  <2> SUFFICES ASSUME NEW k \in 1 .. FileMax PROVE Mapped(m, n, k) \in Ptr
    OBVIOUS
  <2>1. CASE k <= Direct
    BY <2>1, FileMaxIs, Consts DEF Mapped, NodeRec
  <2>2. CASE ~(k <= Direct) /\ n.ind1 # Nil
    <3>1. n.ind1 \in Blk
      BY <2>2 DEF NodeRec, Ptr
    <3>2. k - Direct \in 1 .. Fan
      BY <2>2, FileMaxIs, Consts
    <3>3. m.ind[n.ind1] \in [1 .. Fan -> Ptr]
      BY <3>1 DEF Store
    <3> QED BY <2>2, <3>2, <3>3 DEF Mapped
  <2>3. CASE ~(k <= Direct) /\ n.ind1 = Nil
    BY <2>3 DEF Mapped, Ptr
  <2> QED BY <2>1, <2>2, <2>3
<1>2. n.ind1 \in Ptr
  BY DEF NodeRec
<1> QED BY <1>1, <1>2, FileMaxIs DEF Chain, Place

\* Chains depend on the pointers of the inode and on its indirect block only.
LEMMA ChainSame ==
  ASSUME NEW m, NEW n, NEW m2, NEW n2,
         n2.direct = n.direct, n2.ind1 = n.ind1,
         n.ind1 # Nil => m2.ind[n.ind1] = m.ind[n.ind1]
  PROVE  /\ Chain(m2, n2) = Chain(m, n)
         /\ \A k : Mapped(m2, n2, k) = Mapped(m, n, k)
<1>1. \A k : Mapped(m2, n2, k) = Mapped(m, n, k)
  BY DEF Mapped
<1> QED BY <1>1 DEF Chain

\* A new node maps nothing.
Blank(n) == n.direct = [k \in 1 .. Direct |-> Nil] /\ n.ind1 = Nil

LEMMA ChainBlank ==
  ASSUME NEW m, NEW n, Blank(n)
  PROVE  \A k \in Place : Chain(m, n)[k] = Nil
<1> SUFFICES ASSUME NEW k \in Place PROVE Chain(m, n)[k] = Nil
  OBVIOUS
<1>1. Chain(m, n)[k] = IF k <= FileMax THEN Mapped(m, n, k) ELSE Nil
  BY DEF Chain, Place, Blank
<1>2. CASE k <= Direct
  BY <1>1, <1>2, FileMaxIs, Consts DEF Mapped, Place, Blank
<1>3. CASE ~(k <= Direct)
  BY <1>1, <1>3 DEF Mapped, Blank
<1> QED BY <1>2, <1>3

LEMMA NodeType ==
  ASSUME NEW type \in {"free", "file", "dir"}, NEW name \in Name \union {Nil}, NEW parent \in Ino
  PROVE  /\ Node(type, name, parent) \in NodeRec
         /\ Node(type, name, parent).type = type /\ Node(type, name, parent).name = name
         /\ Node(type, name, parent).parent = parent /\ Node(type, name, parent).size = 0
         /\ Blank(Node(type, name, parent)) /\ Node(type, name, parent).kids = <<>>
BY FileMaxIs, Consts DEF Node, NodeRec, Ptr, Blank

\* The parts of a store, and a node with other entries or another name.
LEMMA StoreParts ==
  ASSUME NEW m \in Store
  PROVE  /\ m.ino \in [Ino -> NodeRec] /\ m.ind \in [Blk -> [1 .. Fan -> Ptr]]
         /\ m.ibm \subseteq Ino /\ m.bbm \subseteq Blk
         /\ \A i \in Ino :
              /\ m.ino[i] \in NodeRec /\ m.ino[i].size \in 0 .. FileMax
              /\ m.ino[i].kids \in Seq(Ino) /\ Len(m.ino[i].kids) \in Nat
              /\ \A k \in 1 .. Len(m.ino[i].kids) : m.ino[i].kids[k] \in Ino
<1>1. /\ m.ino \in [Ino -> NodeRec] /\ m.ind \in [Blk -> [1 .. Fan -> Ptr]]
      /\ m.ibm \subseteq Ino /\ m.bbm \subseteq Blk
  BY DEF Store
<1>2. \A n \in NodeRec : n.size \in 0 .. FileMax /\ n.kids \in Seq(Ino)
  BY DEF NodeRec
<1>3. \A s \in Seq(Ino) : Len(s) \in Nat /\ \A k \in 1 .. Len(s) : s[k] \in Ino
  OBVIOUS
<1>4. \A i \in Ino : m.ino[i] \in NodeRec
  BY <1>1
<1> QED BY <1>1, <1>2, <1>3, <1>4

\* m and n are alike but for the entries, or but for the name, of a node.
SameFile(n, m) ==
  n.size = m.size /\ n.direct = m.direct /\ n.ind1 = m.ind1
SameNode(n, m) ==
  n.type = m.type /\ n.name = m.name /\ n.parent = m.parent /\ SameFile(n, m)

LEMMA NodeWithKids ==
  ASSUME NEW n \in NodeRec, NEW s \in Seq(Ino)
  PROVE  LET d == [n EXCEPT !.kids = s] IN d \in NodeRec /\ d.kids = s /\ SameNode(d, n)
BY DEF NodeRec, SameNode, SameFile

LEMMA NodeRenamed ==
  ASSUME NEW n \in NodeRec, NEW name \in Name
  PROVE  LET d == [n EXCEPT !.name = name]
         IN  /\ d \in NodeRec /\ d.kids = n.kids /\ SameFile(d, n)
             /\ d.name = name /\ d.type = n.type /\ d.parent = n.parent
BY DEF NodeRec, SameFile

\* A child that is found is an entry of the directory and has the name asked for;
\* when none is found, no entry has it.
LEMMA ChildIs ==
  ASSUME NEW m \in Store, NEW n \in NodeRec, NEW name
  PROVE  LET c == Child(m, n, name)
         IN  /\ c # Nil => /\ n.type = "dir" /\ c \in Ino /\ m.ino[c].name = name
                           /\ \E k \in 1 .. Len(n.kids) : c = n.kids[k]
             /\ c = Nil /\ n.type = "dir" =>
                  \A k \in 1 .. Len(n.kids) : m.ino[n.kids[k]].name # name
<1> DEFINE named == {k \in 1 .. Len(n.kids) : m.ino[n.kids[k]].name = name}
<1>1. n.kids \in Seq(Ino)
  BY DEF NodeRec
<1>2. ASSUME named # {} PROVE Min(named) \in named
  <2>1. named \in SUBSET Nat
    BY <1>1
  <2> HIDE DEF named
  <2> QED BY <1>2, <2>1, LeastNatural DEF Min
<1>3. CASE n.type # "dir" \/ named = {}
  <2>1. Child(m, n, name) = Nil
    BY <1>3 DEF Child
  <2>2. n.type = "dir" => named = {}
    BY <1>3
  <2> QED BY <2>1, <2>2
<1>4. CASE n.type = "dir" /\ named # {}
  <2>1. Child(m, n, name) = n.kids[Min(named)] /\ Min(named) \in named
    <3> HIDE DEF named
    <3> QED BY <1>2, <1>4 DEF Child, named
  <2>2. n.kids[Min(named)] \in Ino
    <3> DEFINE k == Min(named)
    <3>1. k \in 1 .. Len(n.kids)
      BY <2>1
    <3> HIDE DEF k
    <3>2. n.kids[k] \in Ino
      BY <1>1, <3>1
    <3> QED BY <3>2 DEF k
  <2>3. n.kids[Min(named)] # Nil
    BY <2>2, Consts
  <2> QED BY <1>4, <2>1, <2>2, <2>3
<1> QED BY <1>3, <1>4

-----------------------------------------------------------------------------
(* What keeps a volume sound.                                              *)

\* The places of an inode are those of its blocks.
LEMMA SlotIsBlock ==
  ASSUME NEW m \in Store, NEW i \in Ino
  PROVE  /\ \A k \in 1 .. FileMax : k \in Place /\ Slot(m, i, k) = Mapped(m, m.ino[i], k)
         /\ Blocks(m, m.ino[i]) = {Slot(m, i, k) : k \in Place} \ {Nil}
<1>1. m.ino[i] \in NodeRec
  BY StoreParts
<1>2. Chain(m, m.ino[i]) \in [Place -> Ptr]
  BY <1>1, ChainType
<1>3. \A k \in 1 .. FileMax : k \in Place /\ Slot(m, i, k) = Mapped(m, m.ino[i], k)
  BY <1>1, ChainType, FileMaxIs DEF Place, Slot
<1>4. ToSet(Chain(m, m.ino[i])) = {Slot(m, i, k) : k \in Place}
  BY <1>2 DEF ToSet, Slot
<1> QED BY <1>3, <1>4 DEF Blocks

\* The inode i maps in n what it mapped in m, or nothing and has no size.
Kept(m, n, i) ==
  \/ n.ino[i].size = m.ino[i].size /\ \A k \in Place : Slot(n, i, k) = Slot(m, i, k)
  \/ n.ino[i].size = 0 /\ \A k \in Place : Slot(n, i, k) = Nil

LEMMA KeptSame ==
  ASSUME NEW m, NEW n, NEW i, n.ind = m.ind, SameFile(n.ino[i], m.ino[i])
  PROVE  Kept(m, n, i)
BY ChainSame DEF Kept, Slot, SameFile

LEMMA KeptBlank ==
  ASSUME NEW m, NEW n, NEW i, n.ino[i].size = 0, Blank(n.ino[i])
  PROVE  Kept(m, n, i) /\ \A k \in Place : Slot(n, i, k) = Nil
BY ChainBlank DEF Kept, Slot

\* Where no inode maps anything else than before, the blocks are as they should
\* be, and files go on from those of before, as long as no bit in use is cleared.
LEMMA BlocksKept ==
  ASSUME NEW m \in Store, NEW n \in Store, NEW done,
         Marked(m), Apart(m), Filled(m, done),
         \A i \in Ino : Kept(m, n, i),
         \A i \in Ino, k \in Place : Slot(m, i, k) \in m.bbm \ n.bbm => Slot(n, i, k) = Nil
  PROVE  Marked(n) /\ Apart(n) /\ Filled(n, done) /\ Follows(m, n)
<1>1. \A i \in Ino, k \in Place : Slot(n, i, k) \in {Slot(m, i, k), Nil}
  BY DEF Kept
<1>2. Marked(n)
  BY <1>1 DEF Marked
<1>3. Apart(n)
  BY <1>1 DEF Apart
<1>4. \A i \in Ino : n.ino[i] \in NodeRec /\ m.ino[i] \in NodeRec
  BY DEF Store
<1>5. \A i \in Ino : \A k \in 1 .. n.ino[i].size : k \in Place
  BY <1>4, FileMaxIs DEF NodeRec, Place
<1>6. \A i \in Ino : n.ino[i].size = 0 \/
        (n.ino[i].size = m.ino[i].size /\ \A k \in Place : Slot(n, i, k) = Slot(m, i, k))
  BY DEF Kept
<1>7. Filled(n, done)
  BY <1>4, <1>5, <1>6 DEF Filled
<1>8. Follows(m, n)
  <2> SUFFICES ASSUME NEW i \in Ino, n.ino[i].size # 0
               PROVE  /\ n.ino[i].size >= m.ino[i].size
                      /\ \A k \in 1 .. m.ino[i].size : Mapped(n, n.ino[i], k) = Mapped(m, m.ino[i], k)
    BY DEF Follows
  <2>1. n.ino[i].size = m.ino[i].size /\ \A k \in Place : Slot(n, i, k) = Slot(m, i, k)
    BY <1>6
  <2>2. m.ino[i].size \in 0 .. FileMax
    BY <1>4 DEF NodeRec
  <2>3. \A k \in 1 .. FileMax :
          Slot(n, i, k) = Mapped(n, n.ino[i], k) /\ Slot(m, i, k) = Mapped(m, m.ino[i], k)
    BY <1>4, ChainType DEF Slot
  <2> QED BY <2>1, <2>2, <2>3, FileMaxIs DEF Place
<1> QED BY <1>2, <1>3, <1>7, <1>8

\* create_node.
Created(m, i, type, name, dir) ==
  [m EXCEPT !.ibm = @ \union {i}, !.ino[i] = Node(type, name, dir), !.ino[dir].kids = Append(@, i)]

LEMMA CreateSound ==
  ASSUME NEW m, NEW done, Sound(m, done), NEW i \in Ino \ m.ibm, NEW dir \in Ino, NEW name \in Name,
         NEW type \in {"file", "dir"}, m.ino[dir].type = "dir", Len(m.ino[dir].kids) < MaxKids,
         Child(m, m.ino[dir], name) = Nil,
         NEW n, n = Created(m, i, type, name, dir)
  PROVE  /\ Sound(n, done) /\ Follows(m, n)
         /\ n.bbm = m.bbm /\ n.ind = m.ind
         /\ \A j \in Ino \ {i, dir} : n.ino[j] = m.ino[j]
<1> DEFINE new == Node(type, name, dir)
           d   == [m.ino[dir] EXCEPT !.kids = Append(@, i)]
<1>1. m \in Store /\ Tree(m)
  BY DEF Sound
<1> HIDE DEF new, d
<1>2. i # dir /\ i # Root /\ m.ino[i].type = "free"
  BY <1>1, Consts DEF Tree
<1>3. /\ new \in NodeRec /\ new.type = type /\ new.name = name /\ new.parent = dir /\ new.size = 0
      /\ Blank(new) /\ new.kids = <<>>
  BY NodeType DEF new
<1>4. /\ m.ino \in [Ino -> NodeRec] /\ m.ino[dir] \in NodeRec /\ m.ibm \subseteq Ino
      /\ m.ino[dir].kids \in Seq(Ino) /\ Len(m.ino[dir].kids) \in Nat
  BY <1>1, StoreParts
<1>5. d \in NodeRec /\ d.kids = Append(m.ino[dir].kids, i) /\ SameNode(d, m.ino[dir])
  <2>1. Append(m.ino[dir].kids, i) \in Seq(Ino)
    BY <1>4
  <2> QED BY <1>4, <2>1, NodeWithKids DEF d
<1> DEFINE f == [[m.ino EXCEPT ![i] = new] EXCEPT ![dir] = d]
<1>6. n = [m EXCEPT !.ibm = m.ibm \union {i}, !.ino = f]
  BY <1>1, <1>2 DEF Created, Store, new, d
<1>7. f \in [Ino -> NodeRec] /\ f[i] = new /\ f[dir] = d /\ \A j \in Ino \ {i, dir} : f[j] = m.ino[j]
  BY <1>2, <1>3, <1>4, <1>5
<1> HIDE DEF f
<1>8. /\ n \in Store /\ n.ibm = m.ibm \union {i} /\ n.ind = m.ind /\ n.bbm = m.bbm
      /\ n.ino[i] = new /\ n.ino[dir] = d /\ \A j \in Ino \ {i, dir} : n.ino[j] = m.ino[j]
  <2> DEFINE s == m.ibm \union {i}
  <2>1. s \in SUBSET Ino
    BY <1>4
  <2>2. n = [m EXCEPT !.ibm = s, !.ino = f]
    BY <1>6
  <2> HIDE DEF s
  <2>3. n \in Store /\ n.ibm = s /\ n.ind = m.ind /\ n.bbm = m.bbm /\ n.ino = f
    BY <1>1, <1>7, <2>1, <2>2 DEF Store
  <2> QED BY <1>7, <2>3 DEF s
<1>9. \A j \in Ino \ {i} : SameNode(n.ino[j], m.ino[j])
  BY <1>5, <1>8 DEF SameNode, SameFile
<1>10. \A j \in Ino : Kept(m, n, j)
  <2>1. Kept(m, n, i)
    BY <1>3, <1>8, KeptBlank
  <2>2. \A j \in Ino \ {i} : Kept(m, n, j)
    BY <1>8, <1>9, KeptSame DEF SameNode
  <2> QED BY <2>1, <2>2
<1>11. Marked(n) /\ Apart(n) /\ Filled(n, done) /\ Follows(m, n)
  <2>1. Marked(m) /\ Apart(m) /\ Filled(m, done)
    BY DEF Sound
  <2> QED BY <1>1, <1>8, <1>10, <2>1, BlocksKept
<1>12. \A j \in Ino : \A k \in 1 .. Len(m.ino[j].kids) : m.ino[j].kids[k] \in Ino \ {i, j, Root}
  <2>1. \A j \in Ino : \A k \in 1 .. Len(m.ino[j].kids) : m.ino[j].kids[k] \in Ino
    BY <1>1, StoreParts
  <2> QED BY <1>1, <1>2, <2>1 DEF Tree, Entries
<1>13. Entries(n)
  <2> SUFFICES ASSUME NEW j \in Ino, NEW k \in 1 .. Len(n.ino[j].kids)
               PROVE  LET c == n.ino[j].kids[k]
                      IN  c \notin {Root, j} /\ n.ino[c].type # "free" /\ n.ino[c].parent = j
    BY DEF Entries
  <2>1. ASSUME k \in 1 .. Len(m.ino[j].kids), n.ino[j].kids[k] = m.ino[j].kids[k]
        PROVE  LET c == n.ino[j].kids[k]
               IN  c \notin {Root, j} /\ n.ino[c].type # "free" /\ n.ino[c].parent = j
    <3>1. m.ino[j].kids[k] \in Ino \ {i, j, Root}
      BY <1>12, <2>1
    <3>2. SameNode(n.ino[m.ino[j].kids[k]], m.ino[m.ino[j].kids[k]])
      BY <1>9, <3>1
    <3>3. m.ino[m.ino[j].kids[k]].type # "free" /\ m.ino[m.ino[j].kids[k]].parent = j
      BY <1>1, <2>1 DEF Tree, Entries
    <3> QED BY <2>1, <3>1, <3>2, <3>3 DEF SameNode
  <2>2. CASE j = dir
    <3>1. CASE k = Len(m.ino[dir].kids) + 1
      <4>1. n.ino[j].kids[k] = i
        BY <1>4, <1>5, <1>8, <2>2, <3>1
      <4> QED BY <1>2, <1>3, <1>8, <2>2, <4>1
    <3>2. CASE k # Len(m.ino[dir].kids) + 1
      <4>1. k \in 1 .. Len(m.ino[j].kids) /\ n.ino[j].kids[k] = m.ino[j].kids[k]
        BY <1>4, <1>5, <1>8, <2>2, <3>2, SMTT(30)
      <4> QED BY <2>1, <4>1
    <3> QED BY <3>1, <3>2
  <2>3. CASE j \notin {i, dir}
    BY <1>8, <2>1, <2>3
  <2>4. j # i
    BY <1>3, <1>8
  <2> QED BY <2>2, <2>3, <2>4
<1>14. NamedApart(n)
  <2> SUFFICES ASSUME NEW j \in Ino, NEW k \in 1 .. Len(n.ino[j].kids), NEW l \in 1 .. Len(n.ino[j].kids),
                      n.ino[n.ino[j].kids[k]].name = n.ino[n.ino[j].kids[l]].name
               PROVE  k = l
    BY DEF NamedApart
  <2> DEFINE s == m.ino[j].kids
  <2>1. \A p \in 1 .. Len(s) : n.ino[s[p]].name = m.ino[s[p]].name
    BY <1>9, <1>12 DEF SameNode
  <2>2. \A p, q \in 1 .. Len(s) : m.ino[s[p]].name = m.ino[s[q]].name => p = q
    BY <1>1 DEF Tree, NamedApart
  <2>3. CASE j \notin {i, dir}
    <3>1. n.ino[j].kids = s
      BY <1>8, <2>3
    <3> HIDE DEF s
    <3> QED BY <2>1, <2>2, <3>1
  <2>4. CASE j = dir
    <3>1. n.ino[j].kids = Append(s, i) /\ s \in Seq(Ino) /\ Len(s) \in Nat
      BY <1>4, <1>5, <1>8, <2>4
    <3>2. \A p \in 1 .. Len(s) : m.ino[s[p]].name # name
      BY <1>1, <1>4, <2>4, ChildIs
    <3>3. n.ino[i].name = name
      BY <1>3, <1>8
    <3> HIDE DEF s
    <3>4. Append(s, i)[Len(s) + 1] = i /\ \A p \in 1 .. Len(s) : Append(s, i)[p] = s[p]
      BY <3>1
    <3> QED BY <2>1, <2>2, <3>1, <3>2, <3>3, <3>4
  <2>5. j # i
    BY <1>3, <1>8
  <2> QED BY <2>3, <2>4, <2>5
<1>15. Tree(n)
  <2>1. n.ino[Root].type = "dir"
    BY <1>1, <1>2, <1>9, Consts DEF Tree, SameNode
  <2>2. \A j \in Ino : j \in n.ibm <=> n.ino[j].type # "free"
    BY <1>1, <1>3, <1>8, <1>9 DEF Tree, SameNode
  <2>3. \A j \in Ino : Len(n.ino[j].kids) <= MaxKids
    <3>1. Len(d.kids) <= MaxKids
      BY <1>4, <1>5, Consts
    <3>2. Len(new.kids) <= MaxKids
      BY <1>3, Consts
    <3> QED BY <1>1, <1>8, <3>1, <3>2 DEF Tree
  <2>4. \A j \in Ino : n.ino[j].type # "dir" => n.ino[j].kids = <<>>
    BY <1>1, <1>3, <1>5, <1>8 DEF Tree, SameNode
  <2> QED BY <1>13, <1>14, <2>1, <2>2, <2>3, <2>4 DEF Tree
<1> QED BY <1>8, <1>11, <1>15 DEF Sound

\* A sequence of distinct elements without one of them.
LEMMA RemoveFirstIs ==
  ASSUME NEW s \in Seq(Ino), NEW e \in Ino,
         \A p, q \in 1 .. Len(s) : s[p] = s[q] => p = q
  PROVE  LET r == RemoveFirst(s, e)
         IN  /\ r \in Seq(Ino) /\ Len(r) <= Len(s)
             /\ \A p \in 1 .. Len(r) : r[p] # e /\ \E q \in 1 .. Len(s) : r[p] = s[q]
             /\ \A p, q \in 1 .. Len(r) : r[p] = r[q] => p = q
             /\ \A q \in 1 .. Len(s) : s[q] # e => \E p \in 1 .. Len(r) : r[p] = s[q]
<1> DEFINE found == {p \in 1 .. Len(s) : s[p] = e}
           k == Min(found)
           a == SubSeq(s, 1, k - 1)
           b == SubSeq(s, k + 1, Len(s))
           r == a \o b
<1>1. CASE found = {}
  <2>1. RemoveFirst(s, e) = s
    BY <1>1 DEF RemoveFirst
  <2> QED BY <1>1, <2>1
<1>2. CASE found # {}
  <2>1. k \in 1 .. Len(s) /\ s[k] = e
    <3>1. found \in SUBSET Nat
      OBVIOUS
    <3> HIDE DEF found
    <3>2. k \in found
      BY <1>2, <3>1, LeastNatural DEF Min
    <3> QED BY <3>2 DEF found
  <2>2. RemoveFirst(s, e) = r
    BY <1>2 DEF RemoveFirst, RemoveAt, SelectInSeq
  <2> HIDE DEF k
  <2>3. a \in Seq(Ino) /\ Len(a) = k - 1 /\ \A p \in 1 .. k - 1 : a[p] = s[p]
    BY <2>1
  <2>4. b \in Seq(Ino) /\ Len(b) = Len(s) - k /\ \A p \in 1 .. Len(s) - k : b[p] = s[k + p]
    BY <2>1
  <2> HIDE DEF a, b
  <2>5. /\ r \in Seq(Ino) /\ Len(r) = Len(s) - 1
        /\ \A p \in 1 .. Len(s) - 1 : r[p] = IF p < k THEN s[p] ELSE s[p + 1]
    <3>1. r \in Seq(Ino) /\ Len(r) = Len(s) - 1
      <4>1. a \in Seq(Ino) /\ b \in Seq(Ino)
        BY <2>3, <2>4
      <4>2. r \in Seq(Ino) /\ Len(r) = Len(a) + Len(b)
        BY <4>1
      <4>3. Len(a) = k - 1 /\ Len(b) = Len(s) - k /\ Len(s) \in Nat
        BY <2>3, <2>4
      <4> QED BY <2>1, <4>2, <4>3
    <3>2. ASSUME NEW p \in 1 .. k - 1 PROVE r[p] = s[p]
      BY <2>1, <2>3, <2>4
    <3>3. ASSUME NEW p \in k .. Len(s) - 1 PROVE r[p] = s[p + 1]
      <4>0. p \in Len(a) + 1 .. Len(a) + Len(b) /\ a \in Seq(Ino) /\ b \in Seq(Ino)
        BY <2>1, <2>3, <2>4
      <4>1. r[p] = b[p - (k - 1)]
        <5>1. r[p] = b[p - Len(a)]
          BY <4>0
        <5> QED BY <2>3, <5>1
      <4>2. p - (k - 1) \in 1 .. Len(s) - k /\ k + (p - (k - 1)) = p + 1
        BY <2>1
      <4> QED BY <2>4, <4>1, <4>2
    <3> QED BY <2>1, <3>1, <3>2, <3>3
  <2> HIDE DEF r
  <2>6. \A q \in 1 .. Len(s) : s[q] # e => \E p \in 1 .. Len(r) : r[p] = s[q]
    <3> SUFFICES ASSUME NEW q \in 1 .. Len(s), s[q] # e PROVE \E p \in 1 .. Len(r) : r[p] = s[q]
      OBVIOUS
    <3>1. CASE q < k
      <4>1. q \in 1 .. Len(r) /\ r[q] = s[q]
        BY <2>1, <2>5, <3>1
      <4> QED BY <4>1
    <3>2. CASE q > k
      <4>1. q - 1 \in 1 .. Len(r) /\ r[q - 1] = s[q]
        BY <2>1, <2>5, <3>2
      <4> QED BY <4>1
    <3> QED BY <2>1, <3>1, <3>2
  <2>7. \A p \in 1 .. Len(r) : r[p] # e /\ \E q \in 1 .. Len(s) : r[p] = s[q]
    BY <2>1, <2>5
  <2>8. \A p, q \in 1 .. Len(r) : r[p] = r[q] => p = q
    BY <2>1, <2>5, SMTT(30)
  <2> QED BY <2>2, <2>5, <2>6, <2>7, <2>8
<1> QED BY <1>1, <1>2

\* In a tree no node is listed twice.
LEMMA ListedOnce ==
  ASSUME NEW m \in Store, Tree(m), NEW i \in Ino, NEW j \in Ino,
         NEW p \in 1 .. Len(m.ino[i].kids), NEW q \in 1 .. Len(m.ino[j].kids),
         m.ino[i].kids[p] = m.ino[j].kids[q]
  PROVE  i = j /\ p = q
<1>1. m.ino[m.ino[i].kids[p]].parent = i
  BY DEF Tree, Entries
<1>2. m.ino[m.ino[j].kids[q]].parent = j
  BY DEF Tree, Entries
<1>3. i = j
  BY <1>1, <1>2
<1> QED BY <1>3 DEF Tree, NamedApart

\* The tree is that of m where no inode has changed but in what it maps.
SameEntry(n, m) == n.type = m.type /\ n.name = m.name /\ n.parent = m.parent /\ n.kids = m.kids

LEMMA TreeSame ==
  ASSUME NEW m \in Store, NEW n \in Store, Tree(m), n.ibm = m.ibm,
         \A i \in Ino : SameEntry(n.ino[i], m.ino[i])
  PROVE  Tree(n)
<1>1. \A i \in Ino : \A k \in 1 .. Len(m.ino[i].kids) : m.ino[i].kids[k] \in Ino
  BY StoreParts
<1>2. Entries(n)
  <2> SUFFICES ASSUME NEW i \in Ino, NEW k \in 1 .. Len(m.ino[i].kids)
               PROVE  LET c == m.ino[i].kids[k]
                      IN  c \notin {Root, i} /\ n.ino[c].type # "free" /\ n.ino[c].parent = i
    BY DEF Entries, SameEntry
  <2> DEFINE c == m.ino[i].kids[k]
  <2>1. c \in Ino
    BY <1>1
  <2>2. c \notin {Root, i} /\ m.ino[c].type # "free" /\ m.ino[c].parent = i
    BY DEF Tree, Entries
  <2> HIDE DEF c
  <2>3. SameEntry(n.ino[c], m.ino[c])
    BY <2>1
  <2> QED BY <2>2, <2>3 DEF SameEntry, c
<1>3. NamedApart(n)
  <2> SUFFICES ASSUME NEW i \in Ino, NEW k \in 1 .. Len(m.ino[i].kids), NEW l \in 1 .. Len(m.ino[i].kids),
                      n.ino[m.ino[i].kids[k]].name = n.ino[m.ino[i].kids[l]].name
               PROVE  k = l
    <3>1. \A i \in Ino : n.ino[i].kids = m.ino[i].kids
      BY DEF SameEntry
    <3> QED BY <3>1 DEF NamedApart
  <2>1. \A p \in 1 .. Len(m.ino[i].kids) : n.ino[m.ino[i].kids[p]].name = m.ino[m.ino[i].kids[p]].name
    BY <1>1 DEF SameEntry
  <2> QED BY <2>1 DEF Tree, NamedApart
<1> QED BY <1>2, <1>3, Consts DEF Tree, SameEntry

\* nxfs_rename.
Renamed(m, i, name) == [m EXCEPT !.ino[i].name = name]

LEMMA RenameSound ==
  ASSUME NEW m, NEW done, Sound(m, done), NEW dir \in Ino, NEW old, NEW new \in Name,
         Child(m, m.ino[dir], old) # Nil, Child(m, m.ino[dir], new) = Nil
  PROVE  LET n == Renamed(m, Child(m, m.ino[dir], old), new)
         IN  Sound(n, done) /\ Follows(m, n)
<1> DEFINE i == Child(m, m.ino[dir], old)
           n == Renamed(m, i, new)
           d == [m.ino[i] EXCEPT !.name = new]
           s == m.ino[dir].kids
<1>1. m \in Store /\ Tree(m)
  BY DEF Sound
<1>2. m.ino \in [Ino -> NodeRec] /\ m.ino[dir] \in NodeRec
  BY <1>1, StoreParts
<1>3. /\ i \in Ino /\ m.ino[dir].type = "dir" /\ \E k \in 1 .. Len(s) : i = s[k]
      /\ \A k \in 1 .. Len(s) : m.ino[s[k]].name # new
  BY <1>1, <1>2, ChildIs
<1> HIDE DEF i
<1>4. d \in NodeRec /\ d.kids = m.ino[i].kids /\ SameFile(d, m.ino[i])
      /\ d.name = new /\ d.type = m.ino[i].type /\ d.parent = m.ino[i].parent
  BY <1>2, <1>3, NodeRenamed
<1> HIDE DEF d
<1>5. n = [m EXCEPT !.ino = [m.ino EXCEPT ![i] = d]]
  BY <1>1 DEF Renamed, Store, d
<1> HIDE DEF n
<1>6. /\ n \in Store /\ n.ibm = m.ibm /\ n.ind = m.ind /\ n.bbm = m.bbm
      /\ n.ino[i] = d /\ \A j \in Ino \ {i} : n.ino[j] = m.ino[j]
  BY <1>1, <1>2, <1>3, <1>4, <1>5 DEF Store
<1>7. \A j \in Ino : /\ n.ino[j].kids = m.ino[j].kids /\ n.ino[j].type = m.ino[j].type
                     /\ n.ino[j].parent = m.ino[j].parent /\ SameFile(n.ino[j], m.ino[j])
  BY <1>4, <1>6 DEF SameFile
<1>8. Marked(n) /\ Apart(n) /\ Filled(n, done) /\ Follows(m, n)
  <2>1. Marked(m) /\ Apart(m) /\ Filled(m, done)
    BY DEF Sound
  <2>2. \A j \in Ino : Kept(m, n, j)
    BY <1>6, <1>7, KeptSame
  <2> QED BY <1>1, <1>6, <2>1, <2>2, BlocksKept
<1>9. \A j \in Ino : \A k \in 1 .. Len(m.ino[j].kids) : m.ino[j].kids[k] \in Ino
  BY <1>1, StoreParts
<1>10. Entries(n)
  <2> SUFFICES ASSUME NEW j \in Ino, NEW k \in 1 .. Len(m.ino[j].kids)
               PROVE  LET c == m.ino[j].kids[k]
                      IN  c \notin {Root, j} /\ n.ino[c].type # "free" /\ n.ino[c].parent = j
    BY <1>7 DEF Entries
  <2> DEFINE c == m.ino[j].kids[k]
  <2>1. c \in Ino
    BY <1>9
  <2>2. c \notin {Root, j} /\ m.ino[c].type # "free" /\ m.ino[c].parent = j
    BY <1>1 DEF Tree, Entries
  <2> HIDE DEF c
  <2>3. n.ino[c].type = m.ino[c].type /\ n.ino[c].parent = m.ino[c].parent
    BY <1>7, <2>1
  <2> QED BY <2>2, <2>3 DEF c
<1>11. NamedApart(n)
  <2> SUFFICES ASSUME NEW j \in Ino, NEW k \in 1 .. Len(m.ino[j].kids), NEW l \in 1 .. Len(m.ino[j].kids),
                      n.ino[m.ino[j].kids[k]].name = n.ino[m.ino[j].kids[l]].name
               PROVE  k = l
    BY <1>7 DEF NamedApart
  <2> DEFINE c == m.ino[j].kids[k]
             e == m.ino[j].kids[l]
  <2>1. c \in Ino /\ e \in Ino
    BY <1>9
  <2>2. m.ino[c].name = m.ino[e].name => k = l
    BY <1>1 DEF Tree, NamedApart
  <2>3. CASE c # i /\ e # i
    BY <1>6, <2>1, <2>2, <2>3
  <2>4. CASE c = i /\ e = i
    BY <2>2, <2>4
  <2>5. j = dir => m.ino[c].name # new /\ m.ino[e].name # new
    BY <1>3
  <2>6. c = i \/ e = i => j = dir
    <3>1. m.ino[c].parent = j /\ m.ino[e].parent = j
      BY <1>1 DEF Tree, Entries
    <3>2. m.ino[i].parent = dir
      <4>1. \A p \in 1 .. Len(s) : m.ino[s[p]].parent = dir
        BY <1>1 DEF Tree, Entries
      <4> QED BY <1>3, <4>1
    <3> QED BY <3>1, <3>2
  <2>7. CASE c = i /\ e # i
    BY <1>4, <1>6, <2>1, <2>5, <2>6, <2>7
  <2>8. CASE c # i /\ e = i
    BY <1>4, <1>6, <2>1, <2>5, <2>6, <2>8
  <2> QED BY <2>3, <2>4, <2>7, <2>8
<1>12. Tree(n)
  BY <1>1, <1>6, <1>7, <1>10, <1>11, Consts DEF Tree
<1> QED BY <1>6, <1>8, <1>12 DEF Sound, n, i

\* The last transaction of a deletion: the node i and its entry in dir.
Unlinked(m, dir, i) ==
  [m EXCEPT !.ibm = @ \ {i}, !.ino[i] = FreeNode,
            !.ino[dir] = [m.ino[dir] EXCEPT !.kids = RemoveFirst(@, i)]]

LEMMA UnlinkSound ==
  ASSUME NEW m, NEW done, Sound(m, done), NEW dir \in Ino, NEW i \in Ino \ {Root, dir},
         m.ino[i].type # "free" => m.ino[i].parent = dir,
         NEW n, n = Unlinked(m, dir, i)
  PROVE  /\ Sound(n, done) /\ Follows(m, n)
         /\ n.bbm = m.bbm /\ n.ind = m.ind
         /\ \A j \in Ino \ {i, dir} : n.ino[j] = m.ino[j]
         /\ n.ino[i].type = "free" /\ SameNode(n.ino[dir], m.ino[dir])
<1> DEFINE s == m.ino[dir].kids
           r == RemoveFirst(s, i)
           d == [m.ino[dir] EXCEPT !.kids = RemoveFirst(@, i)]
<1>1. m \in Store /\ Tree(m)
  BY DEF Sound
<1>2. m.ino \in [Ino -> NodeRec] /\ m.ino[dir] \in NodeRec /\ s \in Seq(Ino) /\ Len(s) \in Nat
  BY <1>1, StoreParts
<1>3. \A j \in Ino : \A k \in 1 .. Len(m.ino[j].kids) :
        LET c == m.ino[j].kids[k]
        IN  c \in Ino \ {Root, j} /\ m.ino[c].type # "free" /\ m.ino[c].parent = j
  <2>1. \A j \in Ino : \A k \in 1 .. Len(m.ino[j].kids) : m.ino[j].kids[k] \in Ino
    BY <1>1, StoreParts
  <2> QED BY <1>1, <2>1 DEF Tree, Entries
<1>4. /\ r \in Seq(Ino) /\ Len(r) <= Len(s) /\ Len(r) \in Nat
      /\ \A p \in 1 .. Len(r) : r[p] # i /\ \E q \in 1 .. Len(s) : r[p] = s[q]
      /\ \A p, q \in 1 .. Len(r) : r[p] = r[q] => p = q
  <2>1. \A p, q \in 1 .. Len(s) : s[p] = s[q] => p = q
    BY <1>1, ListedOnce
  <2> HIDE DEF s
  <2>2. /\ r \in Seq(Ino) /\ Len(r) <= Len(s)
        /\ \A p \in 1 .. Len(r) : r[p] # i /\ \E q \in 1 .. Len(s) : r[p] = s[q]
        /\ \A p, q \in 1 .. Len(r) : r[p] = r[q] => p = q
    BY <1>2, <2>1, RemoveFirstIs
  <2> HIDE DEF r
  <2>3. Len(r) \in Nat
    BY <2>2
  <2> QED BY <2>2, <2>3
<1>5. d \in NodeRec /\ d.kids = r /\ SameNode(d, m.ino[dir])
  <2>1. d = [m.ino[dir] EXCEPT !.kids = r]
    BY <1>2 DEF NodeRec
  <2> HIDE DEF d, r
  <2> QED BY <1>2, <1>4, <2>1, NodeWithKids
<1>6. /\ FreeNode \in NodeRec /\ FreeNode.type = "free" /\ FreeNode.size = 0
      /\ Blank(FreeNode) /\ FreeNode.kids = <<>>
  BY NodeType, Consts DEF FreeNode
<1> HIDE DEF d, r
<1> DEFINE f == [[m.ino EXCEPT ![i] = FreeNode] EXCEPT ![dir] = d]
           t == m.ibm \ {i}
<1>7. n = [m EXCEPT !.ibm = t, !.ino = f]
  <2>1. n = [m EXCEPT !.ibm = @ \ {i}, !.ino[i] = FreeNode, !.ino[dir] = d]
    BY DEF Unlinked, d
  <2> QED BY <1>1, <2>1 DEF Store
<1>8. f \in [Ino -> NodeRec] /\ f[i] = FreeNode /\ f[dir] = d /\ \A j \in Ino \ {i, dir} : f[j] = m.ino[j]
  BY <1>2, <1>5, <1>6
<1>9. t \in SUBSET Ino
  BY <1>1, StoreParts
<1> HIDE DEF f, t
<1>10. /\ n \in Store /\ n.ibm = t /\ n.ind = m.ind /\ n.bbm = m.bbm
       /\ n.ino[i] = FreeNode /\ n.ino[dir] = d /\ \A j \in Ino \ {i, dir} : n.ino[j] = m.ino[j]
  <2>1. n \in Store /\ n.ibm = t /\ n.ind = m.ind /\ n.bbm = m.bbm /\ n.ino = f
    BY <1>1, <1>7, <1>8, <1>9 DEF Store
  <2> QED BY <1>8, <2>1
<1>11. \A j \in Ino \ {i} : SameNode(n.ino[j], m.ino[j])
  BY <1>5, <1>10 DEF SameNode, SameFile
<1>12. \A j \in Ino : Kept(m, n, j)
  <2>1. Kept(m, n, i)
    BY <1>6, <1>10, KeptBlank
  <2>2. \A j \in Ino \ {i} : Kept(m, n, j)
    BY <1>10, <1>11, KeptSame DEF SameNode
  <2> QED BY <2>1, <2>2
<1>13. Marked(n) /\ Apart(n) /\ Filled(n, done) /\ Follows(m, n)
  <2>1. Marked(m) /\ Apart(m) /\ Filled(m, done)
    BY DEF Sound
  <2> QED BY <1>1, <1>10, <1>12, <2>1, BlocksKept
\* Every entry that is left was one of m, and is not i.
<1>14. ASSUME NEW j \in Ino, NEW k \in 1 .. Len(n.ino[j].kids)
       PROVE  \E q \in 1 .. Len(m.ino[j].kids) :
                n.ino[j].kids[k] = m.ino[j].kids[q] /\ m.ino[j].kids[q] # i
  <2>1. CASE j = i
    BY <1>6, <1>10, <2>1
  <2>2. CASE j = dir
    <3>1. n.ino[j].kids = r
      BY <1>5, <1>10, <2>2
    <3>2. k \in 1 .. Len(r)
      BY <3>1
    <3>3. r[k] # i /\ \E q \in 1 .. Len(s) : r[k] = s[q]
      BY <1>4, <3>2
    <3> QED BY <2>2, <3>1, <3>3
  <2>3. CASE j \notin {i, dir}
    <3>1. n.ino[j] = m.ino[j]
      BY <1>10, <2>3
    <3>2. k \in 1 .. Len(m.ino[j].kids)
      BY <3>1
    <3>3. m.ino[j].kids[k] \in Ino /\ m.ino[m.ino[j].kids[k]].type # "free" /\ m.ino[m.ino[j].kids[k]].parent = j
      BY <1>3, <3>2
    <3> QED BY <2>3, <3>1, <3>2, <3>3
  <2> QED BY <2>1, <2>2, <2>3
<1>15. Entries(n)
  <2> SUFFICES ASSUME NEW j \in Ino, NEW k \in 1 .. Len(n.ino[j].kids)
               PROVE  LET c == n.ino[j].kids[k]
                      IN  c \notin {Root, j} /\ n.ino[c].type # "free" /\ n.ino[c].parent = j
    BY DEF Entries
  <2>1. PICK q \in 1 .. Len(m.ino[j].kids) :
          n.ino[j].kids[k] = m.ino[j].kids[q] /\ m.ino[j].kids[q] # i
    BY <1>14
  <2> DEFINE c == m.ino[j].kids[q]
  <2>2. c \in Ino \ {Root, j} /\ m.ino[c].type # "free" /\ m.ino[c].parent = j
    BY <1>3
  <2>3. n.ino[j].kids[k] = c /\ c # i
    BY <2>1
  <2> HIDE DEF c
  <2>4. SameNode(n.ino[c], m.ino[c])
    BY <1>11, <2>2, <2>3
  <2> QED BY <2>2, <2>3, <2>4 DEF SameNode
<1>16. NamedApart(n)
  <2> SUFFICES ASSUME NEW j \in Ino, NEW k \in 1 .. Len(n.ino[j].kids), NEW l \in 1 .. Len(n.ino[j].kids),
                      n.ino[n.ino[j].kids[k]].name = n.ino[n.ino[j].kids[l]].name
               PROVE  k = l
    BY DEF NamedApart
  <2>1. PICK p \in 1 .. Len(m.ino[j].kids) :
          n.ino[j].kids[k] = m.ino[j].kids[p] /\ m.ino[j].kids[p] # i
    BY <1>14
  <2>2. PICK q \in 1 .. Len(m.ino[j].kids) :
          n.ino[j].kids[l] = m.ino[j].kids[q] /\ m.ino[j].kids[q] # i
    BY <1>14
  <2>3. /\ n.ino[m.ino[j].kids[p]].name = m.ino[m.ino[j].kids[p]].name
        /\ n.ino[m.ino[j].kids[q]].name = m.ino[m.ino[j].kids[q]].name
    <3>1. m.ino[j].kids[p] \in Ino \ {i} /\ m.ino[j].kids[q] \in Ino \ {i}
      BY <1>3, <2>1, <2>2
    <3> QED BY <1>11, <3>1 DEF SameNode
  <2>4. p = q
    <3>1. \A a, b \in 1 .. Len(m.ino[j].kids) :
            m.ino[m.ino[j].kids[a]].name = m.ino[m.ino[j].kids[b]].name => a = b
      BY <1>1 DEF Tree, NamedApart
    <3> QED BY <2>1, <2>2, <2>3, <3>1
  <2>5. n.ino[j].kids[k] = n.ino[j].kids[l]
    BY <2>1, <2>2, <2>4
  <2>6. j # i
    BY <1>6, <1>10
  <2>7. CASE j = dir
    <3>1. n.ino[j].kids = r
      BY <1>5, <1>10, <2>7
    <3> QED BY <1>4, <2>5, <3>1
  <2>8. CASE j # dir
    <3>1. n.ino[j] = m.ino[j]
      BY <1>10, <2>6, <2>8
    <3> QED BY <1>1, <2>5, <3>1, ListedOnce
  <2> QED BY <2>7, <2>8
<1>17. Tree(n)
  <2>1. n.ino[Root].type = "dir"
    BY <1>1, <1>11, Consts DEF Tree, SameNode
  <2>2. \A j \in Ino : j \in n.ibm <=> n.ino[j].type # "free"
    BY <1>1, <1>6, <1>10, <1>11 DEF Tree, SameNode, t
  <2>3. \A j \in Ino : Len(n.ino[j].kids) <= MaxKids
    <3>1. Len(d.kids) <= MaxKids
      BY <1>1, <1>2, <1>4, <1>5, Consts DEF Tree
    <3>2. Len(FreeNode.kids) <= MaxKids
      BY <1>6, Consts
    <3> QED BY <1>1, <1>10, <3>1, <3>2 DEF Tree
  <2>4. \A j \in Ino : n.ino[j].type # "dir" => n.ino[j].kids = <<>>
    <3>1. d.type # "dir" => d.kids = <<>>
      <4> SUFFICES ASSUME d.type # "dir" PROVE r = <<>>
        BY <1>5
      <4>1. s = <<>>
        BY <1>1, <1>5 DEF Tree, SameNode
      <4>2. Len(r) = 0
        BY <1>4, <4>1
      <4> QED BY <1>4, <4>2
    <3> QED BY <1>1, <1>6, <1>10, <3>1 DEF Tree
  <2> QED BY <1>15, <1>16, <2>1, <2>2, <2>3, <2>4 DEF Tree
<1> QED BY <1>5, <1>6, <1>10, <1>13, <1>17 DEF Sound

\* The first commit of file_truncate.
Emptied(m, i) ==
  [m EXCEPT !.ino[i] = [Node(m.ino[i].type, m.ino[i].name, m.ino[i].parent) EXCEPT !.kids = m.ino[i].kids]]

LEMMA EmptySound ==
  ASSUME NEW m, NEW done, Sound(m, done), NEW i \in Ino, NEW n, n = Emptied(m, i)
  PROVE  /\ Sound(n, done) /\ Follows(m, n)
         /\ n.bbm = m.bbm /\ n.ind = m.ind
         /\ \A j \in Ino \ {i} : n.ino[j] = m.ino[j]
         /\ SameEntry(n.ino[i], m.ino[i])
         /\ \A k \in Place, j \in Ino, l \in Place :
              Slot(m, i, k) # Nil => Slot(m, i, k) # Slot(n, j, l)
<1> DEFINE new == Node(m.ino[i].type, m.ino[i].name, m.ino[i].parent)
           d   == [new EXCEPT !.kids = m.ino[i].kids]
<1>1. m \in Store /\ Tree(m) /\ Marked(m) /\ Apart(m) /\ Filled(m, done)
  BY DEF Sound
<1>2. m.ino \in [Ino -> NodeRec] /\ m.ino[i] \in NodeRec /\ m.ino[i].kids \in Seq(Ino)
  BY <1>1, StoreParts
<1>3. /\ new \in NodeRec /\ new.type = m.ino[i].type /\ new.name = m.ino[i].name
      /\ new.parent = m.ino[i].parent /\ new.size = 0 /\ Blank(new)
  <2>1. m.ino[i].type \in {"free", "file", "dir"} /\ m.ino[i].name \in Name \union {Nil} /\ m.ino[i].parent \in Ino
    BY <1>2 DEF NodeRec
  <2>2. \A ty \in {"free", "file", "dir"}, nm \in Name \union {Nil}, pa \in Ino :
          LET x == Node(ty, nm, pa)
          IN  /\ x \in NodeRec /\ x.type = ty /\ x.name = nm /\ x.parent = pa /\ x.size = 0
              /\ Blank(x)
    BY NodeType
  <2> QED BY <2>1, <2>2
<1> HIDE DEF new
<1>4. d \in NodeRec /\ d.kids = m.ino[i].kids /\ SameNode(d, new)
  BY <1>2, <1>3, NodeWithKids
<1>5. SameEntry(d, m.ino[i]) /\ d.size = 0 /\ Blank(d)
  BY <1>3, <1>4 DEF SameEntry, SameNode, SameFile, Blank
<1>6. n = [m EXCEPT !.ino[i] = d]
  BY DEF Emptied, new
<1> HIDE DEF d
<1>7. /\ n \in Store /\ n.ibm = m.ibm /\ n.ind = m.ind /\ n.bbm = m.bbm
      /\ n.ino[i] = d /\ \A j \in Ino \ {i} : n.ino[j] = m.ino[j]
  BY <1>1, <1>2, <1>4, <1>6 DEF Store
<1>8. \A j \in Ino : SameEntry(n.ino[j], m.ino[j])
  BY <1>5, <1>7 DEF SameEntry
<1>9. Tree(n)
  BY <1>1, <1>7, <1>8, TreeSame
<1>10. \A k \in Place : Slot(n, i, k) = Nil
  BY <1>5, <1>7, KeptBlank
<1>11. \A j \in Ino \ {i} : Kept(m, n, j) /\ \A k \in Place : Slot(n, j, k) = Slot(m, j, k)
  <2> SUFFICES ASSUME NEW j \in Ino \ {i}
               PROVE  Kept(m, n, j) /\ \A k \in Place : Slot(n, j, k) = Slot(m, j, k)
    OBVIOUS
  <2>1. SameFile(n.ino[j], m.ino[j])
    BY <1>7 DEF SameFile
  <2> QED BY <1>7, <2>1, KeptSame, ChainSame DEF Slot, SameFile
<1>12. \A j \in Ino : Kept(m, n, j)
  BY <1>5, <1>7, <1>11, KeptBlank
<1>13. Marked(n) /\ Apart(n) /\ Filled(n, done) /\ Follows(m, n)
  BY <1>1, <1>7, <1>12, BlocksKept
<1>14. \A k \in Place, j \in Ino, l \in Place :
         Slot(m, i, k) # Nil => Slot(m, i, k) # Slot(n, j, l)
  BY <1>1, <1>10, <1>11 DEF Apart
<1> QED BY <1>5, <1>7, <1>9, <1>13, <1>14 DEF Sound

\* The other commits of file_truncate: bits of blocks that nothing maps.
LEMMA FreeSound ==
  ASSUME NEW m, NEW done, Sound(m, done), NEW bs,
         \A i \in Ino, k \in Place : Slot(m, i, k) # Nil => Slot(m, i, k) \notin bs
  PROVE  LET n == Free(m, bs)
         IN  /\ Sound(n, done) /\ Follows(m, n)
             /\ n.ino = m.ino /\ n.ind = m.ind /\ n.ibm = m.ibm /\ n.bbm = m.bbm \ bs
             /\ \A i \in Ino, k \in Place : Slot(n, i, k) = Slot(m, i, k)
<1> DEFINE n == Free(m, bs)
<1>1. m \in Store /\ Tree(m) /\ Marked(m) /\ Apart(m) /\ Filled(m, done)
  BY DEF Sound
<1>2. n \in Store /\ n.ino = m.ino /\ n.ind = m.ind /\ n.ibm = m.ibm /\ n.bbm = m.bbm \ bs
  BY <1>1 DEF Free, Store
<1> HIDE DEF n
<1>3. Tree(n)
  BY <1>1, <1>2, TreeSame DEF SameEntry
<1>4. \A i \in Ino : Kept(m, n, i) /\ \A k \in Place : Slot(n, i, k) = Slot(m, i, k)
  <2>1. \A i \in Ino : SameFile(n.ino[i], m.ino[i])
    BY <1>2 DEF SameFile
  <2> QED BY <1>2, <2>1, KeptSame, ChainSame DEF Slot
<1>5. \A i \in Ino, k \in Place : Slot(m, i, k) \in m.bbm \ n.bbm => Slot(n, i, k) = Nil
  <2>1. \A i \in Ino, k \in Place : Slot(m, i, k) \in m.bbm \ n.bbm => Slot(m, i, k) # Nil
    BY <1>1, Consts DEF Store
  <2> QED BY <1>2, <2>1
<1>6. Marked(n) /\ Apart(n) /\ Filled(n, done) /\ Follows(m, n)
  BY <1>1, <1>2, <1>4, <1>5, BlocksKept
<1> QED BY <1>2, <1>3, <1>4, <1>6 DEF Sound, n

-----------------------------------------------------------------------------
(* What the stream maps.                                                   *)

\* n maps the block r.blk at k in r, perhaps through a new indirect block, and all
\* the rest as before.
Grown(m, n, k, r) ==
  /\ r.m \in Store /\ r.n \in NodeRec
  /\ r.m.ino = m.ino /\ r.m.ibm = m.ibm
  /\ SameEntry(r.n, n) /\ r.n.size = n.size
  /\ r.blk \in Blk \ m.bbm
  /\ r.m.bbm = m.bbm \union {r.blk} \union ({r.n.ind1} \ {n.ind1})
  /\ r.n.ind1 # n.ind1 => n.ind1 = Nil /\ r.n.ind1 \in Blk \ (m.bbm \union {r.blk})
  /\ \A b \in Blk : b # r.n.ind1 => r.m.ind[b] = m.ind[b]
  /\ Mapped(r.m, r.n, k) = r.blk
  /\ \A l \in 1 .. FileMax : l # k => Mapped(r.m, r.n, l) = Mapped(m, n, l)

LEMMA ClaimIs ==
  ASSUME NEW m \in Store, NEW b \in Blk
  PROVE  LET c == Claim(m, b)
         IN  c \in Store /\ c.ino = m.ino /\ c.ibm = m.ibm /\ c.ind = m.ind /\ c.bbm = m.bbm \union {b}
BY DEF Claim, Store

LEMMA IndirectIs ==
  ASSUME NEW m \in Store, NEW f \in [Blk -> [1 .. Fan -> Ptr]]
  PROVE  LET c == [m EXCEPT !.ind = f]
         IN  c \in Store /\ c.ino = m.ino /\ c.ibm = m.ibm /\ c.ind = f /\ c.bbm = m.bbm
BY DEF Store

LEMMA NodeParts ==
  ASSUME NEW n \in NodeRec
  PROVE  /\ n.direct \in [1 .. Direct -> Ptr] /\ n.ind1 \in Ptr
         /\ \A f \in [1 .. Direct -> Ptr] :
              LET d == [n EXCEPT !.direct = f]
              IN  d \in NodeRec /\ SameEntry(d, n) /\ d.size = n.size /\ d.direct = f /\ d.ind1 = n.ind1
         /\ \A b \in Ptr :
              LET d == [n EXCEPT !.ind1 = b]
              IN  d \in NodeRec /\ SameEntry(d, n) /\ d.size = n.size /\ d.direct = n.direct /\ d.ind1 = b
<1>1. n.direct \in [1 .. Direct -> Ptr] /\ n.ind1 \in Ptr
  BY DEF NodeRec
<1>2. ASSUME NEW f \in [1 .. Direct -> Ptr]
      PROVE  LET d == [n EXCEPT !.direct = f]
             IN  d \in NodeRec /\ SameEntry(d, n) /\ d.size = n.size /\ d.direct = f /\ d.ind1 = n.ind1
  BY DEF NodeRec, SameEntry
<1>3. ASSUME NEW b \in Ptr
      PROVE  LET d == [n EXCEPT !.ind1 = b]
             IN  d \in NodeRec /\ SameEntry(d, n) /\ d.size = n.size /\ d.direct = n.direct /\ d.ind1 = b
  BY DEF NodeRec, SameEntry
<1> QED BY <1>1, <1>2, <1>3

LEMMA DirectGrown ==
  ASSUME NEW m \in Store, NEW n \in NodeRec, NEW k \in 1 .. FileMax, k <= Direct,
         NEW r \in Mappings(m, n, k)
  PROVE  Grown(m, n, k, r)
<1>1. PICK b \in Spare(m) : r = [m |-> Claim(m, b), n |-> [n EXCEPT !.direct[k] = b], blk |-> b]
  BY DEF Mappings
<1>2. b \in Blk \ m.bbm /\ b \in Ptr
  BY DEF Spare, Ptr
<1> DEFINE f == [n.direct EXCEPT ![k] = b]
           d == [n EXCEPT !.direct = f]
<1>3. k \in 1 .. Direct
  BY FileMaxIs
<1>4. f \in [1 .. Direct -> Ptr] /\ f[k] = b /\ \A l \in 1 .. Direct : l # k => f[l] = n.direct[l]
  BY <1>2, <1>3, NodeParts
<1>5. r.m = Claim(m, b) /\ r.n = d /\ r.blk = b
  BY <1>1 DEF NodeRec
<1> HIDE DEF f
<1>6. d \in NodeRec /\ SameEntry(d, n) /\ d.size = n.size /\ d.direct = f /\ d.ind1 = n.ind1
  BY <1>4, NodeParts
<1> HIDE DEF d
<1>7. r.m \in Store /\ r.m.ino = m.ino /\ r.m.ibm = m.ibm /\ r.m.ind = m.ind /\ r.m.bbm = m.bbm \union {b}
  BY <1>2, <1>5, ClaimIs
<1>8. Mapped(r.m, r.n, k) = b
  BY <1>4, <1>5, <1>6 DEF Mapped
<1>9. ASSUME NEW l \in 1 .. FileMax, l # k PROVE Mapped(r.m, r.n, l) = Mapped(m, n, l)
  <2>1. CASE l <= Direct
    BY <1>4, <1>5, <1>6, <1>9, <2>1, FileMaxIs, Consts DEF Mapped
  <2>2. CASE ~(l <= Direct)
    BY <1>5, <1>6, <1>7, <2>2 DEF Mapped
  <2> QED BY <2>1, <2>2
<1> QED BY <1>2, <1>5, <1>6, <1>7, <1>8, <1>9 DEF Grown

\* An indirect block: that of n, or a new one that maps nothing.
LEMMA RootedIs ==
  ASSUME NEW m \in Store, NEW n \in NodeRec, NEW q \in Rooted(m, n), n.ind1 # Nil => n.ind1 \in m.bbm
  PROVE  /\ q.m \in Store /\ q.n \in NodeRec
         /\ q.m.ino = m.ino /\ q.m.ibm = m.ibm
         /\ SameEntry(q.n, n) /\ q.n.size = n.size /\ q.n.direct = n.direct
         /\ q.n.ind1 \in Blk /\ q.n.ind1 \in q.m.bbm
         /\ q.n.ind1 # n.ind1 => n.ind1 = Nil /\ q.n.ind1 \notin m.bbm
         /\ q.m.bbm = m.bbm \union ({q.n.ind1} \ {n.ind1})
         /\ \A b \in Blk : b # q.n.ind1 => q.m.ind[b] = m.ind[b]
         /\ \A l \in 1 .. FileMax : Mapped(q.m, q.n, l) = Mapped(m, n, l)
<1>1. CASE n.ind1 # Nil
  <2>1. q = [m |-> m, n |-> n]
    BY <1>1 DEF Rooted
  <2>2. q.m = m /\ q.n = n
    BY <2>1
  <2>3. n.ind1 \in Blk
    BY <1>1, NodeParts DEF Ptr
  <2> QED BY <1>1, <2>2, <2>3 DEF SameEntry
<1>2. CASE n.ind1 = Nil
  <2>1. PICK c \in Spare(m) :
          q = [m |-> [Claim(m, c) EXCEPT !.ind[c] = NoInd], n |-> [n EXCEPT !.ind1 = c]]
    BY <1>2 DEF Rooted
  <2>2. c \in Blk \ m.bbm /\ c \in Ptr /\ c # Nil
    BY Consts DEF Spare, Ptr
  <2> DEFINE f == [m.ind EXCEPT ![c] = NoInd]
             a == Claim(m, c)
  <2>3. f \in [Blk -> [1 .. Fan -> Ptr]] /\ f[c] = NoInd /\ \A b \in Blk : b # c => f[b] = m.ind[b]
    <3>1. m.ind \in [Blk -> [1 .. Fan -> Ptr]]
      BY StoreParts
    <3>2. NoInd \in [1 .. Fan -> Ptr]
      BY DEF NoInd, Ptr
    <3> QED BY <2>2, <3>1, <3>2
  <2>4. a \in Store /\ a.ino = m.ino /\ a.ibm = m.ibm /\ a.ind = m.ind /\ a.bbm = m.bbm \union {c}
    BY <2>2, ClaimIs
  <2>5. q.m = [a EXCEPT !.ind[c] = NoInd] /\ q.n = [n EXCEPT !.ind1 = c]
    BY <2>1
  <2> HIDE DEF a
  <2>6. q.m = [a EXCEPT !.ind = f]
    BY <2>4, <2>5 DEF Store
  <2> HIDE DEF f
  <2>7. q.m \in Store /\ q.m.ino = m.ino /\ q.m.ibm = m.ibm /\ q.m.ind = f /\ q.m.bbm = m.bbm \union {c}
    BY <2>3, <2>4, <2>6, IndirectIs
  <2>8. q.n \in NodeRec /\ SameEntry(q.n, n) /\ q.n.size = n.size /\ q.n.direct = n.direct /\ q.n.ind1 = c
    BY <2>2, <2>5, NodeParts
  <2>9. ASSUME NEW l \in 1 .. FileMax PROVE Mapped(q.m, q.n, l) = Mapped(m, n, l)
    <3>1. CASE l <= Direct
      BY <2>8, <3>1 DEF Mapped
    <3>2. CASE ~(l <= Direct)
      <4>1. l - Direct \in 1 .. Fan
        BY <3>2, FileMaxIs, Consts
      <4>2. Mapped(q.m, q.n, l) = NoInd[l - Direct]
        BY <2>2, <2>3, <2>7, <2>8, <3>2 DEF Mapped
      <4>3. Mapped(m, n, l) = Nil
        BY <1>2, <3>2 DEF Mapped
      <4> QED BY <4>1, <4>2, <4>3 DEF NoInd
    <3> QED BY <3>1, <3>2
  <2> QED BY <1>2, <2>2, <2>3, <2>7, <2>8, <2>9
<1> QED BY <1>1, <1>2

LEMMA IndirectGrown ==
  ASSUME NEW m \in Store, NEW n \in NodeRec, NEW k \in 1 .. FileMax, ~(k <= Direct),
         NEW r \in Mappings(m, n, k), n.ind1 # Nil => n.ind1 \in m.bbm
  PROVE  Grown(m, n, k, r)
<1>1. PICK q \in Rooted(m, n) : \E b \in Spare(q.m) :
        r = [m |-> [Claim(q.m, b) EXCEPT !.ind[q.n.ind1][k - Direct] = b], n |-> q.n, blk |-> b]
  BY DEF Mappings
<1>2. PICK b \in Spare(q.m) :
        r = [m |-> [Claim(q.m, b) EXCEPT !.ind[q.n.ind1][k - Direct] = b], n |-> q.n, blk |-> b]
  BY <1>1
<1> DEFINE c == q.n.ind1
           a == Claim(q.m, b)
           p == [q.m.ind[c] EXCEPT ![k - Direct] = b]
           f == [q.m.ind EXCEPT ![c] = p]
<1>3. /\ q.m \in Store /\ q.n \in NodeRec
      /\ q.m.ino = m.ino /\ q.m.ibm = m.ibm
      /\ SameEntry(q.n, n) /\ q.n.size = n.size /\ q.n.direct = n.direct
      /\ c \in Blk /\ c \in q.m.bbm
      /\ c # n.ind1 => n.ind1 = Nil /\ c \notin m.bbm
      /\ q.m.bbm = m.bbm \union ({c} \ {n.ind1})
      /\ \A d \in Blk : d # c => q.m.ind[d] = m.ind[d]
      /\ \A l \in 1 .. FileMax : Mapped(q.m, q.n, l) = Mapped(m, n, l)
  BY RootedIs
<1>4. b \in Blk \ q.m.bbm /\ b \in Ptr
  BY DEF Spare, Ptr
<1>5. r.m = [a EXCEPT !.ind[c][k - Direct] = b] /\ r.n = q.n /\ r.blk = b
  BY <1>2
<1>6. a \in Store /\ a.ino = q.m.ino /\ a.ibm = q.m.ibm /\ a.ind = q.m.ind /\ a.bbm = q.m.bbm \union {b}
  BY <1>3, <1>4, ClaimIs
<1> HIDE DEF a
<1>7. k - Direct \in 1 .. Fan
  BY FileMaxIs, Consts
<1>8. q.m.ind \in [Blk -> [1 .. Fan -> Ptr]] /\ q.m.ind[c] \in [1 .. Fan -> Ptr]
  BY <1>3, StoreParts
<1>9. p \in [1 .. Fan -> Ptr] /\ p[k - Direct] = b /\ \A l \in 1 .. Fan : l # k - Direct => p[l] = q.m.ind[c][l]
  BY <1>4, <1>7, <1>8
<1>10. r.m = [a EXCEPT !.ind = f]
  BY <1>3, <1>5, <1>6 DEF Store
<1> HIDE DEF p
<1>11. f \in [Blk -> [1 .. Fan -> Ptr]] /\ f[c] = p /\ \A d \in Blk : d # c => f[d] = q.m.ind[d]
  BY <1>3, <1>8, <1>9
<1> HIDE DEF f
<1>12. r.m \in Store /\ r.m.ino = m.ino /\ r.m.ibm = m.ibm /\ r.m.ind = f /\ r.m.bbm = q.m.bbm \union {b}
  BY <1>3, <1>6, <1>10, <1>11, IndirectIs
<1>13. c # Nil
  BY <1>3, Consts
<1>14. Mapped(r.m, r.n, k) = b
  BY <1>5, <1>9, <1>11, <1>12, <1>13 DEF Mapped
<1>15. ASSUME NEW l \in 1 .. FileMax, l # k PROVE Mapped(r.m, r.n, l) = Mapped(m, n, l)
  <2>1. CASE l <= Direct
    BY <1>3, <1>5, <2>1 DEF Mapped
  <2>2. CASE ~(l <= Direct)
    <3>1. l - Direct \in 1 .. Fan /\ l - Direct # k - Direct
      BY <1>15, <2>2, FileMaxIs, Consts
    <3>2. Mapped(r.m, r.n, l) = p[l - Direct]
      BY <1>5, <1>11, <1>12, <1>13, <2>2 DEF Mapped
    <3>3. Mapped(q.m, q.n, l) = q.m.ind[c][l - Direct]
      BY <1>13, <2>2 DEF Mapped
    <3> QED BY <1>3, <1>9, <3>1, <3>2, <3>3
  <2> QED BY <2>1, <2>2
<1> HIDE DEF c
<1>16. r.m.bbm = m.bbm \union {r.blk} \union ({c} \ {n.ind1})
  BY <1>3, <1>5, <1>12
<1>17. r.n.ind1 = c
  BY <1>5 DEF c
<1>18. /\ r.m \in Store /\ r.n \in NodeRec /\ r.m.ino = m.ino /\ r.m.ibm = m.ibm
       /\ SameEntry(r.n, n) /\ r.n.size = n.size
  BY <1>3, <1>5, <1>12
<1>19. r.blk \in Blk \ m.bbm /\ (c # n.ind1 => n.ind1 = Nil /\ c \in Blk \ (m.bbm \union {r.blk}))
  BY <1>3, <1>4, <1>5
<1>20. \A d \in Blk : d # c => r.m.ind[d] = m.ind[d]
  BY <1>3, <1>11, <1>12
<1>21. /\ r.m.bbm = m.bbm \union {r.blk} \union ({r.n.ind1} \ {n.ind1})
       /\ r.n.ind1 # n.ind1 => n.ind1 = Nil /\ r.n.ind1 \in Blk \ (m.bbm \union {r.blk})
       /\ \A d \in Blk : d # r.n.ind1 => r.m.ind[d] = m.ind[d]
  BY <1>16, <1>17, <1>19, <1>20
<1>22. Mapped(r.m, r.n, k) = r.blk /\ r.blk \in Blk \ m.bbm
  BY <1>5, <1>14, <1>19
<1> QED BY ONLY <1>15, <1>18, <1>21, <1>22 DEF Grown

\* The volume with the node n for the inode i.
LEMMA WithIs ==
  ASSUME NEW m \in Store, NEW i \in Ino, NEW n \in NodeRec
  PROVE  LET a == With(m, i, n)
         IN  /\ a \in Store /\ a.ibm = m.ibm /\ a.bbm = m.bbm /\ a.ind = m.ind
             /\ a.ino[i] = n /\ \A j \in Ino \ {i} : a.ino[j] = m.ino[j]
             /\ \A k \in Place : Slot(a, i, k) = Chain(m, n)[k]
             /\ \A j \in Ino \ {i} : \A k \in Place : Slot(a, j, k) = Slot(m, j, k)
             /\ \A k : Mapped(a, n, k) = Mapped(m, n, k)
<1> DEFINE a == With(m, i, n)
<1>1. m.ino \in [Ino -> NodeRec]
  BY StoreParts
<1> DEFINE f == [m.ino EXCEPT ![i] = n]
<1>2. f \in [Ino -> NodeRec] /\ f[i] = n /\ \A j \in Ino \ {i} : f[j] = m.ino[j]
  BY <1>1
<1>3. a = [m EXCEPT !.ino = f]
  BY DEF With
<1> HIDE DEF a, f
<1>4. a \in Store /\ a.ibm = m.ibm /\ a.bbm = m.bbm /\ a.ind = m.ind /\ a.ino = f
  BY <1>2, <1>3 DEF Store
<1>5. \A d, k : Mapped(a, d, k) = Mapped(m, d, k)
  BY <1>4 DEF Mapped
<1>6. \A d : Chain(a, d) = Chain(m, d)
  BY <1>5 DEF Chain
<1> QED BY <1>2, <1>4, <1>5, <1>6 DEF Slot, a

\* stream_append maps the block behind the end of the file: that and the indirect
\* block that it may need, and all else stays in its place.
LEMMA AppendMapPlaces ==
  ASSUME NEW v \in Store, NEW i \in Ino, NEW n \in NodeRec, NEW done, done \subseteq Blk,
         Sound(With(v, i, n), done),
         n.size < FileMax, NEW k, k = n.size + 1, NEW r, Grown(v, n, k, r)
  PROVE  LET a == With(v, i, n)
             e == With(r.m, i, r.n)
         IN  /\ a \in Store /\ a.bbm = v.bbm /\ e \in Store /\ e.bbm = r.m.bbm
             /\ Tree(e) /\ \A j \in Ino : e.ino[j].size = a.ino[j].size
             /\ a.ino[i] = n
             /\ \A j \in Ino, l \in Place :
                  \/ Slot(e, j, l) = Slot(a, j, l)
                  \/ j = i /\ l = k /\ Slot(e, j, l) = r.blk
                  \/ j = i /\ l = FileMax + 1 /\ r.n.ind1 # n.ind1 /\ Slot(e, j, l) = r.n.ind1
<1> DEFINE a == With(v, i, n)
           e == With(r.m, i, r.n)
<1>1. k \in 1 .. FileMax /\ n.size \in 0 .. FileMax /\ n.size \in Nat
  BY FileMaxIs DEF NodeRec
<1>2. /\ r.m \in Store /\ r.n \in NodeRec
      /\ r.m.ino = v.ino /\ r.m.ibm = v.ibm
      /\ SameEntry(r.n, n) /\ r.n.size = n.size
      /\ r.blk \in Blk \ v.bbm
      /\ r.m.bbm = v.bbm \union {r.blk} \union ({r.n.ind1} \ {n.ind1})
      /\ r.n.ind1 # n.ind1 => n.ind1 = Nil /\ r.n.ind1 \in Blk \ (v.bbm \union {r.blk})
      /\ \A b \in Blk : b # r.n.ind1 => r.m.ind[b] = v.ind[b]
      /\ Mapped(r.m, r.n, k) = r.blk
      /\ \A l \in 1 .. FileMax : l # k => Mapped(r.m, r.n, l) = Mapped(v, n, l)
  BY DEF Grown
<1>3. /\ a \in Store /\ a.ibm = v.ibm /\ a.bbm = v.bbm /\ a.ind = v.ind
      /\ a.ino[i] = n /\ \A j \in Ino \ {i} : a.ino[j] = v.ino[j]
      /\ \A l \in Place : Slot(a, i, l) = Chain(v, n)[l]
      /\ \A j \in Ino \ {i} : \A l \in Place : Slot(a, j, l) = Slot(v, j, l)
  BY WithIs
<1>4. /\ e \in Store /\ e.ibm = v.ibm /\ e.bbm = r.m.bbm /\ e.ind = r.m.ind
      /\ e.ino[i] = r.n /\ \A j \in Ino \ {i} : e.ino[j] = v.ino[j]
      /\ \A l \in Place : Slot(e, i, l) = Chain(r.m, r.n)[l]
      /\ \A j \in Ino \ {i} : \A l \in Place : Slot(e, j, l) = Slot(r.m, j, l)
  <2>1. r.m \in Store /\ r.n \in NodeRec
    BY <1>2
  <2>2. /\ e \in Store /\ e.ibm = r.m.ibm /\ e.bbm = r.m.bbm /\ e.ind = r.m.ind
        /\ e.ino[i] = r.n /\ \A j \in Ino \ {i} : e.ino[j] = r.m.ino[j]
        /\ \A l \in Place : Slot(e, i, l) = Chain(r.m, r.n)[l]
        /\ \A j \in Ino \ {i} : \A l \in Place : Slot(e, j, l) = Slot(r.m, j, l)
    BY <2>1, WithIs, SMTT(30)
  <2> HIDE DEF e
  <2> QED BY <1>2, <2>2
<1>5. Tree(a) /\ Marked(a) /\ Apart(a) /\ Filled(a, done)
  BY DEF Sound
<1> HIDE DEF a, e
<1>6. Tree(e)
  <2>1. \A j \in Ino : SameEntry(e.ino[j], a.ino[j])
    BY <1>2, <1>3, <1>4 DEF SameEntry
  <2> QED BY <1>3, <1>4, <1>5, <2>1, TreeSame
\* What the stream maps, place by place.
<1>7. /\ \A l \in 1 .. FileMax : l # k => Slot(e, i, l) = Slot(a, i, l)
      /\ Slot(e, i, k) = r.blk
      /\ Slot(e, i, FileMax + 1) = r.n.ind1
      /\ Slot(a, i, FileMax + 1) = n.ind1
  <2>1. \A l \in 1 .. FileMax : l \in Place /\ Chain(r.m, r.n)[l] = Mapped(r.m, r.n, l)
                                             /\ Chain(v, n)[l] = Mapped(v, n, l)
    BY <1>2, ChainType, FileMaxIs DEF Place
  <2>2. FileMax + 1 \in Place /\ Chain(r.m, r.n)[FileMax + 1] = r.n.ind1 /\ Chain(v, n)[FileMax + 1] = n.ind1
    BY <1>2, ChainType, FileMaxIs DEF Place
  <2> QED BY <1>1, <1>2, <1>3, <1>4, <2>1, <2>2
\* What the others map does not pass through its indirect block.
<1>8. \A j \in Ino \ {i} : \A l \in Place : Slot(e, j, l) = Slot(a, j, l)
  <2> SUFFICES ASSUME NEW j \in Ino \ {i} PROVE \A l \in Place : Slot(e, j, l) = Slot(a, j, l)
    OBVIOUS
  <2> DEFINE d == v.ino[j]
  <2>0. d \in NodeRec
    BY StoreParts
  <2>1. Slot(a, j, FileMax + 1) = d.ind1 /\ FileMax + 1 \in Place
    <3>1. Slot(a, j, FileMax + 1) = Chain(v, d)[FileMax + 1] /\ FileMax + 1 \in Place
      BY <1>3, FileMaxIs DEF Slot, Place
    <3> HIDE DEF d
    <3> QED BY <2>0, <3>1, ChainType
  <2>2. d.ind1 # Nil => d.ind1 # r.n.ind1 /\ d.ind1 \in Blk
    <3> SUFFICES ASSUME d.ind1 # Nil PROVE d.ind1 # r.n.ind1 /\ d.ind1 \in Blk
      OBVIOUS
    <3>1. d.ind1 \in v.bbm
      BY <1>3, <1>5, <2>1 DEF Marked
    <3>2. d.ind1 # n.ind1
      BY <1>5, <1>7, <2>1 DEF Apart
    <3>3. v.bbm \subseteq Blk
      BY StoreParts
    <3> QED BY <1>2, <3>1, <3>2, <3>3
  <2>3. Chain(r.m, d) = Chain(v, d)
    BY <1>2, <2>2, ChainSame
  <2> QED BY <1>2, <1>3, <1>4, <2>3 DEF Slot
<1>9. \A l \in Place : \/ Slot(e, i, l) = Slot(a, i, l)
                       \/ l = k /\ Slot(e, i, l) = r.blk
                       \/ l = FileMax + 1 /\ r.n.ind1 # n.ind1 /\ Slot(e, i, l) = r.n.ind1
  BY <1>1, <1>7, FileMaxIs DEF Place
<1>10. \A j \in Ino, l \in Place :
         \/ Slot(e, j, l) = Slot(a, j, l)
         \/ j = i /\ l = k /\ Slot(e, j, l) = r.blk
         \/ j = i /\ l = FileMax + 1 /\ r.n.ind1 # n.ind1 /\ Slot(e, j, l) = r.n.ind1
  BY <1>8, <1>9
<1>11. \A j \in Ino : e.ino[j].size = a.ino[j].size
  BY <1>2, <1>3, <1>4
<1> QED BY <1>3, <1>4, <1>6, <1>10, <1>11 DEF a, e

LEMMA AppendMapSound ==
  ASSUME NEW v \in Store, NEW i \in Ino, NEW n \in NodeRec, NEW done, done \subseteq Blk,
         Sound(With(v, i, n), done),
         n.size < FileMax, NEW k, k = n.size + 1, NEW r, Grown(v, n, k, r)
  PROVE  Sound(With(r.m, i, r.n), done \ (r.m.bbm \ v.bbm))
<1> DEFINE a == With(v, i, n)
           e == With(r.m, i, r.n)
           new == r.m.bbm \ v.bbm
<1>1. k \in 1 .. FileMax /\ n.size \in 0 .. FileMax /\ n.size \in Nat
  BY FileMaxIs DEF NodeRec
<1>2. /\ r.blk \in Blk \ v.bbm
      /\ r.m.bbm = v.bbm \union {r.blk} \union ({r.n.ind1} \ {n.ind1})
      /\ r.n.ind1 # n.ind1 => n.ind1 = Nil /\ r.n.ind1 \in Blk \ (v.bbm \union {r.blk})
  BY DEF Grown
<1>3. /\ a \in Store /\ a.bbm = v.bbm /\ e \in Store /\ e.bbm = r.m.bbm
      /\ Tree(e) /\ \A j \in Ino : e.ino[j].size = a.ino[j].size
      /\ a.ino[i] = n
      /\ \A j \in Ino, l \in Place :
           \/ Slot(e, j, l) = Slot(a, j, l)
           \/ j = i /\ l = k /\ Slot(e, j, l) = r.blk
           \/ j = i /\ l = FileMax + 1 /\ r.n.ind1 # n.ind1 /\ Slot(e, j, l) = r.n.ind1
  BY AppendMapPlaces
<1>4. Marked(a) /\ Apart(a) /\ Filled(a, done)
  BY DEF Sound
<1> HIDE DEF a, e
<1>5. v.bbm \subseteq r.m.bbm /\ r.blk \in r.m.bbm \ v.bbm
       /\ (r.n.ind1 # n.ind1 => r.n.ind1 \in r.m.bbm \ v.bbm /\ r.n.ind1 # r.blk)
       /\ k # FileMax + 1
  BY <1>1, <1>2, FileMaxIs
<1>6. \A j \in Ino, l \in Place : Slot(a, j, l) # Nil => Slot(a, j, l) \in v.bbm
  BY <1>3, <1>4 DEF Marked
<1>7. Marked(e)
  BY <1>3, <1>5, <1>6, <1>3 DEF Marked
<1>8. Apart(e)
  <2>0. \A j, h \in Ino, l, q \in Place :
          Slot(a, j, l) # Nil /\ Slot(a, j, l) = Slot(a, h, q) => j = h /\ l = q
    BY <1>4 DEF Apart
  <2> SUFFICES ASSUME NEW j \in Ino, NEW h \in Ino, NEW l \in Place, NEW q \in Place,
                      Slot(e, j, l) # Nil, Slot(e, j, l) = Slot(e, h, q)
               PROVE  j = h /\ l = q
    BY DEF Apart
  <2>4. Slot(a, j, l) # Nil /\ Slot(a, j, l) = Slot(a, h, q) => j = h /\ l = q
    BY <2>0
  <2> DEFINE b == Slot(e, j, l)
  <2>1. \/ b = Slot(a, j, l) /\ b \in v.bbm
        \/ j = i /\ l = k /\ b = r.blk
        \/ j = i /\ l = FileMax + 1 /\ r.n.ind1 # n.ind1 /\ b = r.n.ind1
    BY <1>6, <1>3
  <2>2. \/ b = Slot(a, h, q) /\ b \in v.bbm
        \/ h = i /\ q = k /\ b = r.blk
        \/ h = i /\ q = FileMax + 1 /\ r.n.ind1 # n.ind1 /\ b = r.n.ind1
    BY <1>6, <1>3
  <2>3. b # Nil
    OBVIOUS
  <2> HIDE DEF b
  <2> QED BY <1>5, <2>1, <2>2, <2>3, <2>4
<1>9. Filled(e, done \ new)
  <2> SUFFICES ASSUME NEW j \in Ino, NEW l \in 1 .. e.ino[j].size PROVE Slot(e, j, l) \in done \ new
    BY DEF Filled
  <2>1. e.ino[j].size = a.ino[j].size /\ e.ino[j].size \in 0 .. FileMax
    BY <1>2, <1>3, StoreParts
  <2>2. l \in Place /\ l <= FileMax /\ l \in 1 .. a.ino[j].size
    BY <2>1, FileMaxIs DEF Place
  <2>3. Slot(a, j, l) \in done
    BY <1>4, <2>2 DEF Filled
  <2>4. Slot(a, j, l) \in v.bbm
    BY <1>6, <2>2, <2>3, Consts
  <2>5. Slot(e, j, l) = Slot(a, j, l)
    <3>1. j = i => l # k
      BY <1>1, <1>3, <2>2
    <3>2. l # FileMax + 1
      BY <2>2, FileMaxIs
    <3> QED BY <1>3, <2>2, <3>1, <3>2
  <2> QED BY <2>3, <2>4, <2>5
<1> QED BY <1>3, <1>7, <1>8, <1>9 DEF Sound, e

\* stream_append has written the block.
LEMMA AppendDataSound ==
  ASSUME NEW v \in Store, NEW i \in Ino, NEW n \in NodeRec, NEW done,
         Sound(With(v, i, n), done), n.size < FileMax,
         NEW d, d = [n EXCEPT !.size = @ + 1]
  PROVE  /\ d \in NodeRec /\ SameEntry(d, n) /\ d.size = n.size + 1
         /\ Sound(With(v, i, d), done \union {Mapped(v, n, n.size + 1)})
         /\ \A k : Mapped(v, d, k) = Mapped(v, n, k)
<1> DEFINE a == With(v, i, n)
           e == With(v, i, d)
           blk == Mapped(v, n, n.size + 1)
<1>1. n.size \in 0 .. FileMax /\ n.size \in Nat
  BY FileMaxIs DEF NodeRec
<1>2. /\ d \in NodeRec /\ SameEntry(d, n) /\ d.size = n.size + 1 /\ d.direct = n.direct /\ d.ind1 = n.ind1
  <2>1. n.size + 1 \in 0 .. FileMax
    BY <1>1, FileMaxIs
  <2> QED BY <2>1 DEF NodeRec, SameEntry
<1>3. Chain(v, d) = Chain(v, n) /\ \A k : Mapped(v, d, k) = Mapped(v, n, k)
  BY <1>2 DEF Chain, Mapped
<1>4. /\ a \in Store /\ a.ibm = v.ibm /\ a.bbm = v.bbm
      /\ a.ino[i] = n /\ \A j \in Ino \ {i} : a.ino[j] = v.ino[j]
      /\ \A k \in Place : Slot(a, i, k) = Chain(v, n)[k]
      /\ \A j \in Ino \ {i} : \A k \in Place : Slot(a, j, k) = Slot(v, j, k)
  BY WithIs
<1>5. /\ e \in Store /\ e.ibm = v.ibm /\ e.bbm = v.bbm
      /\ e.ino[i] = d /\ \A j \in Ino \ {i} : e.ino[j] = v.ino[j]
      /\ \A k \in Place : Slot(e, i, k) = Chain(v, d)[k]
      /\ \A j \in Ino \ {i} : \A k \in Place : Slot(e, j, k) = Slot(v, j, k)
  <2>1. \A x \in NodeRec :
          LET y == With(v, i, x)
          IN  /\ y \in Store /\ y.ibm = v.ibm /\ y.bbm = v.bbm
              /\ y.ino[i] = x /\ \A j \in Ino \ {i} : y.ino[j] = v.ino[j]
              /\ \A k \in Place : Slot(y, i, k) = Chain(v, x)[k]
              /\ \A j \in Ino \ {i} : \A k \in Place : Slot(y, j, k) = Slot(v, j, k)
    BY WithIs
  <2>2. d \in NodeRec
    BY <1>2
  <2> QED BY <2>1, <2>2
<1>6. Tree(a) /\ Marked(a) /\ Apart(a) /\ Filled(a, done)
  BY DEF Sound
<1> HIDE DEF a, e
<1>7. Tree(e)
  <2>1. \A j \in Ino : SameEntry(e.ino[j], a.ino[j])
    <3>1. \A j \in Ino \ {i} : e.ino[j] = a.ino[j]
      BY <1>4, <1>5
    <3>2. SameEntry(e.ino[i], a.ino[i])
      BY <1>2, <1>4, <1>5
    <3> QED BY <3>1, <3>2 DEF SameEntry
  <2> QED BY <1>4, <1>5, <1>6, <2>1, TreeSame
<1>8. \A j \in Ino, k \in Place : Slot(e, j, k) = Slot(a, j, k)
  BY <1>3, <1>4, <1>5
<1>9. Marked(e) /\ Apart(e)
  BY <1>4, <1>5, <1>6, <1>8 DEF Marked, Apart
<1>10. Filled(e, done \union {blk})
  <2> SUFFICES ASSUME NEW j \in Ino, NEW k \in 1 .. e.ino[j].size PROVE Slot(e, j, k) \in done \union {blk}
    BY DEF Filled
  <2>1. e.ino[j].size \in 0 .. FileMax
    BY <1>5, StoreParts
  <2>2. k \in Place /\ k \in 1 .. FileMax
    BY <2>1, FileMaxIs DEF Place
  <2>3. CASE j # i \/ k <= n.size
    <3>1. k \in 1 .. a.ino[j].size
      BY <1>1, <1>4, <1>5, <2>2, <2>3
    <3> QED BY <1>6, <1>8, <2>2, <3>1 DEF Filled
  <2>4. CASE j = i /\ ~(k <= n.size)
    <3>1. k = n.size + 1
      <4>1. e.ino[j].size = n.size + 1
        BY <1>2, <1>5, <2>4
      <4> QED BY <1>1, <2>2, <2>4, <4>1
    <3>2. Slot(e, j, k) = Mapped(v, d, k)
      BY <1>2, <1>5, <2>2, <2>4, ChainType
    <3> QED BY <1>3, <3>1, <3>2
  <2> QED BY <2>3, <2>4
<1> QED BY <1>2, <1>3, <1>5, <1>7, <1>9, <1>10 DEF Sound, e

-----------------------------------------------------------------------------
(* Commits, and the stack of calls.                                        *)

LEMMA FollowsSelf == \A m \in Store : Follows(m, m)
<1> SUFFICES ASSUME NEW m \in Store, NEW i \in Ino PROVE m.ino[i].size >= m.ino[i].size
  BY DEF Follows
<1>1. m.ino[i].size \in 0 .. FileMax
  BY StoreParts
<1> QED BY <1>1, FileMaxIs

LEMMA SoundMore ==
  ASSUME NEW m, NEW done, NEW more, Sound(m, done), done \subseteq more
  PROVE  Sound(m, more)
BY DEF Sound, Filled

LEMMA ResultsAre == Results \subseteq BOOLEAN /\ TRUE \in Results
BY DEF Results

LEMMA Remainder == \A x \in Int : x % Ctr \in 0 .. Ctr - 1
BY Consts

LEMMA CountedType ==
  ASSUME sb \in Loads, NEW db \in Int, NEW di \in Int
  PROVE  Counted(db, di) \in Loads
<1>1. sb.fb \in Int /\ sb.fi \in Int
  BY Consts DEF Loads
<1>2. (sb.fb + db) % Ctr \in 0 .. Ctr - 1 /\ (sb.fi + di) % Ctr \in 0 .. Ctr - 1
  BY <1>1, Remainder
<1> QED BY <1>2 DEF Counted, Loads

\* A commit of sound metadata that goes on from the disk.
LEMMA Committed ==
  ASSUME Types, Stores, NEW m, NEW s \in Loads, NEW ok \in BOOLEAN, TxCommit(m, s, ok),
         written \subseteq written', Sound(m, written'), Follows(disk, m)
  PROVE  /\ Stores' /\ Follows(disk, disk')
         /\ sb' \in Loads /\ sbDisk' \in Counters /\ view' = disk' /\ view' \in Store
         /\ doubt' # Nil => doubt' \in [m : Store, sb : Counters]
         /\ ok => disk' = m /\ doubt' = Nil
         /\ ~ok => disk' = disk /\ (doubt' # Nil => doubt' = doubt \/ doubt'.m = m)
<1> DEFINE c   == IF s.dirty THEN [fb |-> s.fb, fi |-> s.fi] ELSE sbDisk
           new == [m |-> m, sb |-> c]
<1>1. c \in Counters
  BY DEF Loads, Counters, Types
<1>2. sb' \in Loads
  BY DEF TxCommit, Loads
<1>3. /\ IF ok THEN disk' = m /\ sbDisk' = c /\ doubt' = Nil
         ELSE doubt' \in {Nil, doubt, new} /\ disk' = disk /\ sbDisk' = sbDisk
      /\ view' = disk'
  BY DEF TxCommit
<1>4. m \in Store /\ disk \in Store /\ Sound(disk, written')
  BY SoundMore DEF Sound, Stores
<1>5. doubt # Nil => Sound(doubt.m, written') /\ Follows(disk, doubt.m) /\ doubt \in [m : Store, sb : Counters]
  BY SoundMore DEF Stores, Types
<1> HIDE DEF c
<1>6. new.m = m /\ new \in [m : Store, sb : Counters]
  BY <1>1, <1>4
<1> HIDE DEF new
<1>7. CASE ok
  BY <1>1, <1>2, <1>3, <1>4, <1>7 DEF Stores
<1>8. CASE ~ok
  <2>1. Follows(disk, disk)
    BY <1>4, FollowsSelf
  <2>2. disk' = disk /\ sbDisk' = sbDisk /\ (doubt' = Nil \/ doubt' = doubt \/ doubt' = new)
    BY <1>3, <1>8
  <2>3. sbDisk' \in Counters
    BY <2>2 DEF Types
  <2>4. doubt' # Nil => Sound(doubt'.m, written') /\ Follows(disk', doubt'.m)
                        /\ doubt' \in [m : Store, sb : Counters]
    BY <1>5, <1>6, <2>2
  <2>5. Stores'
    BY <1>4, <2>2, <2>4 DEF Stores
  <2> QED BY <1>2, <1>3, <1>4, <1>6, <1>8, <2>1, <2>2, <2>3, <2>4, <2>5
<1> QED BY <1>7, <1>8

\* The frames of the calls, by what they are for.
LEMMA FrameIs ==
  ASSUME NEW f \in Frame
  PROVE  /\ f.op \in {"trunc", "begin", "append", "create", "delfile", "deldir", "check"}
         /\ f.op = "trunc" => f \in TruncFrame
         /\ f.op = "begin" => f \in BeginFrame
         /\ f.op = "append" => f \in AppendFrame
         /\ f.op = "create" => f \in CreateFrame
         /\ f.op = "delfile" => f \in FileFrame
         /\ f.op = "deldir" => f \in DirFrame
         /\ f.op = "check" => f \in CheckFrame /\ Checks
BY DEF Frame, TruncFrame, BeginFrame, AppendFrame, CreateFrame, FileFrame, DirFrame, CheckFrame

LEMMA TopIs ==
  ASSUME Types, job # <<>>
  PROVE  Top \in Frame /\ Top = job[1] /\ Len(job) \in Nat /\ Len(job) > 0
BY DEF Types, Top

\* Nothing runs when a call from outside starts.
LEMMA CallFirst ==
  ASSUME Types, CanCall
  PROVE  job = <<>>
<1> SUFFICES ASSUME job # <<>>, Top.op = "check", Top.tick PROVE FALSE
  BY DEF CanCall, At
<1>1. Top \in CheckFrame
  BY TopIs, FrameIs
<1> QED BY <1>1 DEF CheckFrame

\* What a return leaves of the stack.
LEMMA Returned ==
  ASSUME Types, Stacked, job # <<>>, NEW ok \in BOOLEAN, Return(ok)
  PROVE  /\ job' \in Seq(Frame)
         /\ \E d \in {1, 2} : /\ Len(job') = Len(job) - d
                              /\ \A p \in 1 .. Len(job') : job'[p] = job[p + d]
         /\ Truncating' /\ Appending' /\ Stacked' /\ ~At("create")'
         /\ Top.op \in {"append", "create", "check"} => job' = <<>>
         /\ Len(job) = 1 => job' = <<>>
<1> DEFINE rest == Tail(job)
<1>1. job \in Seq(Frame) /\ Len(job) \in Nat /\ Len(job) > 0
  BY TopIs DEF Types
<1>2. rest \in Seq(Frame) /\ Len(rest) = Len(job) - 1 /\ \A p \in 1 .. Len(rest) : rest[p] = job[p + 1]
  BY <1>1
<1>3. job' = rest \/ (rest # <<>> /\ job' = Tail(rest))
  BY DEF Return
<1> HIDE DEF rest
<1>4. rest # <<>> => /\ Tail(rest) \in Seq(Frame) /\ Len(Tail(rest)) = Len(rest) - 1
                     /\ \A p \in 1 .. Len(Tail(rest)) : Tail(rest)[p] = rest[p + 1]
  BY <1>2
<1>5. /\ job' \in Seq(Frame)
      /\ \E d \in {1, 2} : /\ Len(job') = Len(job) - d
                           /\ \A p \in 1 .. Len(job') : job'[p] = job[p + d]
  <2>1. CASE job' = rest
    BY <1>2, <2>1
  <2>2. CASE rest # <<>> /\ job' = Tail(rest)
    <3>1. Len(job') = Len(job) - 2 /\ Len(job) - 2 \in Nat
      BY <1>1, <1>2, <1>4, <2>2
    <3>2. \A p \in 1 .. Len(job') : p + 1 \in 1 .. Len(rest) /\ p + 1 + 1 = p + 2
      BY <1>1, <1>2, <3>1
    <3> QED BY <1>2, <1>4, <2>2, <3>1, <3>2
  <2> QED BY <1>3, <2>1, <2>2
<1>6. PICK d \in {1, 2} : /\ Len(job') = Len(job) - d
                          /\ \A p \in 1 .. Len(job') : job'[p] = job[p + d]
  BY <1>5
<1>7. \A p \in 1 .. Len(job') : job'[p].op \notin {"trunc", "append", "create", "check"}
  <2>1. \A p \in 1 .. Len(job') : p + d \in 2 .. Len(job)
    BY <1>1, <1>6
  <2> QED BY <1>6, <2>1 DEF Stacked
<1>8. ASSUME NEW op \in {"trunc", "append", "create", "check"} PROVE ~At(op)'
  <2> SUFFICES ASSUME job' # <<>>, Head(job').op = op PROVE FALSE
    BY DEF At, Top
  <2>1. 1 \in 1 .. Len(job') /\ Head(job') = job'[1]
    BY <1>5
  <2> QED BY <1>7, <2>1
<1>9. Truncating' /\ Appending' /\ ~At("create")' /\ ~At("append")' /\ ~At("check")'
  BY <1>8 DEF Truncating, Appending
<1>10. Stacked'
  BY <1>5, <1>7, <1>9 DEF Stacked
<1>11. Len(job) = 1 => job' = <<>>
  <2> SUFFICES ASSUME Len(job) = 1 PROVE job' = <<>>
    OBVIOUS
  <2>1. Len(job') = 0
    BY <1>5
  <2> QED BY <1>5, <2>1
<1>12. Top.op \in {"append", "create", "check"} => Len(job) = 1
  BY DEF Stacked, At
<1> QED BY <1>5, <1>9, <1>10, <1>11, <1>12

\* No call is in progress afterwards.
LEMMA EmptyStack ==
  ASSUME job' = <<>>
  PROVE  Truncating' /\ Appending' /\ Beginning' /\ Deleting' /\ Stacked' /\ job' \in Seq(Frame)
<1>1. Len(job') = 0 /\ 1 .. Len(job') = {} /\ 2 .. Len(job') = {}
  OBVIOUS
<1>2. \A op : ~At(op)'
  BY DEF At
<1> QED BY <1>1, <1>2 DEF Truncating, Appending, Beginning, Deleting, Stacked

LEMMA DeletingKept ==
  ASSUME Deleting,
         \A i \in Ino : disk'.ino[i].type # "free" =>
                          disk.ino[i].type # "free" /\ disk'.ino[i].parent = disk.ino[i].parent,
         \A p \in 1 .. Len(job') : job'[p].op \in {"delfile", "deldir"} =>
           /\ job'[p].ino \in Ino
           /\ \E q \in 1 .. Len(job) : /\ job[q].op \in {"delfile", "deldir"}
                                       /\ job[q].ino = job'[p].ino /\ job[q].dir = job'[p].dir
  PROVE  Deleting'
<1> SUFFICES ASSUME NEW p \in 1 .. Len(job'), job'[p].op \in {"delfile", "deldir"}
             PROVE  /\ job'[p].ino \notin {Root, job'[p].dir}
                    /\ disk'.ino[job'[p].ino].type # "free" => disk'.ino[job'[p].ino].parent = job'[p].dir
  BY DEF Deleting
<1>1. PICK q \in 1 .. Len(job) : /\ job[q].op \in {"delfile", "deldir"}
                                 /\ job[q].ino = job'[p].ino /\ job[q].dir = job'[p].dir
  OBVIOUS
<1>2. /\ job[q].ino \notin {Root, job[q].dir}
      /\ disk.ino[job[q].ino].type # "free" => disk.ino[job[q].ino].parent = job[q].dir
  BY <1>1 DEF Deleting
<1>3. job'[p].ino \in Ino
  OBVIOUS
<1> QED BY <1>1, <1>2, <1>3

LEMMA DeletingReturned ==
  ASSUME Types, Stacked, Deleting, job # <<>>, NEW ok \in BOOLEAN, Return(ok),
         \A i \in Ino : disk'.ino[i].type # "free" =>
                          disk.ino[i].type # "free" /\ disk'.ino[i].parent = disk.ino[i].parent
  PROVE  Deleting'
<1>1. job' \in Seq(Frame) /\ job \in Seq(Frame)
  BY Returned DEF Types
<1>2. PICK d \in {1, 2} : /\ Len(job') = Len(job) - d
                          /\ \A p \in 1 .. Len(job') : job'[p] = job[p + d]
  BY Returned
<1>3. \A p \in 1 .. Len(job') : p + d \in 1 .. Len(job) /\ job'[p] = job[p + d] /\ job'[p] \in Frame
  BY <1>1, <1>2
<1>4. \A f \in Frame : f.op \in {"delfile", "deldir"} => f.ino \in Ino
  <2> SUFFICES ASSUME NEW f \in Frame, f.op \in {"delfile", "deldir"} PROVE f.ino \in Ino
    OBVIOUS
  <2>1. f \in FileFrame \/ f \in DirFrame
    BY FrameIs
  <2> QED BY <2>1 DEF FileFrame, DirFrame
<1> QED BY <1>3, <1>4, DeletingKept

\* stream_begin below its truncation.
LEMMA BeginLeft ==
  ASSUME Types, Stacked, Beginning, job # <<>>, NEW ok \in BOOLEAN, Return(ok),
         ws' = ws, ok => doubt' = Nil,
         At("trunc") => \A i \in Ino : disk'.ino[i].type = disk.ino[i].type
  PROVE  Beginning'
<1>1. job' \in Seq(Frame) /\ job \in Seq(Frame) /\ Len(job) \in Nat /\ Len(job) > 0
  BY Returned, TopIs DEF Types
<1>2. PICK d \in {1, 2} : /\ Len(job') = Len(job) - d
                          /\ \A p \in 1 .. Len(job') : job'[p] = job[p + d]
  BY Returned
<1>3. ASSUME NEW p \in 1 .. Len(job'), job'[p].op = "begin"
      PROVE  /\ p = 1 /\ p = Len(job') /\ Len(job) = 2 /\ d = 1 /\ job[1].op = "trunc"
             /\ ~ws.active /\ disk.ino[job'[p].ino].type = "file" /\ job'[p] = job[2]
  <2>1. p + d \in 2 .. Len(job) /\ job'[p] = job[p + d] /\ p + d \in 1 .. Len(job) /\ p \in Nat
    BY <1>1, <1>2
  <2>2. /\ p + d = Len(job) /\ (p + d = 1 \/ (p + d = 2 /\ job[1].op = "trunc"))
        /\ ~ws.active /\ disk.ino[job[p + d].ino].type = "file"
    BY <1>3, <2>1 DEF Beginning
  <2> QED BY <1>2, <2>1, <2>2
<1>4. ASSUME NEW p \in 1 .. Len(job'), job'[p].op = "begin"
      PROVE  disk'.ino[job'[p].ino].type = "file"
  <2>1. job'[p].ino \in Ino
    <3>1. job'[p] \in Frame
      BY <1>1
    <3> QED BY <1>4, <3>1, FrameIs DEF BeginFrame
  <2>2. At("trunc")
    BY <1>3, <1>4, TopIs DEF At
  <2> QED BY <1>3, <1>4, <2>1, <2>2
<1>5. ASSUME At("begin")' PROVE doubt' = Nil
  <2>1. job' # <<>> /\ Head(job').op = "begin"
    BY <1>5 DEF At, Top
  <2>2. 1 \in 1 .. Len(job') /\ job'[1].op = "begin"
    BY <1>1, <2>1
  <2>3. Len(job) = 2 /\ d = 1 /\ job'[1] = job[2]
    BY <1>3, <2>2
  <2> DEFINE rest == Tail(job)
  <2>4. rest \in Seq(Frame) /\ Len(rest) = Len(job) - 1 /\ \A p \in 1 .. Len(rest) : rest[p] = job[p + 1]
    BY <1>1
  <2>5. ~ok /\ rest # <<>> /\ rest[1].op = "begin" => job' = Tail(rest)
    BY DEF Return
  <2> HIDE DEF rest
  <2>6. Len(rest) = 1 /\ rest # <<>>
    BY <2>3, <2>4
  <2>7. rest[1] = job[1 + 1]
    BY <2>4, <2>6
  <2>8. rest[1].op = "begin"
    BY <2>2, <2>3, <2>7
  <2>9. CASE ~ok
    <3>1. job' = Tail(rest)
      BY <2>5, <2>6, <2>8, <2>9
    <3>2. Len(job') = 0
      BY <2>4, <2>6, <3>1
    <3> QED BY <2>2, <3>2
  <2> QED BY <2>9
<1> QED BY <1>3, <1>4, <1>5 DEF Beginning

-----------------------------------------------------------------------------
(* The stream while others run.                                            *)

\* A call reads the tree on the disk, whatever the stream has buffered.
LEMMA ViewTree ==
  ASSUME Types, Opened, Streaming
  PROVE  view.ino = disk.ino /\ view.ibm = disk.ibm
BY DEF Types, Opened, Streaming, Stream

\* A commit while nothing is open.
LEMMA Quiet ==
  ASSUME Types, Opened, ~open, ~At("create"), open' = open, ws' = ws, view' = disk'
  PROVE  Opened' /\ Streaming' /\ ~ws.active /\ view = disk
<1>1. ~ws.active /\ ~ws.suspended
  BY DEF Opened, Types, Stream
<1> QED BY <1>1 DEF Opened, Streaming

\* A step of the stack alone.
LEMMA Still ==
  ASSUME Types, Stores, Opened, Streaming, ~At("create"), UNCHANGED <<meta, ws, written>>
  PROVE  Stores' /\ Opened' /\ Streaming' /\ Follows(disk, disk')
<1>1. /\ disk' = disk /\ view' = view /\ open' = open /\ doubt' = doubt /\ ws' = ws
      /\ written' = written
  BY DEF meta
<1>2. Stores'
  BY <1>1 DEF Stores
<1>3. ~ws.suspended
  BY DEF Opened
<1>4. Opened'
  BY <1>1, <1>3 DEF Opened
<1>5. Ahead' = Ahead
  BY <1>1 DEF Ahead
<1>6. Streaming'
  BY <1>1, <1>5 DEF Streaming
<1>7. Follows(disk, disk')
  BY <1>1, FollowsSelf DEF Stores, Sound
<1> QED BY <1>2, <1>4, <1>6, <1>7

LEMMA StillTypes ==
  ASSUME Types, UNCHANGED <<meta, ws, written>>, job' \in Seq(Frame)
  PROVE  Types'
BY DEF Types, meta

-----------------------------------------------------------------------------
(* file_truncate.                                                          *)

LEMMA TruncIs ==
  ASSUME Types, At("trunc")
  PROVE  job # <<>> /\ Top \in TruncFrame /\ Top.ino \in Ino
<1>1. job # <<>> /\ Top.op = "trunc"
  BY DEF At
<1>2. Top \in TruncFrame
  BY <1>1, TopIs, FrameIs
<1> QED BY <1>1, <1>2 DEF TruncFrame

LEMMA TruncBusyKeeps ==
  ASSUME Inv, TruncBusy
  PROVE  Inv' /\ Follows(disk, disk')
<1> USE DEF Inv
<1>1. At("trunc") /\ Return(FALSE) /\ UNCHANGED <<meta, ws, written>>
  BY DEF TruncBusy
<1>2. job # <<>> /\ ~At("create")
  BY <1>1 DEF At
<1>3. Stores' /\ Opened' /\ Streaming' /\ Follows(disk, disk')
  BY <1>1, <1>2, Still
<1>4. job' \in Seq(Frame) /\ Truncating' /\ Appending' /\ Stacked'
  BY <1>1, <1>2, Returned
<1>5. disk' = disk /\ ws' = ws
  BY <1>1 DEF meta
<1>6. Deleting' /\ Beginning'
  BY <1>1, <1>2, <1>5, DeletingReturned, BeginLeft
<1>7. Types'
  BY <1>1, <1>4, StillTypes
<1> QED BY <1>3, <1>4, <1>6, <1>7

\* A commit of a call while nothing is open.
LEMMA QuietCommit ==
  ASSUME Types, Stores, Opened, Streaming, ~open, ~At("create"),
         open' = open, ws' = ws, written' = written,
         NEW m, NEW s \in Loads, NEW ok \in BOOLEAN, TxCommit(m, s, ok),
         Sound(m, written), Follows(disk, m)
  PROVE  /\ Stores' /\ Opened' /\ Streaming' /\ Follows(disk, disk')
         /\ ok => disk' = m /\ doubt' = Nil
         /\ ~ok => disk' = disk
         /\ job' \in Seq(Frame) => Types'
<1>1. written \subseteq written' /\ Sound(m, written')
  BY SoundMore
<1>2. /\ Stores' /\ Follows(disk, disk')
      /\ sb' \in Loads /\ sbDisk' \in Counters /\ view' = disk' /\ view' \in Store
      /\ doubt' # Nil => doubt' \in [m : Store, sb : Counters]
      /\ ok => disk' = m /\ doubt' = Nil
      /\ ~ok => disk' = disk
  BY <1>1, Committed
<1>3. Opened' /\ Streaming'
  BY <1>2, Quiet
<1>4. job' \in Seq(Frame) => Types'
  BY <1>2 DEF Types
<1> QED BY <1>2, <1>3, <1>4

\* file_truncate goes on with its next commit.
LEMMA TruncGoesOn ==
  ASSUME Types, Stacked, Deleting, Beginning, At("trunc"), NEW f \in TruncFrame,
         job' = [job EXCEPT ![1] = f], ws' = ws,
         \A i \in Ino : disk'.ino[i].type = disk.ino[i].type /\ disk'.ino[i].parent = disk.ino[i].parent
  PROVE  job' \in Seq(Frame) /\ Top' = f /\ At("trunc")'
         /\ Stacked' /\ Deleting' /\ Beginning' /\ Appending'
<1>1. job \in Seq(Frame) /\ Len(job) \in Nat /\ Len(job) > 0 /\ job[1].op = "trunc" /\ f \in Frame /\ f.op = "trunc"
  BY TopIs DEF Types, At, Frame, TruncFrame
<1>2. /\ job' \in Seq(Frame) /\ Len(job') = Len(job) /\ job'[1] = f
      /\ \A p \in 2 .. Len(job) : job'[p] = job[p]
  BY <1>1
<1>3. Top' = f /\ job' # <<>> /\ Top'.op = "trunc"
  BY <1>1, <1>2 DEF Top
<1>4. At("trunc")' /\ ~At("append")' /\ ~At("create")' /\ ~At("begin")' /\ ~At("check")'
  BY <1>3 DEF At
<1>5. Stacked' /\ Appending'
  BY <1>2, <1>4 DEF Stacked, Appending
<1>6. \A p \in 1 .. Len(job') : job'[p].op # "trunc" => p \in 2 .. Len(job) /\ p \in 1 .. Len(job) /\ job'[p] = job[p]
  BY <1>1, <1>2
<1>7. \A p \in 1 .. Len(job) : job[p] \in Frame
  BY <1>1
<1>8. Deleting'
  <2>1. \A p \in 1 .. Len(job') : job'[p].op \in {"delfile", "deldir"} =>
          /\ job'[p].ino \in Ino
          /\ \E q \in 1 .. Len(job) : /\ job[q].op \in {"delfile", "deldir"}
                                      /\ job[q].ino = job'[p].ino /\ job[q].dir = job'[p].dir
    <3> SUFFICES ASSUME NEW p \in 1 .. Len(job'), job'[p].op \in {"delfile", "deldir"}
                 PROVE  p \in 1 .. Len(job) /\ job'[p] = job[p] /\ job[p].ino \in Ino
      OBVIOUS
    <3>1. p \in 1 .. Len(job) /\ job'[p] = job[p]
      BY <1>6
    <3>2. job[p] \in FileFrame \/ job[p] \in DirFrame
      BY <1>7, <3>1, FrameIs
    <3> QED BY <3>1, <3>2 DEF FileFrame, DirFrame
  <2> QED BY <2>1, DeletingKept
<1>9. Beginning'
  <2> SUFFICES ASSUME NEW p \in 1 .. Len(job'), job'[p].op = "begin"
               PROVE  /\ p = Len(job') /\ (p = 1 \/ (p = 2 /\ job'[1].op = "trunc"))
                      /\ ~ws.active /\ disk'.ino[job'[p].ino].type = "file"
    BY <1>4 DEF Beginning
  <2>1. p \in 2 .. Len(job) /\ p \in 1 .. Len(job) /\ job'[p] = job[p]
    BY <1>6
  <2>2. /\ p = Len(job) /\ (p = 1 \/ (p = 2 /\ job[1].op = "trunc"))
        /\ ~ws.active /\ disk.ino[job[p].ino].type = "file"
    BY <2>1 DEF Beginning
  <2>3. job[p].ino \in Ino
    <3>1. job[p] \in BeginFrame
      BY <1>7, <2>1, FrameIs
    <3> QED BY <3>1 DEF BeginFrame
  <2> QED BY <1>1, <1>2, <2>1, <2>2, <2>3
<1> QED BY <1>2, <1>3, <1>4, <1>5, <1>8, <1>9

LEMMA TruncClearKeeps ==
  ASSUME Inv, TruncClear
  PROVE  Inv' /\ Follows(disk, disk')
<1> USE DEF Inv
<1> DEFINE i == Top.ino
           n == view.ino[i]
           m == Emptied(disk, i)
<1>1. PICK ok \in Results :
        /\ At("trunc") /\ ~Top.cleared /\ ~open
        /\ TxCommit([view EXCEPT !.ino[Top.ino] =
                       [Node(n.type, n.name, n.parent) EXCEPT !.kids = n.kids]], sb, ok)
        /\ IF ok
           THEN job' = [job EXCEPT ![1].cleared = TRUE, ![1].todo = Chain(view, n)]
           ELSE Return(FALSE)
        /\ UNCHANGED <<open, ws, written>>
  BY DEF TruncClear
<1>2. ok \in BOOLEAN /\ job # <<>> /\ ~At("create") /\ i \in Ino /\ Top \in TruncFrame
  BY <1>1, TruncIs, ResultsAre DEF At
<1>3. view = disk /\ sb \in Loads
  BY <1>1 DEF Opened, Types
<1>4. TxCommit(m, sb, ok)
  BY <1>1, <1>3 DEF Emptied
<1> HIDE DEF m
<1>5. Sound(disk, written)
  BY DEF Stores
<1>6. /\ Sound(m, written) /\ Follows(disk, m)
      /\ \A j \in Ino \ {i} : m.ino[j] = disk.ino[j]
      /\ SameEntry(m.ino[i], disk.ino[i])
      /\ \A k \in Place, j \in Ino, l \in Place :
           Slot(disk, i, k) # Nil => Slot(disk, i, k) # Slot(m, j, l)
  BY <1>2, <1>5, EmptySound DEF m
<1>7. /\ Stores' /\ Opened' /\ Streaming' /\ Follows(disk, disk')
      /\ ok => disk' = m /\ doubt' = Nil
      /\ ~ok => disk' = disk
      /\ job' \in Seq(Frame) => Types'
  BY <1>1, <1>2, <1>3, <1>4, <1>6, QuietCommit
<1>8. \A j \in Ino : disk'.ino[j].type = disk.ino[j].type /\ disk'.ino[j].parent = disk.ino[j].parent
  BY <1>6, <1>7 DEF SameEntry
<1>9. CASE ok
  <2> DEFINE f == [Top EXCEPT !.cleared = TRUE, !.todo = Chain(view, n)]
  <2>1. Chain(disk, disk.ino[i]) \in [Place -> Ptr]
    <3>1. disk \in Store /\ disk.ino[i] \in NodeRec
      BY <1>2, <1>5, StoreParts DEF Sound
    <3> QED BY <3>1, ChainType
  <2>2. f \in TruncFrame /\ f.todo = Chain(disk, disk.ino[i])
    BY <1>2, <1>3, <2>1 DEF TruncFrame
  <2>3. job' = [job EXCEPT ![1] = f]
    <3>1. job' = [job EXCEPT ![1].cleared = TRUE, ![1].todo = Chain(view, n)]
      BY <1>1, <1>9
    <3>2. Top = job[1] /\ 1 \in DOMAIN job
      BY <1>2, TopIs DEF Types
    <3> QED BY <3>1, <3>2
  <2> HIDE DEF f
  <2>4. job' \in Seq(Frame) /\ Top' = f /\ At("trunc")' /\ Stacked' /\ Deleting' /\ Beginning' /\ Appending'
    BY <1>1, <1>8, <2>2, <2>3, TruncGoesOn
  <2>5. Truncating'
    <3>1. \A k, l \in Place, j \in Ino :
            Chain(disk, disk.ino[i])[k] # Nil => Chain(disk, disk.ino[i])[k] # Slot(disk', j, l)
      BY <1>6, <1>7, <1>9 DEF Slot
    <3> QED BY <1>1, <2>1, <2>2, <2>4, <3>1 DEF Truncating
  <2> QED BY <1>7, <2>4, <2>5
<1>10. CASE ~ok
  <2>1. Return(FALSE)
    BY <1>1, <1>10
  <2>2. job' \in Seq(Frame) /\ Truncating' /\ Appending' /\ Stacked'
    BY <1>2, <2>1, Returned
  <2>3. Deleting' /\ Beginning'
    BY <1>1, <1>2, <1>8, <2>1, DeletingReturned, BeginLeft
  <2> QED BY <1>7, <2>2, <2>3
<1> QED BY <1>2, <1>9, <1>10

LEMMA TruncFreeKeeps ==
  ASSUME Inv, TruncFree
  PROVE  Inv' /\ Follows(disk, disk')
<1> USE DEF Inv
<1>1. PICK ok \in Results, k \in 0 .. FileMax + 1 :
        /\ At("trunc") /\ Top.cleared
        /\ LET now == {j \in Held(Top.todo) : j <= k}
           IN  /\ TxCommit(Free(view, {Top.todo[j] : j \in now}), Counted(Cardinality(now), 0), ok)
               /\ IF ok /\ now # Held(Top.todo)
                  THEN job' = [job EXCEPT ![1].todo =
                                 [j \in DOMAIN @ |-> IF j <= k THEN Nil ELSE @[j]]]
                  ELSE Return(ok)
        /\ UNCHANGED <<open, ws, written>>
  BY DEF TruncFree
<1> DEFINE todo == Top.todo
           now  == {j \in Held(todo) : j <= k}
           bs   == {todo[j] : j \in now}
           s    == Counted(Cardinality(now), 0)
           m    == Free(disk, bs)
           left == [j \in Place |-> IF j <= k THEN Nil ELSE todo[j]]
<1>2. ok \in BOOLEAN /\ job # <<>> /\ ~At("create") /\ Top \in TruncFrame
  BY <1>1, TruncIs, ResultsAre DEF At
<1>3. /\ ~open /\ view = disk /\ todo \in [Place -> Ptr]
      /\ \A j, l \in Place, i \in Ino : todo[j] # Nil => todo[j] # Slot(disk, i, l)
  BY <1>1 DEF Truncating, Opened
<1>4. s \in Loads
  <2>1. now \subseteq Place /\ IsFiniteSet(Place)
    <3>1. now \subseteq Place
      BY <1>3 DEF Held
    <3>2. IsFiniteSet(1 .. FileMax + 1)
      BY FileMaxIs, FS_Interval
    <3> QED BY <3>1, <3>2 DEF Place
  <2>2. IsFiniteSet(now)
    BY <2>1, FS_Subset
  <2> HIDE DEF now
  <2>3. Cardinality(now) \in Nat
    BY <2>2, FS_CardinalityType
  <2> QED BY <2>3, CountedType DEF Types
<1>5. Sound(disk, written)
  BY DEF Stores
<1>6. \A i \in Ino, l \in Place : Slot(disk, i, l) # Nil => Slot(disk, i, l) \notin bs
  BY <1>3 DEF Held
<1>7. TxCommit(m, s, ok) /\ UNCHANGED <<open, ws, written>>
  BY <1>1, <1>3
<1> HIDE DEF s, bs
<1>8. /\ Sound(m, written) /\ Follows(disk, m) /\ m.ino = disk.ino
      /\ \A i \in Ino, l \in Place : Slot(m, i, l) = Slot(disk, i, l)
  BY <1>5, <1>6, FreeSound
<1> HIDE DEF m
<1>9. /\ Stores' /\ Opened' /\ Streaming' /\ Follows(disk, disk')
      /\ ok => disk' = m /\ doubt' = Nil
      /\ ~ok => disk' = disk
      /\ job' \in Seq(Frame) => Types'
  BY <1>2, <1>3, <1>4, <1>7, <1>8, QuietCommit
<1>10. \A j \in Ino : disk'.ino[j].type = disk.ino[j].type /\ disk'.ino[j].parent = disk.ino[j].parent
  BY <1>8, <1>9
<1>11. CASE job' = [job EXCEPT ![1].todo = left] /\ ok
  <2> DEFINE f == [Top EXCEPT !.todo = left]
  <2>1. left \in [Place -> Ptr]
    BY <1>3 DEF Ptr
  <2> HIDE DEF left
  <2>2. f \in TruncFrame /\ f.todo = left
    BY <1>2, <2>1 DEF TruncFrame
  <2>3. job' = [job EXCEPT ![1] = f]
    <3>1. Top = job[1] /\ 1 \in DOMAIN job
      BY <1>2, TopIs DEF Types
    <3> QED BY <1>11, <3>1
  <2> HIDE DEF f
  <2>4. job' \in Seq(Frame) /\ Top' = f /\ At("trunc")' /\ Stacked' /\ Deleting' /\ Beginning' /\ Appending'
    BY <1>1, <1>10, <2>2, <2>3, TruncGoesOn
  <2>5. Truncating'
    <3>1. \A j \in Place : left[j] # Nil => left[j] = todo[j]
      BY DEF left
    <3>2. \A i \in Ino, l \in Place : Slot(disk', i, l) = Slot(disk, i, l)
      BY <1>8, <1>9, <1>11
    <3>3. \A j, l \in Place, i \in Ino : left[j] # Nil => left[j] # Slot(disk', i, l)
      BY <1>3, <3>1, <3>2
    <3>4. ~open'
      BY <1>3, <1>7
    <3> QED BY <2>1, <2>2, <2>4, <3>3, <3>4 DEF Truncating
  <2> QED BY <1>9, <2>4, <2>5
<1>12. CASE Return(ok)
  <2>2. job' \in Seq(Frame) /\ Truncating' /\ Appending' /\ Stacked'
    BY <1>2, <1>12, Returned
  <2>3. Deleting' /\ Beginning'
    BY <1>2, <1>7, <1>9, <1>10, <1>12, DeletingReturned, BeginLeft
  <2> QED BY <1>9, <2>2, <2>3
<1>13. (job' = [job EXCEPT ![1].todo = left] /\ ok) \/ Return(ok)
  <2>1. job[1].todo = todo /\ DOMAIN todo = Place
    BY <1>2, <1>3, TopIs
  <2> QED BY <1>1, <2>1
<1> QED BY <1>11, <1>12, <1>13

-----------------------------------------------------------------------------
(* Deleting and renaming.                                                  *)

\* A name leads to an entry of the directory, or to nothing.
LEMMA ResolveIs ==
  ASSUME Plain, NEW m, NEW done, Sound(m, done), NEW dir \in Ino, NEW name \in Name \union {Nil}
  PROVE  LET i == Resolve(m, dir, name)
         IN  /\ i = Child(m, m.ino[dir], name)
             /\ i # Nil => /\ i \in Ino /\ i \notin {Root, dir} /\ m.ino[dir].type = "dir"
                           /\ m.ino[i].parent = dir /\ m.ino[i].type # "free"
<1> DEFINE i == Child(m, m.ino[dir], name)
<1>1. Resolve(m, dir, name) = i
  <2>1. name # "." /\ name # ".."
    BY Consts DEF Plain
  <2> QED BY <2>1 DEF Resolve
<1>2. m \in Store /\ Entries(m) /\ m.ino[dir] \in NodeRec
  BY StoreParts DEF Sound, Tree
<1>3. i # Nil => /\ m.ino[dir].type = "dir" /\ i \in Ino
                 /\ \E k \in 1 .. Len(m.ino[dir].kids) : i = m.ino[dir].kids[k]
  BY <1>2, ChildIs
<1> HIDE DEF i
<1>4. i # Nil => i \notin {Root, dir} /\ m.ino[i].parent = dir /\ m.ino[i].type # "free"
  BY <1>2, <1>3 DEF Entries
<1> QED BY <1>1, <1>3, <1>4 DEF i

\* The frames of a deletion.
DeleteFrames(f) ==
  /\ f \in Seq(Frame)
  /\ \A p \in 1 .. Len(f) :
       /\ f[p].op \in {"trunc", "delfile", "deldir"}
       /\ f[p].op = "trunc" => p = 1 /\ ~f[p].cleared
       /\ f[p].op \in {"delfile", "deldir"} =>
            /\ f[p].ino \in Ino /\ f[p].ino \notin {Root, f[p].dir}
            /\ disk.ino[f[p].ino].parent = f[p].dir

LEMMA FileFramesAre ==
  ASSUME Plain, Types, Stores, view.ino = disk.ino, NEW dir \in Ino, NEW name \in Name \union {Nil}
  PROVE  DeleteFrames(FileFrames(dir, name))
<1> DEFINE i == Resolve(view, dir, name)
<1>1. \A n : Resolve(view, dir, n) = Resolve(disk, dir, n)
  BY DEF Resolve, Child
<1>2. i # Nil => i \in Ino /\ i \notin {Root, dir} /\ disk.ino[i].parent = dir
  BY <1>1, ResolveIs DEF Stores
<1> HIDE DEF i
<1>3. CASE FileFrames(dir, name) = <<>>
  BY <1>3 DEF DeleteFrames
<1>4. CASE i # Nil /\ FileFrames(dir, name) = <<Trunc(i), DelFile(dir, i)>>
  <2> DEFINE t == Trunc(i)
             d == DelFile(dir, i)
             f == <<t, d>>
  <2>1. t \in TruncFrame /\ t.op = "trunc" /\ ~t.cleared
    BY <1>2, <1>4 DEF Trunc, TruncFrame
  <2>2. d \in FileFrame /\ d.op = "delfile" /\ d.ino = i /\ d.dir = dir
    BY <1>2, <1>4 DEF DelFile, FileFrame
  <2> HIDE DEF t, d
  <2>3. f \in Seq(Frame) /\ Len(f) = 2 /\ f[1] = t /\ f[2] = d
    BY <2>1, <2>2 DEF Frame
  <2>4. FileFrames(dir, name) = f
    BY <1>4 DEF t, d
  <2> HIDE DEF f
  <2>5. \A p \in 1 .. Len(f) : p = 1 \/ p = 2
    BY <2>3
  <2> QED BY <1>2, <1>4, <2>1, <2>2, <2>3, <2>4, <2>5 DEF DeleteFrames
<1>5. FileFrames(dir, name) = <<>> \/ (i # Nil /\ FileFrames(dir, name) = <<Trunc(i), DelFile(dir, i)>>)
  BY DEF FileFrames, i
<1> QED BY <1>3, <1>4, <1>5

LEMMA DirFramesAre ==
  ASSUME Plain, Types, Stores, view.ino = disk.ino, NEW dir \in Ino, NEW name \in Name \union {Nil}
  PROVE  DeleteFrames(DirFrames(dir, name))
<1> DEFINE i == Resolve(view, dir, name)
<1>1. \A n : Resolve(view, dir, n) = Resolve(disk, dir, n)
  BY DEF Resolve, Child
<1>2. i # Nil => i \in Ino /\ i \notin {Root, dir} /\ disk.ino[i].parent = dir
  BY <1>1, ResolveIs DEF Stores
<1> HIDE DEF i
<1>3. CASE DirFrames(dir, name) = <<>>
  BY <1>3 DEF DeleteFrames
<1>4. CASE i # Nil /\ DirFrames(dir, name) = <<DelDir(dir, i)>>
  <2> DEFINE d == DelDir(dir, i)
             f == <<d>>
  <2>1. view.ino[i].kids \in Seq(Ino)
    BY <1>2, <1>4, StoreParts DEF Types
  <2>2. d \in DirFrame /\ d.op = "deldir" /\ d.ino = i /\ d.dir = dir
    BY <1>2, <1>4, <2>1 DEF DelDir, DirFrame
  <2> HIDE DEF d
  <2>3. f \in Seq(Frame) /\ Len(f) = 1 /\ f[1] = d
    BY <2>2 DEF Frame
  <2>4. DirFrames(dir, name) = f
    BY <1>4 DEF d
  <2> HIDE DEF f
  <2>5. \A p \in 1 .. Len(f) : p = 1
    BY <2>3
  <2> QED BY <1>2, <1>4, <2>2, <2>3, <2>4, <2>5 DEF DeleteFrames
<1>5. DirFrames(dir, name) = <<>> \/ (i # Nil /\ DirFrames(dir, name) = <<DelDir(dir, i)>>)
  BY DEF DirFrames, i
<1> QED BY <1>3, <1>4, <1>5

\* A deletion starts on top of calls that delete directories.
LEMMA DeleteStarts ==
  ASSUME Types, Stacked, Deleting, disk' = disk, NEW f, DeleteFrames(f), NEW rest \in Seq(Frame),
         job' = f \o rest,
         \A p \in 1 .. Len(rest) : rest[p].op \in {"delfile", "deldir"},
         \A p \in 1 .. Len(rest) :
           \E q \in 1 .. Len(job) : /\ job[q].op \in {"delfile", "deldir"}
                                    /\ rest[p].ino = job[q].ino /\ rest[p].dir = job[q].dir
  PROVE  job' \in Seq(Frame) /\ Truncating' /\ Appending' /\ Beginning' /\ Deleting' /\ Stacked'
<1>1. f \in Seq(Frame) /\ Len(f) \in Nat /\ Len(rest) \in Nat
  BY DEF DeleteFrames
<1>2. /\ job' \in Seq(Frame) /\ Len(job') = Len(f) + Len(rest)
      /\ \A p \in 1 .. Len(job') : job'[p] = IF p <= Len(f) THEN f[p] ELSE rest[p - Len(f)]
  BY <1>1
<1>3. \A p \in 1 .. Len(job') :
        \/ p \in 1 .. Len(f) /\ job'[p] = f[p]
        \/ p - Len(f) \in 1 .. Len(rest) /\ job'[p] = rest[p - Len(f)]
  BY <1>1, <1>2
<1>4. \A p \in 1 .. Len(job') :
        /\ job'[p].op \in {"trunc", "delfile", "deldir"}
        /\ job'[p].op = "trunc" => p = 1 /\ ~job'[p].cleared
  BY <1>3 DEF DeleteFrames
<1>5. Truncating' /\ ~At("append")' /\ ~At("create")' /\ ~At("begin")' /\ ~At("check")'
  <2>1. job' # <<>> => Top' = job'[1] /\ 1 \in 1 .. Len(job')
    BY <1>2 DEF Top
  <2> QED BY <1>4, <2>1 DEF Truncating, At
<1>6. Stacked' /\ Appending' /\ Beginning'
  <2>1. \A p \in 2 .. Len(job') : p \in 1 .. Len(job') /\ p # 1
    OBVIOUS
  <2> QED BY <1>4, <1>5, <2>1 DEF Stacked, Appending, Beginning
<1>7. Deleting'
  <2> SUFFICES ASSUME NEW p \in 1 .. Len(job'), job'[p].op \in {"delfile", "deldir"}
               PROVE  /\ job'[p].ino \notin {Root, job'[p].dir}
                      /\ disk.ino[job'[p].ino].type # "free" => disk.ino[job'[p].ino].parent = job'[p].dir
    BY DEF Deleting
  <2>1. CASE p \in 1 .. Len(f) /\ job'[p] = f[p]
    BY <2>1 DEF DeleteFrames
  <2>2. CASE p - Len(f) \in 1 .. Len(rest) /\ job'[p] = rest[p - Len(f)]
    <3>1. PICK q \in 1 .. Len(job) : /\ job[q].op \in {"delfile", "deldir"}
                                     /\ job'[p].ino = job[q].ino /\ job'[p].dir = job[q].dir
      BY <2>2
    <3> QED BY <3>1 DEF Deleting
  <2> QED BY <1>3, <2>1, <2>2
<1> QED BY <1>2, <1>5, <1>6, <1>7

LEMMA CallDeleteKeeps ==
  ASSUME Plain, Inv, NEW dir \in Ino, NEW name \in Name, CallDelete(dir, name)
  PROVE  Inv' /\ Follows(disk, disk')
<1> USE DEF Inv
<1>1. PICK f \in {FileFrames(dir, name), DirFrames(dir, name)} : f # <<>> /\ job' = f \o job
  BY DEF CallDelete, Push
<1>2. CanCall /\ UNCHANGED <<meta, ws, written>>
  BY DEF CallDelete
<1>3. job = <<>>
  BY <1>2, CallFirst
<1>4. ~At("create")
  BY <1>3 DEF At
<1>5. Stores' /\ Opened' /\ Streaming' /\ Follows(disk, disk')
  BY <1>2, <1>4, Still
<1>6. view.ino = disk.ino
  BY ViewTree
<1>7. DeleteFrames(f)
  BY <1>1, <1>6, FileFramesAre, DirFramesAre
<1>8. disk' = disk
  BY <1>2 DEF meta
<1>9. job' \in Seq(Frame) /\ Truncating' /\ Appending' /\ Beginning' /\ Deleting' /\ Stacked'
  <2>1. Len(job) = 0 /\ job \in Seq(Frame)
    BY <1>3
  <2>2. /\ \A p \in 1 .. Len(job) : job[p].op \in {"delfile", "deldir"}
        /\ \A p \in 1 .. Len(job) :
             \E q \in 1 .. Len(job) : /\ job[q].op \in {"delfile", "deldir"}
                                      /\ job[p].ino = job[q].ino /\ job[p].dir = job[q].dir
    BY <2>1
  <2> QED BY <1>1, <1>7, <1>8, <2>1, <2>2, DeleteStarts
<1>10. Types'
  BY <1>2, <1>9, StillTypes
<1> QED BY <1>5, <1>9, <1>10

LEMMA DeletionIs ==
  ASSUME Types, Deleting, Beginning, Stacked, At("delfile") \/ At("deldir")
  PROVE  /\ job # <<>> /\ ~At("create") /\ ~At("trunc") /\ ~At("append") /\ ~At("begin")
         /\ Top = job[1] /\ Top.ino \in Ino /\ Top.dir \in Ino
         /\ Top.ino \notin {Root, Top.dir}
         /\ disk.ino[Top.ino].type # "free" => disk.ino[Top.ino].parent = Top.dir
         /\ \A p \in 1 .. Len(job) : job[p].op \in {"delfile", "deldir"}
         /\ At("deldir") => Top \in DirFrame
<1>1. job # <<>> /\ Top \in Frame /\ Top = job[1] /\ Len(job) \in Nat /\ Len(job) > 0
      /\ job \in Seq(Frame) /\ Top.op \in {"delfile", "deldir"}
  BY TopIs DEF At, Types
<1>2. Top \in FileFrame \/ Top \in DirFrame
  BY <1>1, FrameIs
<1>3. Top.ino \in Ino /\ Top.dir \in Ino
  BY <1>2 DEF FileFrame, DirFrame
<1>4. /\ Top.ino \notin {Root, Top.dir}
      /\ disk.ino[Top.ino].type # "free" => disk.ino[Top.ino].parent = Top.dir
  BY <1>1 DEF Deleting
<1>5. \A p \in 1 .. Len(job) : job[p].op \in {"delfile", "deldir"}
  <2> SUFFICES ASSUME NEW p \in 1 .. Len(job) PROVE job[p].op \in {"delfile", "deldir"}
    OBVIOUS
  <2>1. CASE p = 1
    BY <1>1, <2>1
  <2>2. CASE p # 1
    <3>1. p \in 2 .. Len(job) /\ job[p] \in Frame
      BY <1>1, <2>2
    <3>2. job[p].op \notin {"trunc", "append", "create", "check"}
      BY <3>1 DEF Stacked
    <3>3. job[p].op # "begin"
      BY <1>1, <2>2 DEF Beginning
    <3> QED BY <3>1, <3>2, <3>3, FrameIs
  <2> QED BY <2>1, <2>2
<1>6. ~At("create") /\ ~At("trunc") /\ ~At("append") /\ ~At("begin")
  BY <1>1 DEF At
<1>7. At("deldir") => Top \in DirFrame
  BY <1>1, FrameIs DEF At
<1> QED BY <1>1, <1>3, <1>4, <1>5, <1>6, <1>7

LEMMA DelDirChildKeeps ==
  ASSUME Plain, Inv, DelDirChild
  PROVE  Inv' /\ Follows(disk, disk')
<1> USE DEF Inv
<1> DEFINE c == view.ino[Head(Top.snap)]
           f == CASE c.type = "file" -> FileFrames(Top.ino, c.name)
                  [] c.type = "dir"  -> DirFrames(Top.ino, c.name)
                  [] c.type = "free" -> <<>>
           rest == [job EXCEPT ![1].snap = Tail(@)]
           d == [Top EXCEPT !.snap = Tail(@)]
<1>1. At("deldir") /\ Top.snap # <<>> /\ job' = f \o rest /\ UNCHANGED <<meta, ws, written>>
  BY DEF DelDirChild
<1>2. /\ job # <<>> /\ ~At("create") /\ Top = job[1] /\ Top.ino \in Ino /\ Top \in DirFrame
      /\ \A p \in 1 .. Len(job) : job[p].op \in {"delfile", "deldir"}
  BY <1>1, DeletionIs
<1>3. Top.snap \in Seq(Ino) /\ Head(Top.snap) \in Ino /\ Tail(Top.snap) \in Seq(Ino)
  <2>1. Top.snap \in Seq(Ino)
    BY <1>2 DEF DirFrame
  <2> DEFINE s == Top.snap
  <2>2. s \in Seq(Ino) /\ s # <<>>
    BY <1>1, <2>1
  <2> HIDE DEF s
  <2>3. Head(s) \in Ino /\ Tail(s) \in Seq(Ino)
    BY <2>2
  <2> QED BY <2>1, <2>3 DEF s
<1>4. d \in DirFrame /\ d.op = Top.op /\ d.ino = Top.ino /\ d.dir = Top.dir
  BY <1>2, <1>3 DEF DirFrame
<1>5. rest = [job EXCEPT ![1] = d]
  <2>1. job \in Seq(Frame) /\ 1 \in DOMAIN job
    BY <1>2 DEF Types
  <2> QED BY <1>2, <2>1
<1> HIDE DEF d
<1>6. /\ rest \in Seq(Frame) /\ Len(rest) = Len(job)
      /\ \A p \in 1 .. Len(rest) : rest[p].op = job[p].op /\ rest[p].ino = job[p].ino /\ rest[p].dir = job[p].dir
  <2>1. job \in Seq(Frame) /\ d \in Frame
    BY <1>4 DEF Types, Frame
  <2>2. rest \in Seq(Frame) /\ Len(rest) = Len(job) /\ \A p \in 1 .. Len(rest) : rest[p] = IF p = 1 THEN d ELSE job[p]
    <3> HIDE DEF rest
    <3>1. job # <<>>
      BY <1>2
    <3> QED BY <1>5, <2>1, <3>1, FirstReplaced
  <2> QED BY <1>2, <1>4, <2>2
<1>7. c.name \in Name \union {Nil} /\ c.type \in {"free", "file", "dir"}
  <2>1. c \in NodeRec
    BY <1>3, StoreParts DEF Types
  <2> QED BY <2>1 DEF NodeRec
<1>8. view.ino = disk.ino
  BY ViewTree
<1> HIDE DEF c, rest
<1>9. DeleteFrames(f)
  <2>1. DeleteFrames(<<>>)
    BY DEF DeleteFrames
  <2>2. DeleteFrames(FileFrames(Top.ino, c.name)) /\ DeleteFrames(DirFrames(Top.ino, c.name))
    BY <1>2, <1>7, <1>8, FileFramesAre, DirFramesAre
  <2> QED BY <1>7, <2>1, <2>2
<1>10. disk' = disk
  BY <1>1 DEF meta
<1> HIDE DEF f
<1>11. job' \in Seq(Frame) /\ Truncating' /\ Appending' /\ Beginning' /\ Deleting' /\ Stacked'
  <2>1. \A p \in 1 .. Len(rest) : rest[p].op \in {"delfile", "deldir"}
    BY <1>2, <1>6
  <2>2. \A p \in 1 .. Len(rest) :
          \E q \in 1 .. Len(job) : /\ job[q].op \in {"delfile", "deldir"}
                                   /\ rest[p].ino = job[q].ino /\ rest[p].dir = job[q].dir
    BY <1>2, <1>6
  <2> QED BY <1>1, <1>6, <1>9, <1>10, <2>1, <2>2, DeleteStarts
<1>12. Stores' /\ Opened' /\ Streaming' /\ Follows(disk, disk')
  BY <1>1, <1>2, Still
<1>13. Types'
  BY <1>1, <1>11, StillTypes
<1> QED BY <1>11, <1>12, <1>13

LEMMA UnlinkBusyKeeps ==
  ASSUME Inv, UnlinkBusy
  PROVE  Inv' /\ Follows(disk, disk')
<1> USE DEF Inv
<1>1. (At("delfile") \/ At("deldir")) /\ Return(FALSE) /\ UNCHANGED <<meta, ws, written>>
  BY DEF UnlinkBusy, Unlinking
<1>2. job # <<>> /\ ~At("create") /\ ~At("trunc")
  BY <1>1, DeletionIs
<1>3. Stores' /\ Opened' /\ Streaming' /\ Follows(disk, disk')
  BY <1>1, <1>2, Still
<1>4. job' \in Seq(Frame) /\ Truncating' /\ Appending' /\ Stacked'
  BY <1>1, <1>2, Returned
<1>5. disk' = disk /\ ws' = ws
  BY <1>1 DEF meta
<1>6. Deleting' /\ Beginning'
  BY <1>1, <1>2, <1>5, DeletingReturned, BeginLeft
<1>7. Types'
  BY <1>1, <1>4, StillTypes
<1> QED BY <1>3, <1>4, <1>6, <1>7

LEMMA UnlinkKeeps ==
  ASSUME Inv, Unlink
  PROVE  Inv' /\ Follows(disk, disk')
<1> USE DEF Inv
<1> DEFINE i == Top.ino
           dir == Top.dir
           m == Unlinked(disk, dir, i)
           s == Counted(0, 1)
<1>1. PICK ok \in Results :
        /\ Unlinking /\ ~open
        /\ LET p == view.ino[Top.dir]
           IN  TxCommit([view EXCEPT !.ibm = @ \ {Top.ino},
                           !.ino[Top.ino] = FreeNode,
                           !.ino[Top.dir] = [p EXCEPT !.kids = RemoveFirst(@, Top.ino)]],
                        s, ok)
        /\ Return(ok)
        /\ UNCHANGED <<open, ws, written>>
  BY DEF Unlink
<1>2. ok \in BOOLEAN /\ (At("delfile") \/ At("deldir"))
  BY <1>1, ResultsAre DEF Unlinking
<1>3. /\ job # <<>> /\ ~At("create") /\ ~At("trunc")
      /\ i \in Ino /\ dir \in Ino /\ i \notin {Root, dir}
      /\ disk.ino[i].type # "free" => disk.ino[i].parent = dir
  BY <1>2, DeletionIs
<1>4. view = disk /\ s \in Loads /\ Sound(disk, written)
  <2>1. s \in Loads
    BY CountedType DEF Types
  <2> QED BY <1>1, <2>1 DEF Opened, Stores
<1> HIDE DEF s
<1>5. TxCommit(m, s, ok)
  BY <1>1, <1>4 DEF Unlinked
<1> HIDE DEF m
<1>6. /\ Sound(m, written) /\ Follows(disk, m)
      /\ \A j \in Ino \ {i, dir} : m.ino[j] = disk.ino[j]
      /\ m.ino[i].type = "free" /\ SameNode(m.ino[dir], disk.ino[dir])
  <2>1. i \in Ino \ {Root, dir}
    BY <1>3
  <2> QED BY <1>3, <1>4, <2>1, UnlinkSound DEF m
<1>7. /\ Stores' /\ Opened' /\ Streaming' /\ Follows(disk, disk')
      /\ ok => disk' = m /\ doubt' = Nil
      /\ ~ok => disk' = disk
      /\ job' \in Seq(Frame) => Types'
  BY <1>1, <1>2, <1>3, <1>4, <1>5, <1>6, QuietCommit
<1>8. \A j \in Ino : disk'.ino[j].type # "free" =>
                       disk.ino[j].type # "free" /\ disk'.ino[j].parent = disk.ino[j].parent
  <2>1. \A j \in Ino : m.ino[j].type # "free" => m.ino[j].type = disk.ino[j].type /\ m.ino[j].parent = disk.ino[j].parent
    BY <1>6 DEF SameNode
  <2> QED BY <1>7, <2>1
<1>9. job' \in Seq(Frame) /\ Truncating' /\ Appending' /\ Stacked'
  BY <1>1, <1>2, <1>3, Returned
<1>10. Deleting' /\ Beginning'
  BY <1>1, <1>2, <1>3, <1>7, <1>8, DeletingReturned, BeginLeft
<1> QED BY <1>7, <1>9, <1>10

LEMMA RenameKeeps ==
  ASSUME Plain, Inv, NEW dir \in Ino, NEW old \in Name, NEW new \in Name, Rename(dir, old, new)
  PROVE  Inv' /\ Follows(disk, disk')
<1> USE DEF Inv
<1> DEFINE i == Resolve(view, dir, old)
           m == Renamed(disk, i, new)
<1>1. PICK ok \in Results :
        /\ CanCall /\ ~open
        /\ Resolve(view, dir, new) = Nil
        /\ i # Nil /\ TxCommit([view EXCEPT !.ino[i].name = new], sb, ok)
        /\ UNCHANGED <<open, ws, written, job>>
  BY DEF Rename
<1>2. ok \in BOOLEAN /\ job = <<>> /\ job' = <<>> /\ ~At("create")
  BY <1>1, CallFirst, ResultsAre DEF At
<1>3. view = disk /\ sb \in Loads /\ Sound(disk, written)
  BY <1>1 DEF Opened, Types, Stores
<1>4. TxCommit(m, sb, ok)
  BY <1>1, <1>3 DEF Renamed
<1>5. i = Child(disk, disk.ino[dir], old) /\ i # Nil /\ Child(disk, disk.ino[dir], new) = Nil
  BY <1>1, <1>3, ResolveIs
<1> HIDE DEF i
<1>6. Sound(m, written) /\ Follows(disk, m)
  BY <1>3, <1>5, RenameSound
<1> HIDE DEF m
<1>7. /\ Stores' /\ Opened' /\ Streaming' /\ Follows(disk, disk')
      /\ job' \in Seq(Frame) => Types'
  BY <1>1, <1>2, <1>3, <1>4, <1>6, QuietCommit
<1>8. Truncating' /\ Appending' /\ Beginning' /\ Deleting' /\ Stacked' /\ job' \in Seq(Frame)
  BY <1>2, EmptyStack
<1> QED BY <1>7, <1>8

LEMMA CallBeginKeeps ==
  ASSUME Plain, Inv, NEW i \in Ino, CallBegin(i)
  PROVE  Inv' /\ Follows(disk, disk')
<1> USE DEF Inv
<1> DEFINE t == Trunc(i)
           b == [op |-> "begin", ino |-> i]
<1>1. CanCall /\ ~ws.active /\ view.ino[i].type = "file" /\ job' = <<t, b>> \o job
      /\ UNCHANGED <<meta, ws, written>>
  BY DEF CallBegin, Push
<1>2. job = <<>> /\ ~At("create")
  BY <1>1, CallFirst DEF At
<1>3. t \in TruncFrame /\ t.op = "trunc" /\ ~t.cleared /\ b \in BeginFrame /\ b.op = "begin" /\ b.ino = i
  BY DEF Trunc, TruncFrame, BeginFrame
<1> HIDE DEF t, b
<1>4. job' # <<>> /\ job' \in Seq(Frame) /\ Len(job') = 2 /\ job'[1] = t /\ job'[2] = b
  BY <1>1, <1>2, <1>3 DEF Frame
<1>5. \A p \in 1 .. Len(job') : p = 1 \/ p = 2
  BY <1>4
<1>6. job' # <<>> /\ Top' = t
  <2>1. job' # <<>>
    BY <1>4
  <2>2. Head(job') = job'[1]
    BY <1>4, <2>1, HeadIs
  <2> QED BY <1>4, <2>1, <2>2 DEF Top
<1>7. ~At("append")' /\ ~At("create")' /\ ~At("begin")' /\ ~At("check")'
  BY <1>3, <1>6 DEF At
<1>8. disk.ino[i].type = "file"
  BY <1>1, ViewTree
<1>9. disk' = disk /\ ws' = ws
  BY <1>1 DEF meta
<1>10. Truncating' /\ Appending' /\ Stacked' /\ Deleting'
  <2>1. Truncating' /\ Appending'
    BY <1>3, <1>6, <1>7 DEF Truncating, Appending
  <2>2. \A p \in 2 .. Len(job') : p = 2
    BY <1>4
  <2>3. Stacked'
    BY <1>3, <1>4, <1>7, <2>2 DEF Stacked
  <2>4. Deleting'
    BY <1>3, <1>4, <1>5 DEF Deleting
  <2> QED BY <2>1, <2>3, <2>4
<1>11. Beginning'
  BY <1>1, <1>3, <1>4, <1>5, <1>7, <1>8, <1>9 DEF Beginning
<1>12. Stores' /\ Opened' /\ Streaming' /\ Follows(disk, disk')
  BY <1>1, <1>2, Still
<1>13. Types'
  BY <1>1, <1>4, StillTypes
<1> QED BY <1>10, <1>11, <1>12, <1>13

-----------------------------------------------------------------------------
(* The streaming writer.                                                   *)

LEMMA NoStreamIs == NoStream \in Stream /\ ~NoStream.active /\ ~NoStream.suspended
<1>1. FreeNode \in NodeRec
  BY NodeType, Consts DEF FreeNode
<1> QED BY <1>1, Consts DEF NoStream, Stream

\* What the stream writes back, and what the others map beside it.
LEMMA StreamFollows ==
  ASSUME NEW i \in Ino, NEW d \in NodeRec, NEW done, disk \in Store, view \in Store,
         Sound(With(view, i, d), done), view.ino = disk.ino,
         \A b \in Blk : view.ind[b] # disk.ind[b] => b = d.ind1,
         disk.ino[i].size <= d.size,
         \A k \in 1 .. disk.ino[i].size : Mapped(view, d, k) = Mapped(disk, disk.ino[i], k)
  PROVE  /\ Follows(disk, With(view, i, d))
         /\ \A j \in Ino \ {i}, k \in Place : Slot(With(view, i, d), j, k) = Slot(disk, j, k)
<1> DEFINE a == With(view, i, d)
<1>1. /\ a \in Store /\ a.ind = view.ind
      /\ a.ino[i] = d /\ \A j \in Ino \ {i} : a.ino[j] = disk.ino[j]
      /\ \A k : Mapped(a, d, k) = Mapped(view, d, k)
  BY WithIs
<1>2. Apart(a)
  BY DEF Sound
<1> HIDE DEF a
<1>3. \A j \in Ino : disk.ino[j].size \in Nat /\ disk.ino[j] \in NodeRec
  BY StoreParts, FileMaxIs
<1>4. FileMax + 1 \in Place
  BY FileMaxIs DEF Place
<1>5. \A n \in NodeRec : Chain(a, n)[FileMax + 1] = n.ind1
  BY <1>1, ChainType
<1>6. ASSUME NEW j \in Ino \ {i}
      PROVE  /\ Chain(a, a.ino[j]) = Chain(disk, disk.ino[j])
             /\ \A k : Mapped(a, a.ino[j], k) = Mapped(disk, disk.ino[j], k)
  <2> DEFINE e == disk.ino[j]
  <2>1. a.ino[j] = e /\ e \in NodeRec
    BY <1>1, <1>3
  <2> HIDE DEF e
  <2>2. e.ind1 # Nil => e.ind1 # d.ind1 /\ e.ind1 \in Blk
    <3> SUFFICES ASSUME e.ind1 # Nil PROVE e.ind1 # d.ind1 /\ e.ind1 \in Blk
      OBVIOUS
    <3>1. Slot(a, j, FileMax + 1) = e.ind1 /\ Slot(a, i, FileMax + 1) = d.ind1
      BY <1>1, <1>5, <2>1 DEF Slot
    <3>2. e.ind1 # d.ind1
      BY <1>2, <1>4, <3>1 DEF Apart
    <3> QED BY <2>1, <3>2, NodeParts DEF Ptr
  <2>3. e.ind1 # Nil => a.ind[e.ind1] = disk.ind[e.ind1]
    BY <1>1, <2>2
  <2> QED BY <2>1, <2>3, ChainSame DEF e
<1>7. Follows(disk, a)
  <2> SUFFICES ASSUME NEW j \in Ino
               PROVE  /\ a.ino[j].size >= disk.ino[j].size
                      /\ \A k \in 1 .. disk.ino[j].size : Mapped(a, a.ino[j], k) = Mapped(disk, disk.ino[j], k)
    BY DEF Follows
  <2>1. CASE j = i
    <3>1. d.size \in Nat
      BY FileMaxIs DEF NodeRec
    <3> QED BY <1>1, <1>3, <2>1, <3>1
  <2>2. CASE j # i
    BY <1>1, <1>3, <1>6, <2>2
  <2> QED BY <2>1, <2>2
<1> QED BY <1>6, <1>7 DEF Slot, a

LEMMA StreamIs ==
  ASSUME Types, Stores, Streaming, ws.active
  PROVE  /\ ws.ino \in Ino /\ ws.n \in NodeRec /\ view \in Store /\ disk \in Store
         /\ ws.n.size \in Nat /\ disk.ino[ws.ino].size \in Nat
         /\ Sound(Ahead, written) /\ Follows(disk, Ahead) /\ Ahead.bbm = view.bbm /\ Ahead.ino[ws.ino] = ws.n
         /\ \A j \in Ino \ {ws.ino}, k \in Place : Slot(Ahead, j, k) = Slot(disk, j, k)
<1>1. ws.ino \in Ino /\ ws.n \in NodeRec /\ view \in Store /\ disk \in Store
  BY DEF Types, Stream, Stores, Sound
<1>2. /\ Sound(Ahead, written)
      /\ view.ino = disk.ino
      /\ \A b \in Blk : view.ind[b] # disk.ind[b] => b = ws.n.ind1
      /\ disk.ino[ws.ino].size <= ws.n.size
      /\ \A k \in 1 .. disk.ino[ws.ino].size :
           Mapped(view, ws.n, k) = Mapped(disk, disk.ino[ws.ino], k)
  BY DEF Streaming
<1>3. /\ Follows(disk, Ahead)
      /\ \A j \in Ino \ {ws.ino}, k \in Place : Slot(Ahead, j, k) = Slot(disk, j, k)
  BY <1>1, <1>2, StreamFollows DEF Ahead
<1>4. Ahead.bbm = view.bbm /\ Ahead.ino[ws.ino] = ws.n
  BY <1>1, WithIs DEF Ahead
<1>5. ws.n.size \in Nat /\ disk.ino[ws.ino].size \in Nat
  BY <1>1, StoreParts, FileMaxIs DEF NodeRec
<1> QED BY <1>1, <1>2, <1>3, <1>4, <1>5

LEMMA WithSame ==
  ASSUME NEW m \in Store, NEW i \in Ino
  PROVE  With(m, i, m.ino[i]) = m
BY DEF With, Store

\* A stream that has nothing in its buffer.
LEMMA StreamAtRest ==
  ASSUME view' = disk', Sound(disk', written'), ws'.ino \in Ino,
         ws'.n = disk'.ino[ws'.ino], ws'.n.type = "file",
         doubt' # Nil => doubt'.m.bbm \subseteq disk'.bbm
  PROVE  Streaming'
<1>1. disk' \in Store
  BY DEF Sound
<1>2. Ahead' = disk'
  BY <1>1, WithSame DEF Ahead
<1>3. disk'.ino[ws'.ino].size \in Nat
  BY <1>1, StoreParts, FileMaxIs
<1> QED BY <1>2, <1>3 DEF Streaming

LEMMA StreamGone ==
  ASSUME ws' = NoStream, open' = FALSE, view' = disk'
  PROVE  Opened' /\ Streaming' /\ ws' \in Stream
BY NoStreamIs DEF Opened, Streaming

LEMMA BeginStreamKeeps ==
  ASSUME Inv, BeginStream
  PROVE  Inv' /\ Follows(disk, disk')
<1> USE DEF Inv
<1>1. /\ At("begin")
      /\ ws' = [active |-> TRUE, suspended |-> FALSE, ino |-> Top.ino, n |-> view.ino[Top.ino]]
      /\ open' = TRUE /\ Return(TRUE)
      /\ UNCHANGED <<disk, view, sbDisk, sb, doubt, written>>
  BY DEF BeginStream
<1>2. job # <<>> /\ Top.op = "begin"
  BY <1>1 DEF At
<1>3. Top = job[1] /\ Top \in BeginFrame /\ Len(job) \in Nat /\ Len(job) > 0
  BY <1>2, TopIs, FrameIs
<1>4. Len(job) = 1 /\ ~ws.active /\ disk.ino[Top.ino].type = "file" /\ doubt = Nil /\ Top.ino \in Ino
  <2>1. 1 \in 1 .. Len(job) /\ job[1].op = "begin"
    BY <1>2, <1>3
  <2>2. 1 = Len(job) /\ ~ws.active /\ disk.ino[job[1].ino].type = "file"
    BY <2>1 DEF Beginning
  <2>3. doubt = Nil
    BY <1>1 DEF Beginning
  <2> QED BY <1>3, <2>2, <2>3 DEF BeginFrame
<1>5. view = disk
  BY <1>4 DEF Opened
<1>6. job' = <<>>
  BY <1>1, <1>2, <1>4, Returned
<1>7. Truncating' /\ Appending' /\ Beginning' /\ Deleting' /\ Stacked' /\ job' \in Seq(Frame)
  BY <1>6, EmptyStack
<1>8. Sound(disk, written) /\ disk \in Store /\ disk.ino[Top.ino] \in NodeRec
  BY <1>4, StoreParts DEF Stores, Sound
<1>9. ws' \in Stream
  BY <1>1, <1>4, <1>5, <1>8 DEF Stream
<1>10. Stores' /\ Opened'
  BY <1>1 DEF Stores, Opened
<1>11. Streaming'
  BY <1>1, <1>4, <1>5, <1>8, StreamAtRest
<1>12. Types'
  BY <1>1, <1>7, <1>9 DEF Types
<1>13. Follows(disk, disk')
  BY <1>1, <1>8, FollowsSelf
<1> QED BY <1>7, <1>10, <1>11, <1>12, <1>13

\* Data that is no longer current, but was written to no block in use.
LEMMA SoundLess ==
  ASSUME NEW m, NEW done, Sound(m, done), done \subseteq Blk, NEW lost, m.bbm \intersect lost = {}
  PROVE  Sound(m, done \ lost)
<1> SUFFICES ASSUME NEW i \in Ino, NEW k \in 1 .. m.ino[i].size PROVE Slot(m, i, k) \in done \ lost
  BY DEF Sound, Filled
<1>1. Slot(m, i, k) \in done
  BY DEF Sound, Filled
<1>2. m.ino[i].size \in 0 .. FileMax
  BY StoreParts DEF Sound
<1>3. k \in Place
  BY <1>2, FileMaxIs DEF Place
<1>4. Slot(m, i, k) \in m.bbm
  BY <1>1, <1>3, Consts DEF Sound, Marked
<1> QED BY <1>1, <1>4

LEMMA AppendMapKeeps ==
  ASSUME Plain, Inv, AppendMap
  PROVE  Inv' /\ Follows(disk, disk')
<1> USE DEF Inv
<1> DEFINE n == ws.n
           i == ws.ino
<1>1. /\ CanCall /\ ws.active /\ n.size < FileMax
      /\ UNCHANGED <<disk, open, sbDisk, doubt>>
  BY DEF AppendMap
<1>2. PICK r \in Mappings(view, n, n.size + 1) :
        /\ view' = r.m
        /\ sb' = Counted(-Cardinality(r.m.bbm \ view.bbm), 0)
        /\ ws' = [ws EXCEPT !.n = r.n]
        /\ written' = written \ (r.m.bbm \ view.bbm)
        /\ job' = <<[op |-> "append", blk |-> r.blk]>> \o job
  BY DEF AppendMap, Push
<1>3. job = <<>> /\ ~At("create")
  BY <1>1, CallFirst DEF At
<1>4. /\ i \in Ino /\ n \in NodeRec /\ view \in Store /\ n.size \in Nat
      /\ Sound(Ahead, written) /\ Ahead.bbm = view.bbm /\ Ahead.ino[i] = n
      /\ disk \in Store /\ disk.ino[i].size \in Nat
  BY <1>1, StreamIs
<1>5. n.size + 1 \in 1 .. FileMax
  BY <1>1, <1>4, FileMaxIs
<1>6. n.ind1 # Nil => n.ind1 \in view.bbm
  <2>1. Ahead \in Store /\ Marked(Ahead)
    BY <1>4 DEF Sound
  <2>2. Slot(Ahead, i, FileMax + 1) = n.ind1 /\ FileMax + 1 \in Place
    BY <1>4, <2>1, ChainType, FileMaxIs DEF Slot, Place
  <2> QED BY <1>4, <2>1, <2>2 DEF Marked
<1> HIDE DEF n, i
<1>7. Grown(view, n, n.size + 1, r)
  BY <1>4, <1>5, <1>6, DirectGrown, IndirectGrown
<1>8. /\ r.m \in Store /\ r.n \in NodeRec /\ r.m.ino = view.ino /\ r.m.ibm = view.ibm
      /\ SameEntry(r.n, n) /\ r.n.size = n.size /\ r.blk \in Blk \ view.bbm
      /\ view.bbm \subseteq r.m.bbm /\ r.m.bbm \subseteq Blk
      /\ r.n.ind1 # n.ind1 => n.ind1 = Nil
      /\ \A b \in Blk : b # r.n.ind1 => r.m.ind[b] = view.ind[b]
      /\ Mapped(r.m, r.n, n.size + 1) = r.blk
  BY <1>7, StoreParts DEF Grown
<1> DEFINE new == r.m.bbm \ view.bbm
<1>9. written \subseteq Blk /\ Sound(With(view, i, n), written)
  BY <1>4 DEF Types, Ahead, i, n
<1>10. /\ Sound(With(r.m, i, r.n), written \ new)
       /\ \A k \in 1 .. n.size : Mapped(r.m, r.n, k) = Mapped(view, n, k)
  <2> DEFINE k == n.size + 1
  <2>1. n.size < FileMax /\ k = n.size + 1 /\ Grown(view, n, k, r)
    BY <1>1, <1>7
  <2>2. /\ view \in Store /\ i \in Ino /\ n \in NodeRec
        /\ written \subseteq Blk /\ Sound(With(view, i, n), written)
    BY <1>4, <1>9
  <2> HIDE DEF k
  <2>3. Sound(With(r.m, i, r.n), written \ (r.m.bbm \ view.bbm))
    BY <2>1, <2>2, AppendMapSound
  <2>4. ASSUME NEW l \in 1 .. n.size PROVE Mapped(r.m, r.n, l) = Mapped(view, n, l)
    <3>1. l \in 1 .. FileMax /\ l # n.size + 1
      BY <1>1, <1>4, FileMaxIs
    <3> QED BY <1>7, <3>1 DEF Grown
  <2> QED BY <2>3, <2>4
<1>11. /\ disk' = disk /\ doubt' = doubt /\ open' = open /\ sbDisk' = sbDisk /\ written' = written \ new
       /\ ws'.active = ws.active /\ ws'.suspended = ws.suspended /\ ws'.ino = i /\ ws'.n = r.n
       /\ ws' \in Stream
  BY <1>1, <1>2, <1>8 DEF Types, Stream, i
<1>12. /\ view.ino = disk.ino /\ view.ibm = disk.ibm /\ disk.bbm \subseteq view.bbm
       /\ \A b \in Blk : view.ind[b] # disk.ind[b] => b = n.ind1
       /\ disk.ino[i].type = "file" /\ n.type = "file"
       /\ n.name = disk.ino[i].name /\ n.parent = disk.ino[i].parent
       /\ disk.ino[i].size <= n.size
       /\ \A k \in 1 .. disk.ino[i].size : Mapped(view, n, k) = Mapped(disk, disk.ino[i], k)
       /\ doubt # Nil => doubt.m.bbm \subseteq view.bbm
  BY <1>1 DEF Streaming, n, i
<1>13. Stores'
  <2>1. Sound(disk, written \ new)
    BY <1>9, <1>12, SoundLess DEF Stores
  <2>2. doubt # Nil => Sound(doubt.m, written \ new)
    BY <1>9, <1>12, SoundLess DEF Stores
  <2> QED BY <1>11, <2>1, <2>2 DEF Stores
<1>14. Opened'
  <2>1. ~ws.suspended /\ open
    BY <1>1, <1>3 DEF Opened
  <2> QED BY <1>1, <1>11, <2>1 DEF Opened
<1>15. Streaming'
  <2>1. Ahead' = With(r.m, i, r.n)
    BY <1>2, <1>11 DEF Ahead
  <2>2. \A b \in Blk : r.m.ind[b] # disk.ind[b] => b = r.n.ind1
    <3> SUFFICES ASSUME NEW b \in Blk, b # r.n.ind1 PROVE r.m.ind[b] = disk.ind[b]
      OBVIOUS
    <3>1. r.m.ind[b] = view.ind[b]
      BY <1>8
    <3>2. b # n.ind1
      BY <1>8, Consts
    <3> QED BY <1>12, <3>1, <3>2
  <2>3. \A k \in 1 .. disk.ino[i].size : Mapped(r.m, r.n, k) = Mapped(disk, disk.ino[i], k)
    <3>1. \A k \in 1 .. disk.ino[i].size : k \in 1 .. n.size
      BY <1>4, <1>12 DEF n, i
    <3> QED BY <1>10, <1>12, <3>1
  <2>4. r.n.type = n.type /\ r.n.name = n.name /\ r.n.parent = n.parent
    BY <1>8 DEF SameEntry
  <2>5. disk.bbm \subseteq r.m.bbm /\ (doubt # Nil => doubt.m.bbm \subseteq r.m.bbm)
    BY <1>8, <1>12
  <2> QED BY <1>2, <1>8, <1>10, <1>11, <1>12, <2>1, <2>2, <2>3, <2>4, <2>5 DEF Streaming
<1> DEFINE f == [op |-> "append", blk |-> r.blk]
<1>16. f \in AppendFrame /\ f.op = "append" /\ f.blk = r.blk
  BY <1>8 DEF AppendFrame
<1> HIDE DEF f
<1>17. job' # <<>> /\ job' \in Seq(Frame) /\ Len(job') = 1 /\ job'[1] = f
  BY <1>2, <1>3, <1>16 DEF Frame, f
<1>18. Top' = f
  <2>1. Head(job') = job'[1]
    BY <1>17, HeadIs
  <2> QED BY <1>17, <2>1 DEF Top
<1>19. \A p \in 1 .. Len(job') : job'[p] = f
  BY <1>17
<1>20. Truncating' /\ Beginning' /\ Deleting' /\ Stacked'
  <2>1. ~At("trunc")' /\ ~At("begin")' /\ ~At("create")'
    BY <1>16, <1>18 DEF At
  <2>2. 2 .. Len(job') = {}
    BY <1>17
  <2> QED BY <1>16, <1>17, <1>19, <2>1, <2>2 DEF Truncating, Beginning, Deleting, Stacked
<1>21. Appending'
  BY <1>1, <1>2, <1>8, <1>11, <1>16, <1>18 DEF Appending, n
<1>22. sb' \in Loads
  <2>1. IsFiniteSet(new)
    BY <1>8, Consts, FS_Subset
  <2> HIDE DEF new
  <2>2. Cardinality(new) \in Nat
    BY <2>1, FS_CardinalityType
  <2>3. -Cardinality(new) \in Int
    BY <2>2
  <2>4. sb' = Counted(-Cardinality(new), 0)
    BY <1>2 DEF new
  <2> QED BY <2>3, <2>4, CountedType DEF Types
<1>23. Types'
  <2>1. /\ sbDisk' \in Counters /\ open' \in BOOLEAN /\ written' \subseteq Blk /\ view' \in Store
        /\ doubt' # Nil => doubt' \in [m : Store, sb : Counters]
    BY <1>2, <1>8, <1>11 DEF Types
  <2> QED BY <1>11, <1>17, <1>22, <2>1 DEF Types
<1>24. Follows(disk, disk')
  BY <1>4, <1>11, FollowsSelf
<1> QED BY <1>13, <1>14, <1>15, <1>20, <1>21, <1>23, <1>24

\* The buffer is dropped and the stream is over.
LEMMA StreamAborted ==
  ASSUME Types, Stores, NEW s \in Loads, TxAbort(s), ws' = NoStream, written' = written
  PROVE  /\ Stores' /\ Opened' /\ Streaming' /\ Follows(disk, disk') /\ disk' = disk
         /\ job' \in Seq(Frame) => Types'
<1>1. /\ view' = disk /\ open' = FALSE /\ sb' = s
      /\ disk' = disk /\ sbDisk' = sbDisk /\ doubt' = doubt
  BY DEF TxAbort
<1>2. disk \in Store
  BY DEF Stores, Sound
<1>3. Opened' /\ Streaming' /\ ws' \in Stream
  BY <1>1, StreamGone
<1>4. Stores' /\ Follows(disk, disk')
  BY <1>1, <1>2, FollowsSelf DEF Stores
<1>5. job' \in Seq(Frame) => Types'
  BY <1>1, <1>2, <1>3 DEF Types
<1> QED BY <1>1, <1>3, <1>4, <1>5

LEMMA AppendFullKeeps ==
  ASSUME Plain, Inv, AppendFull
  PROVE  Inv' /\ Follows(disk, disk')
<1> USE DEF Inv
<1> DEFINE took == IF ws.n.size >= Direct /\ ws.n.ind1 = Nil THEN Cardinality(Spare(view)) ELSE 0
<1>1. CanCall /\ TxAbort(Counted(-took, 0)) /\ ws' = NoStream /\ UNCHANGED <<written, job>>
  BY DEF AppendFull
<1>2. job' = <<>>
  BY <1>1, CallFirst
<1>3. Counted(-took, 0) \in Loads
  <2>1. IsFiniteSet(Spare(view))
    BY Consts, FS_Subset DEF Spare
  <2>2. Cardinality(Spare(view)) \in Nat
    BY <2>1, FS_CardinalityType
  <2>3. -took \in Int
    BY <2>2
  <2> HIDE DEF took
  <2> QED BY <2>3, CountedType DEF Types
<1> HIDE DEF took
<1>4. Truncating' /\ Appending' /\ Beginning' /\ Deleting' /\ Stacked' /\ job' \in Seq(Frame)
  BY <1>2, EmptyStack
<1>5. Stores' /\ Opened' /\ Streaming' /\ Follows(disk, disk') /\ Types'
  BY <1>1, <1>3, <1>4, StreamAborted
<1> QED BY <1>4, <1>5

LEMMA EndAbortKeeps ==
  ASSUME Plain, Inv, EndAbort
  PROVE  Inv' /\ Follows(disk, disk')
<1> USE DEF Inv
<1> DEFINE t == Trunc(ws.ino)
<1>1. CanCall /\ TxAbort(sb) /\ ws' = NoStream /\ job' = <<t>> \o job /\ written' = written
  BY DEF EndAbort, Push
<1>2. job = <<>>
  BY <1>1, CallFirst
<1>3. t \in TruncFrame /\ t.op = "trunc" /\ ~t.cleared
  BY DEF Trunc, TruncFrame, Types, Stream
<1> HIDE DEF t
<1>4. job' # <<>> /\ job' \in Seq(Frame) /\ Len(job') = 1 /\ job'[1] = t
  BY <1>1, <1>2, <1>3 DEF Frame
<1>5. Top' = t
  <2>1. Head(job') = job'[1]
    BY <1>4, HeadIs
  <2> QED BY <1>4, <2>1 DEF Top
<1>6. ~At("append")' /\ ~At("create")' /\ ~At("begin")' /\ ~At("check")'
  BY <1>3, <1>5 DEF At
<1>7. Truncating' /\ Appending'
  BY <1>3, <1>5, <1>6 DEF Truncating, Appending
<1>8. Beginning' /\ Deleting' /\ Stacked'
  <2>1. \A p \in 1 .. Len(job') : job'[p] = t
    BY <1>4
  <2>2. 2 .. Len(job') = {}
    BY <1>4
  <2> QED BY <1>3, <1>6, <2>1, <2>2 DEF Beginning, Deleting, Stacked
<1>9. sb \in Loads
  BY DEF Types
<1>10. Stores' /\ Opened' /\ Streaming' /\ Follows(disk, disk') /\ Types'
  BY <1>1, <1>4, <1>9, StreamAborted
<1> QED BY <1>7, <1>8, <1>10

\* A commit of the stream's metadata, with d for its inode.
LEMMA StreamCommit ==
  ASSUME Types, Stores, Streaming, ws.active, NEW d \in NodeRec, NEW ok \in BOOLEAN,
         TxCommit([view EXCEPT !.ino[ws.ino] = d], sb, ok),
         written \subseteq written', written' \subseteq Blk,
         Sound(With(view, ws.ino, d), written'),
         d.type = "file", d.ind1 = ws.n.ind1, ws.n.size <= d.size,
         \A k : Mapped(view, d, k) = Mapped(view, ws.n, k)
  PROVE  /\ Stores' /\ Follows(disk, disk') /\ view' = disk'
         /\ ok => disk'.ino[ws.ino] = d /\ doubt' = Nil
         /\ ws' \in Stream /\ open' \in BOOLEAN /\ job' \in Seq(Frame) => Types'
<1> DEFINE m == With(view, ws.ino, d)
<1>1. /\ ws.ino \in Ino /\ ws.n \in NodeRec /\ view \in Store /\ disk \in Store
      /\ ws.n.size \in Nat /\ disk.ino[ws.ino].size \in Nat
  BY StreamIs
<1>2. /\ view.ino = disk.ino
      /\ \A b \in Blk : view.ind[b] # disk.ind[b] => b = ws.n.ind1
      /\ disk.ino[ws.ino].size <= ws.n.size
      /\ \A k \in 1 .. disk.ino[ws.ino].size :
           Mapped(view, ws.n, k) = Mapped(disk, disk.ino[ws.ino], k)
  BY DEF Streaming
<1>3. disk.ino[ws.ino].size <= d.size
  <2>1. d.size \in Nat
    BY FileMaxIs DEF NodeRec
  <2> QED BY <1>1, <1>2, <2>1
<1>4. Follows(disk, m)
  BY <1>1, <1>2, <1>3, StreamFollows
<1>5. m.ino[ws.ino] = d
  BY <1>1, WithIs
<1>6. TxCommit(m, sb, ok) /\ sb \in Loads
  BY DEF With, Types
<1> HIDE DEF m
<1>7. Sound(m, written')
  BY DEF m
<1>8. /\ Stores' /\ Follows(disk, disk')
      /\ sb' \in Loads /\ sbDisk' \in Counters /\ view' = disk' /\ view' \in Store
      /\ doubt' # Nil => doubt' \in [m : Store, sb : Counters]
      /\ ok => disk' = m /\ doubt' = Nil
  BY <1>4, <1>6, <1>7, Committed
<1> QED BY <1>5, <1>8 DEF Types

\* A commit of what the stream has mapped and written so far.
LEMMA StreamFlush ==
  ASSUME Types, Stores, Streaming, ws.active, NEW ok \in BOOLEAN,
         TxCommit([view EXCEPT !.ino[ws.ino] = ws.n], sb, ok), written' = written
  PROVE  /\ Stores' /\ Follows(disk, disk') /\ view' = disk'
         /\ ok => disk'.ino[ws.ino] = ws.n /\ doubt' = Nil
         /\ ws' \in Stream /\ open' \in BOOLEAN /\ job' \in Seq(Frame) => Types'
<1>1. ws.n \in NodeRec /\ ws.n.size \in Nat
  BY StreamIs
<1>2. Sound(With(view, ws.ino, ws.n), written') /\ ws.n.type = "file"
  BY DEF Streaming, Ahead
<1>3. written \subseteq written' /\ written' \subseteq Blk
  BY DEF Types
<1> DEFINE d == ws.n
<1>4. d \in NodeRec /\ d.type = "file" /\ d.ind1 = ws.n.ind1 /\ ws.n.size <= d.size
      /\ Sound(With(view, ws.ino, d), written')
      /\ TxCommit([view EXCEPT !.ino[ws.ino] = d], sb, ok)
      /\ \A k : Mapped(view, d, k) = Mapped(view, ws.n, k)
  BY <1>1, <1>2
<1>5. d = ws.n
  OBVIOUS
<1> HIDE DEF d
<1>6. /\ Stores' /\ Follows(disk, disk') /\ view' = disk'
      /\ ok => disk'.ino[ws.ino] = d /\ doubt' = Nil
      /\ ws' \in Stream /\ open' \in BOOLEAN /\ job' \in Seq(Frame) => Types'
  BY <1>3, <1>4, StreamCommit
<1> QED BY <1>5, <1>6

LEMMA EndCommitKeeps ==
  ASSUME Plain, Inv, EndCommit
  PROVE  Inv' /\ Follows(disk, disk')
<1> USE DEF Inv
<1>1. PICK ok \in Results :
        /\ CanCall /\ ws.active
        /\ TxCommit([view EXCEPT !.ino[ws.ino] = ws.n], sb, ok)
        /\ open' = FALSE /\ ws' = NoStream /\ UNCHANGED <<written, job>>
  BY DEF EndCommit, Close
<1>2. job' = <<>> /\ ok \in BOOLEAN
  BY <1>1, CallFirst, ResultsAre
<1>3. Truncating' /\ Appending' /\ Beginning' /\ Deleting' /\ Stacked' /\ job' \in Seq(Frame)
  BY <1>2, EmptyStack
<1>4. /\ Stores' /\ Follows(disk, disk') /\ view' = disk'
      /\ ws' \in Stream /\ open' \in BOOLEAN /\ job' \in Seq(Frame) => Types'
  BY <1>1, <1>2, StreamFlush
<1>5. Opened' /\ Streaming' /\ ws' \in Stream
  BY <1>1, <1>4, StreamGone
<1> QED BY <1>1, <1>3, <1>4, <1>5

LEMMA AppendDataKeeps ==
  ASSUME Inv, AppendData
  PROVE  Inv' /\ Follows(disk, disk')
<1> USE DEF Inv
<1> DEFINE d == [ws.n EXCEPT !.size = @ + 1]
<1>1. PICK wrote \in BOOLEAN, batch \in BOOLEAN, ok \in BOOLEAN :
        /\ At("append")
        /\ CASE ~wrote ->
                TxAbort(sb) /\ ws' = NoStream
             [] wrote /\ ~batch ->
                /\ ws' = [ws EXCEPT !.n = d]
                /\ UNCHANGED meta
             [] wrote /\ batch ->
                /\ TxCommit([view EXCEPT !.ino[ws.ino] = d], sb, ok)
                /\ open' = ok
                /\ ws' = IF ok THEN [ws EXCEPT !.n = d] ELSE NoStream
        /\ written' = IF wrote THEN written \union {Top.blk} ELSE written
        /\ Return(TRUE)
  BY DEF AppendData
<1>2. job # <<>> /\ Top.op = "append" /\ ~At("create")
  BY <1>1 DEF At
<1>3. job' = <<>>
  BY <1>1, <1>2, Returned
<1>4. Truncating' /\ Appending' /\ Beginning' /\ Deleting' /\ Stacked' /\ job' \in Seq(Frame)
  BY <1>3, EmptyStack
<1>5. ws.active /\ ws.n.size < FileMax /\ Mapped(view, ws.n, ws.n.size + 1) = Top.blk
  BY <1>1 DEF Appending
<1>6. Top.blk \in Blk
  <2>1. Top \in AppendFrame
    BY <1>2, TopIs, FrameIs
  <2> QED BY <2>1 DEF AppendFrame
<1>7. ~ws.suspended /\ open
  BY <1>2, <1>5 DEF Opened
<1>8. /\ ws.ino \in Ino /\ ws.n \in NodeRec /\ view \in Store /\ disk \in Store
      /\ ws.n.size \in Nat /\ disk.ino[ws.ino].size \in Nat /\ Sound(With(view, ws.ino, ws.n), written)
  BY <1>5, StreamIs DEF Ahead
<1>9. /\ d \in NodeRec /\ SameEntry(d, ws.n) /\ d.size = ws.n.size + 1
      /\ Sound(With(view, ws.ino, d), written \union {Top.blk})
      /\ \A k : Mapped(view, d, k) = Mapped(view, ws.n, k)
  <2>1. \A x : x = [ws.n EXCEPT !.size = @ + 1] =>
          /\ x \in NodeRec /\ SameEntry(x, ws.n) /\ x.size = ws.n.size + 1
          /\ Sound(With(view, ws.ino, x), written \union {Mapped(view, ws.n, ws.n.size + 1)})
          /\ \A k : Mapped(view, x, k) = Mapped(view, ws.n, k)
    BY <1>5, <1>8, AppendDataSound
  <2> QED BY <1>5, <2>1
<1>10. d.ind1 = ws.n.ind1 /\ d.type = ws.n.type /\ d.name = ws.n.name /\ d.parent = ws.n.parent
  BY <1>8 DEF NodeRec
<1>11. ws.n.type = "file"
  BY <1>5 DEF Streaming
<1> HIDE DEF d
<1>12. CASE ~wrote
  <2>1. TxAbort(sb) /\ ws' = NoStream /\ written' = written /\ sb \in Loads
    BY <1>1, <1>12 DEF Types
  <2> QED BY <1>4, <2>1, StreamAborted
<1>13. CASE wrote /\ ~batch
  <2>1. ws' = [ws EXCEPT !.n = d] /\ written' = written \union {Top.blk}
        /\ disk' = disk /\ view' = view /\ open' = open /\ sbDisk' = sbDisk /\ sb' = sb /\ doubt' = doubt
    BY <1>1, <1>13 DEF meta
  <2>2. /\ ws' \in Stream /\ ws'.active /\ ~ws'.suspended /\ ws'.ino = ws.ino /\ ws'.n = d
    BY <1>5, <1>7, <1>9, <2>1 DEF Types, Stream
  <2>3. Types'
    BY <1>4, <1>6, <2>1, <2>2 DEF Types
  <2>4. Stores'
    BY <2>1, SoundMore DEF Stores
  <2>5. Opened'
    BY <1>7, <2>1, <2>2 DEF Opened
  <2>6. Streaming'
    <3>1. /\ view.ino = disk.ino /\ view.ibm = disk.ibm /\ disk.bbm \subseteq view.bbm
          /\ \A b \in Blk : view.ind[b] # disk.ind[b] => b = ws.n.ind1
          /\ disk.ino[ws.ino].type = "file"
          /\ ws.n.name = disk.ino[ws.ino].name /\ ws.n.parent = disk.ino[ws.ino].parent
          /\ disk.ino[ws.ino].size <= ws.n.size
          /\ \A k \in 1 .. disk.ino[ws.ino].size :
               Mapped(view, ws.n, k) = Mapped(disk, disk.ino[ws.ino], k)
          /\ doubt # Nil => doubt.m.bbm \subseteq view.bbm
      BY <1>5 DEF Streaming
    <3>2. Ahead' = With(view, ws.ino, d)
      BY <2>1, <2>2 DEF Ahead
    <3>3. disk.ino[ws.ino].size <= d.size
      BY <1>8, <1>9, <3>1
    <3> QED BY <1>9, <1>10, <1>11, <2>1, <2>2, <3>1, <3>2, <3>3 DEF Streaming
  <2>7. Follows(disk, disk')
    BY <1>8, <2>1, FollowsSelf
  <2> QED BY <1>4, <2>3, <2>4, <2>5, <2>6, <2>7
<1>14. CASE wrote /\ batch
  <2>1. /\ TxCommit([view EXCEPT !.ino[ws.ino] = d], sb, ok)
        /\ open' = ok /\ ws' = (IF ok THEN [ws EXCEPT !.n = d] ELSE NoStream)
        /\ written' = written \union {Top.blk}
    BY <1>1, <1>14
  <2>2. written \subseteq written' /\ written' \subseteq Blk
    BY <1>6, <2>1 DEF Types
  <2>3. /\ Stores' /\ Follows(disk, disk') /\ view' = disk'
        /\ ok => disk'.ino[ws.ino] = d /\ doubt' = Nil
        /\ ws' \in Stream /\ open' \in BOOLEAN /\ job' \in Seq(Frame) => Types'
    <3>1. ws.n.size <= d.size
      BY <1>8, <1>9
    <3> QED BY <1>5, <1>9, <1>10, <1>11, <2>1, <2>2, <3>1, StreamCommit
  <2>4. CASE ok
    <3>1. ws' \in Stream /\ ws'.active /\ ~ws'.suspended /\ ws'.ino = ws.ino /\ ws'.n = d
      BY <1>5, <1>7, <1>9, <2>1, <2>4 DEF Types, Stream
    <3>2. Opened'
      BY <2>1, <2>4, <3>1 DEF Opened
    <3>3. Sound(disk', written')
      BY <2>3 DEF Stores
    <3>4. ws'.ino \in Ino /\ ws'.n = disk'.ino[ws'.ino] /\ ws'.n.type = "file" /\ doubt' = Nil
      BY <1>8, <1>10, <1>11, <2>3, <2>4, <3>1
    <3>5. Streaming'
      BY <2>3, <3>3, <3>4, StreamAtRest
    <3> QED BY <1>4, <2>1, <2>3, <3>1, <3>2, <3>5
  <2>5. CASE ~ok
    <3>1. ws' = NoStream /\ open' = FALSE
      BY <2>1, <2>5
    <3>2. Opened' /\ Streaming' /\ ws' \in Stream
      BY <2>3, <3>1, StreamGone
    <3> QED BY <1>4, <2>3, <3>1, <3>2
  <2> QED BY <2>4, <2>5
<1> QED BY <1>12, <1>13, <1>14

-----------------------------------------------------------------------------
(* Creating.                                                               *)

\* A create starts.
LEMMA CreatePushed ==
  ASSUME job = <<>>, NEW f \in CreateFrame, job' = <<f>> \o job, open' = FALSE
  PROVE  /\ job' \in Seq(Frame) /\ At("create")'
         /\ Truncating' /\ Appending' /\ Beginning' /\ Deleting' /\ Stacked'
<1>1. f.op = "create" /\ f \in Frame
  BY DEF CreateFrame, Frame
<1>2. job' # <<>> /\ job' \in Seq(Frame) /\ Len(job') = 1 /\ job'[1] = f
  BY <1>1
<1>3. Top' = f
  <2>1. Head(job') = job'[1]
    BY <1>2, HeadIs
  <2> QED BY <1>2, <2>1 DEF Top
<1>4. At("create")' /\ ~At("append")' /\ ~At("trunc")' /\ ~At("begin")'
  BY <1>1, <1>2, <1>3 DEF At
<1>5. \A p \in 1 .. Len(job') : job'[p] = f
  BY <1>2
<1>6. 2 .. Len(job') = {}
  BY <1>2
<1> QED BY <1>1, <1>2, <1>4, <1>5, <1>6 DEF Truncating, Appending, Beginning, Deleting, Stacked

LEMMA CallCreateKeeps ==
  ASSUME Plain, Inv, NEW dir \in Ino, NEW name \in Name, NEW type \in {"file", "dir"},
         CallCreate(dir, name, type)
  PROVE  Inv' /\ Follows(disk, disk')
<1> USE DEF Inv
<1> DEFINE f == [op |-> "create", dir |-> dir, name |-> name, type |-> type]
<1>1. PICK ok \in Results :
        /\ CanCall
        /\ IF ws.active
           THEN StreamSuspend(ok)
           ELSE ok /\ Creatable(dir, name) /\ UNCHANGED <<meta, ws>>
        /\ IF ok THEN job' = <<f>> \o job ELSE UNCHANGED job
        /\ UNCHANGED written
  BY DEF CallCreate, Push
<1>2. job = <<>> /\ ok \in BOOLEAN /\ ~At("create")
  BY <1>1, CallFirst, ResultsAre DEF At
<1>3. f \in CreateFrame
  BY DEF CreateFrame
<1> HIDE DEF f
<1>4. ~ws.suspended
  BY <1>2 DEF Opened
<1>5. CASE ws.active
  <2>1. /\ TxCommit([view EXCEPT !.ino[ws.ino] = ws.n], sb, ok)
        /\ open' = FALSE
        /\ ws' = (IF ok THEN [ws EXCEPT !.suspended = TRUE] ELSE NoStream)
        /\ written' = written
    BY <1>1, <1>5 DEF StreamSuspend, Close
  <2>2. /\ Stores' /\ Follows(disk, disk') /\ view' = disk'
        /\ ok => disk'.ino[ws.ino] = ws.n /\ doubt' = Nil
        /\ ws' \in Stream /\ open' \in BOOLEAN /\ job' \in Seq(Frame) => Types'
    BY <1>2, <1>5, <2>1, StreamFlush
  <2>3. CASE ok
    <3>1. /\ job' \in Seq(Frame) /\ At("create")'
          /\ Truncating' /\ Appending' /\ Beginning' /\ Deleting' /\ Stacked'
      BY <1>1, <1>2, <1>3, <2>1, <2>3, CreatePushed
    <3>2. ws' \in Stream /\ ws'.active /\ ws'.suspended /\ ws'.ino = ws.ino /\ ws'.n = ws.n
      BY <1>5, <2>1, <2>3 DEF Types, Stream
    <3>3. ws.ino \in Ino /\ ws.n.type = "file"
      BY <1>5 DEF Types, Stream, Streaming
    <3>4. Opened'
      BY <2>1, <2>2, <2>3, <3>1, <3>2 DEF Opened
    <3>5. Sound(disk', written') /\ doubt' = Nil
      BY <2>2, <2>3 DEF Stores
    <3>6. ws'.ino \in Ino /\ ws'.n = disk'.ino[ws'.ino] /\ ws'.n.type = "file"
      BY <2>2, <2>3, <3>2, <3>3
    <3>7. Streaming'
      BY <2>2, <3>5, <3>6, StreamAtRest
    <3> QED BY <2>1, <2>2, <3>1, <3>2, <3>4, <3>7
  <2>4. CASE ~ok
    <3>1. ws' = NoStream /\ open' = FALSE /\ job' = <<>>
      BY <1>1, <1>2, <2>1, <2>4
    <3>2. Opened' /\ Streaming' /\ ws' \in Stream
      BY <2>2, <3>1, StreamGone
    <3>3. Truncating' /\ Appending' /\ Beginning' /\ Deleting' /\ Stacked' /\ job' \in Seq(Frame)
      BY <3>1, EmptyStack
    <3> QED BY <2>2, <3>1, <3>2, <3>3
  <2> QED BY <1>2, <2>3, <2>4
<1>6. CASE ~ws.active
  <2>1. ok /\ UNCHANGED <<meta, ws, written>> /\ job' = <<f>> \o job
    BY <1>1, <1>6
  <2>2. open' = FALSE
    BY <1>6, <2>1 DEF Opened, Types, meta
  <2>3. /\ job' \in Seq(Frame)
        /\ Truncating' /\ Appending' /\ Beginning' /\ Deleting' /\ Stacked'
    BY <1>2, <1>3, <2>1, <2>2, CreatePushed
  <2>4. Stores' /\ Opened' /\ Streaming' /\ Follows(disk, disk')
    BY <1>2, <2>1, Still
  <2>5. Types'
    BY <2>1, <2>3, StillTypes
  <2> QED BY <2>3, <2>4, <2>5
<1> QED BY <1>5, <1>6

\* A create ends: what the stream lent is its own again.
LEMMA Resumed ==
  ASSUME Types, Opened, Streaming, At("create"), Stacked, StreamResume,
         view' = disk', Sound(disk', written'),
         ws.active => disk'.ino[ws.ino] = ws.n,
         ws.active /\ doubt' # Nil => doubt'.m.bbm \subseteq disk'.bbm
  PROVE  Opened' /\ Streaming' /\ ws' \in Stream /\ open' \in BOOLEAN
<1>1. ~open /\ (ws.active <=> ws.suspended)
  BY DEF Stacked, Opened, Types, Stream
<1>2. open' = ws.active /\ ws' = [ws EXCEPT !.suspended = FALSE]
  BY <1>1 DEF StreamResume, Types, Stream
<1>3. ws' \in Stream /\ ws'.active = ws.active /\ ~ws'.suspended /\ ws'.ino = ws.ino /\ ws'.n = ws.n
  BY <1>2 DEF Types, Stream
<1>4. Opened' /\ open' \in BOOLEAN
  BY <1>2, <1>3 DEF Opened, Stream
<1>5. CASE ws.active
  <2>1. ws'.ino \in Ino /\ ws'.n = disk'.ino[ws'.ino] /\ ws'.n.type = "file"
    BY <1>3, <1>5 DEF Types, Stream, Streaming
  <2>2. Streaming'
    BY <1>5, <2>1, StreamAtRest
  <2> QED BY <1>3, <1>4, <2>2
<1>6. CASE ~ws.active
  BY <1>3, <1>4, <1>6 DEF Streaming
<1> QED BY <1>5, <1>6

LEMMA CreateFailsKeeps ==
  ASSUME Inv, CreateFails
  PROVE  Inv' /\ Follows(disk, disk')
<1> USE DEF Inv
<1>1. /\ At("create") /\ Return(FALSE) /\ StreamResume
      /\ UNCHANGED <<disk, view, sbDisk, sb, doubt, written>>
  BY DEF CreateFails
<1>2. job # <<>> /\ Top.op = "create" /\ ~open
  BY <1>1 DEF At, Stacked
<1>3. job' = <<>>
  BY <1>1, <1>2, Returned
<1>4. Truncating' /\ Appending' /\ Beginning' /\ Deleting' /\ Stacked' /\ job' \in Seq(Frame)
  BY <1>3, EmptyStack
<1>5. view = disk /\ Sound(disk, written) /\ disk \in Store
  BY <1>2 DEF Opened, Stores, Sound
<1>6. ws.active => disk.ino[ws.ino] = ws.n /\ (doubt # Nil => doubt.m.bbm \subseteq disk.bbm)
  BY <1>2, <1>5 DEF Opened, Streaming, Types, Stream
<1>7. Opened' /\ Streaming' /\ ws' \in Stream /\ open' \in BOOLEAN
  BY <1>1, <1>5, <1>6, Resumed
<1>8. Stores' /\ Types'
  BY <1>1, <1>4, <1>7 DEF Stores, Types
<1>9. Follows(disk, disk')
  BY <1>1, <1>5, FollowsSelf
<1> QED BY <1>4, <1>7, <1>8, <1>9

LEMMA CreateNodeKeeps ==
  ASSUME Plain, Inv, CreateNode
  PROVE  Inv' /\ Follows(disk, disk')
<1> USE DEF Inv
<1> DEFINE dir == Top.dir
           name == Top.name
           s == Counted(0, -1)
<1>1. PICK i \in Ino \ view.ibm, ok \in Results :
        /\ At("create") /\ Creatable(dir, name)
        /\ TxCommit([view EXCEPT !.ibm = @ \union {i}, !.ino[i] = Node(Top.type, name, dir),
                                 !.ino[dir].kids = Append(@, i)], s, ok)
        /\ Return(ok) /\ StreamResume /\ written' = written
  BY DEF CreateNode
<1> DEFINE m == Created(disk, i, Top.type, name, dir)
<1>2. job # <<>> /\ Top.op = "create" /\ ~open /\ ok \in BOOLEAN
  BY <1>1, ResultsAre DEF At, Stacked
<1>3. dir \in Ino /\ name \in Name /\ Top.type \in {"file", "dir"}
  <2>1. Top \in CreateFrame
    BY <1>2, TopIs, FrameIs
  <2> QED BY <2>1 DEF CreateFrame
<1>4. job' = <<>>
  BY <1>1, <1>2, Returned
<1>5. Truncating' /\ Appending' /\ Beginning' /\ Deleting' /\ Stacked' /\ job' \in Seq(Frame)
  BY <1>4, EmptyStack
<1>6. view = disk /\ Sound(disk, written) /\ disk \in Store /\ s \in Loads
  <2>1. view = disk /\ Sound(disk, written) /\ disk \in Store /\ sb \in Loads
    BY <1>2 DEF Opened, Stores, Sound, Types
  <2>2. 0 \in Int /\ -1 \in Int
    OBVIOUS
  <2>3. s \in Loads
    BY <2>1, <2>2, CountedType
  <2> QED BY <2>1, <2>3
<1> HIDE DEF s
<1>7. i \in Ino \ disk.ibm /\ disk.ino[dir].type = "dir" /\ Len(disk.ino[dir].kids) < MaxKids
      /\ Child(disk, disk.ino[dir], name) = Nil
  BY <1>1, <1>6 DEF Creatable
<1>8. TxCommit(m, s, ok)
  BY <1>1, <1>6 DEF Created
<1>9. /\ Sound(m, written) /\ Follows(disk, m) /\ m.bbm = disk.bbm
      /\ \A j \in Ino \ {i, dir} : m.ino[j] = disk.ino[j]
  <2>1. \A n : n = m => /\ Sound(n, written) /\ Follows(disk, n) /\ n.bbm = disk.bbm
                        /\ \A j \in Ino \ {i, dir} : n.ino[j] = disk.ino[j]
    BY <1>3, <1>6, <1>7, CreateSound
  <2> QED BY <2>1
<1> HIDE DEF m, dir, name
<1>10. /\ Stores' /\ Follows(disk, disk')
       /\ sb' \in Loads /\ sbDisk' \in Counters /\ view' = disk' /\ view' \in Store
       /\ doubt' # Nil => doubt' \in [m : Store, sb : Counters]
       /\ ok => disk' = m /\ doubt' = Nil
       /\ ~ok => disk' = disk /\ (doubt' # Nil => doubt' = doubt \/ doubt'.m = m)
  <2>1. written \subseteq written' /\ Sound(m, written')
    BY <1>1, <1>9
  <2> QED BY <1>2, <1>6, <1>8, <1>9, <2>1, Committed
\* The stream's file is neither the new node nor the directory.
<1>11. ws.active => disk'.ino[ws.ino] = ws.n
  <2> SUFFICES ASSUME ws.active PROVE disk'.ino[ws.ino] = ws.n
    OBVIOUS
  <2>1. ws.ino \in Ino /\ disk.ino[ws.ino].type = "file" /\ disk.ino[ws.ino] = ws.n
    BY <1>2, <1>6 DEF Types, Stream, Streaming, Opened
  <2>2. disk.ino[i].type = "free"
    BY <1>6, <1>7 DEF Sound, Tree
  <2>3. ws.ino \in Ino \ {i, dir}
    BY <1>7, <2>1, <2>2
  <2> QED BY <1>2, <1>9, <1>10, <2>1, <2>3
<1>12. ws.active /\ doubt' # Nil => doubt'.m.bbm \subseteq disk'.bbm
  <2> SUFFICES ASSUME ws.active, doubt' # Nil PROVE doubt'.m.bbm \subseteq disk'.bbm
    OBVIOUS
  <2>1. ~ok /\ disk' = disk /\ (doubt' = doubt \/ doubt'.m = m)
    BY <1>2, <1>10
  <2>2. doubt # Nil => doubt.m.bbm \subseteq disk.bbm
    BY <1>6 DEF Streaming
  <2> QED BY <1>9, <2>1, <2>2
<1>13. Sound(disk', written')
  BY <1>10 DEF Stores
<1>14. Opened' /\ Streaming' /\ ws' \in Stream /\ open' \in BOOLEAN
  BY <1>1, <1>10, <1>11, <1>12, <1>13, Resumed
<1>15. Types'
  <2>1. written' \subseteq Blk
    BY <1>1 DEF Types
  <2> QED BY <1>5, <1>10, <1>14, <2>1 DEF Types
<1> QED BY <1>5, <1>10, <1>14, <1>15

-----------------------------------------------------------------------------
(* Power loss, the new volume, and the whole.                              *)

LEMMA CrashKeeps ==
  ASSUME Inv, Crash
  PROVE  Inv' /\ Follows(disk, disk')
<1> USE DEF Inv
<1>1. PICK store \in {doubt, [m |-> disk, sb |-> sbDisk]} \ {Nil} :
        /\ disk' = store.m /\ view' = store.m /\ sbDisk' = store.sb
        /\ sb' = Loaded(store.sb) /\ doubt' = Nil /\ open' = FALSE /\ ws' = NoStream
        /\ job' = <<>> /\ written' = written
  BY DEF Crash
<1>2. disk \in Store
  BY DEF Stores, Sound
<1>3. Sound(store.m, written) /\ store.sb \in Counters /\ Follows(disk, store.m)
  <2>1. CASE store = doubt /\ doubt # Nil
    BY <2>1 DEF Stores, Types
  <2>2. CASE store = [m |-> disk, sb |-> sbDisk]
    BY <1>2, <2>2, FollowsSelf DEF Stores, Types
  <2> QED BY <2>1, <2>2
<1>4. Truncating' /\ Appending' /\ Beginning' /\ Deleting' /\ Stacked' /\ job' \in Seq(Frame)
  BY <1>1, EmptyStack
<1>5. Opened' /\ Streaming' /\ ws' \in Stream
  BY <1>1, StreamGone
<1>6. Stores'
  BY <1>1, <1>3 DEF Stores
<1>7. sb' \in Loads
  BY <1>1, <1>3 DEF Loaded, Loads, Counters
<1>8. Types'
  <2>1. store.m \in Store
    BY <1>3 DEF Sound
  <2> QED BY <1>1, <1>3, <1>4, <1>5, <1>7, <2>1 DEF Types
<1> QED BY <1>1, <1>3, <1>4, <1>5, <1>6, <1>8

LEMMA FormattedSound == Sound(Formatted, {})
<1> DEFINE m == Formatted
<1>1. FreeNode \in NodeRec /\ FreeNode.type = "free" /\ FreeNode.size = 0 /\ Blank(FreeNode) /\ FreeNode.kids = <<>>
  BY NodeType, Consts DEF FreeNode
<1> DEFINE root == Node("dir", Nil, Root)
<1>2. root \in NodeRec /\ root.type = "dir" /\ root.size = 0 /\ Blank(root) /\ root.kids = <<>>
  BY NodeType, Consts
<1> HIDE DEF root
<1>3. NoInd \in [1 .. Fan -> Ptr]
  BY DEF NoInd, Ptr
<1>4. /\ m \in Store /\ m.ibm = {Root} /\ m.bbm = {}
      /\ m.ino[Root] = root /\ \A i \in Ino \ {Root} : m.ino[i] = FreeNode
  BY <1>1, <1>2, <1>3, Consts DEF Formatted, Store, root
<1> HIDE DEF m
<1>5. \A i \in Ino : m.ino[i].size = 0 /\ Blank(m.ino[i]) /\ m.ino[i].kids = <<>>
  BY <1>1, <1>2, <1>4
<1>6. \A i \in Ino, k \in Place : Slot(m, i, k) = Nil
  BY <1>5, ChainBlank DEF Slot
<1>7. \A i \in Ino : Len(m.ino[i].kids) = 0 /\ 1 .. Len(m.ino[i].kids) = {} /\ 1 .. m.ino[i].size = {}
  BY <1>5
<1>8. Tree(m)
  BY <1>1, <1>2, <1>4, <1>5, <1>7, Consts DEF Tree, Entries, NamedApart
<1>9. Marked(m) /\ Apart(m)
  BY <1>6 DEF Marked, Apart
<1>10. Filled(m, {})
  BY <1>7 DEF Filled
<1> QED BY <1>4, <1>8, <1>9, <1>10 DEF Sound, m

LEMMA InitInv == Init => Inv
<1> SUFFICES ASSUME Init PROVE Inv
  OBVIOUS
<1>1. Sound(disk, written) /\ disk \in Store
  BY FormattedSound DEF Init, Sound
<1>2. sbDisk \in Counters
  <2>1. Cardinality(Blk) \in Nat /\ Cardinality(Ino) \in Nat
    BY Consts, FS_CardinalityType
  <2>2. disk.bbm \subseteq Blk /\ disk.ibm \subseteq Ino
    BY <1>1, StoreParts
  <2>3. Cardinality(disk.bbm) \in Nat /\ Cardinality(disk.ibm) \in Nat
    BY <2>2, Consts, FS_Subset, FS_CardinalityType
  <2>4. /\ (Cardinality(Blk) - Cardinality(disk.bbm)) % Ctr \in 0 .. Ctr - 1
        /\ (Cardinality(Ino) - Cardinality(disk.ibm)) % Ctr \in 0 .. Ctr - 1
    BY <2>1, <2>3, Remainder
  <2>5. sbDisk = Tally(disk)
    BY DEF Init
  <2> QED BY <2>4, <2>5 DEF Tally, Counters
<1>3. sb \in Loads
  BY <1>2 DEF Init, Loaded, Loads, Counters
<1>4. job = <<>> /\ Len(job) = 0 /\ 1 .. Len(job) = {} /\ 2 .. Len(job) = {} /\ \A op : ~At(op)
  BY DEF Init, At
<1>5. ~ws.active /\ ~ws.suspended /\ ws \in Stream /\ ~open /\ view = disk /\ doubt = Nil /\ written = {}
      /\ open \in BOOLEAN
  BY NoStreamIs DEF Init
<1>6. job \in Seq(Frame)
  BY <1>4
<1>7. Types
  BY <1>1, <1>2, <1>3, <1>5, <1>6 DEF Types
<1>8. Stores /\ Opened /\ Streaming
  BY <1>1, <1>5 DEF Stores, Opened, Streaming
<1>9. Truncating /\ Appending /\ Beginning /\ Deleting /\ Stacked
  BY <1>4 DEF Truncating, Appending, Beginning, Deleting, Stacked
<1> QED BY <1>7, <1>8, <1>9 DEF Inv

-----------------------------------------------------------------------------
(* nxfs_check, up to its repair.                                           *)

LEMMA VisitsAre ==
  ASSUME NEW s \in Seq(Ino), NEW d \in Nat
  PROVE  /\ Visits(s, d) \in Seq(Visit) /\ Len(Visits(s, d)) = Len(s)
         /\ \A k \in 1 .. Len(s) : Visits(s, d)[k] = [ino |-> s[k], depth |-> d]
<1>1. Visits(s, d) = [k \in 1 .. Len(s) |-> [ino |-> s[k], depth |-> d]]
  BY DEF Visits
<1>2. Len(s) \in Nat /\ \A k \in 1 .. Len(s) : s[k] \in Ino /\ [ino |-> s[k], depth |-> d] \in Visit
  BY DEF Visit
<1> QED BY <1>1, <1>2

\* A check in progress is the only call.
LEMMA CheckPushed ==
  ASSUME NEW f \in CheckFrame, Checks, job' \in Seq(Frame), Len(job') = 1, job'[1] = f
  PROVE  /\ Top' = f /\ At("check")'
         /\ Truncating' /\ Appending' /\ Beginning' /\ Deleting' /\ Stacked'
<1>1. f.op = "check" /\ job' # <<>>
  <2>1. f.op = "check"
    BY DEF CheckFrame
  <2>2. job' # <<>>
    OBVIOUS
  <2> QED BY <2>1, <2>2
<1>2. Top' = f
  <2>1. Head(job') = job'[1]
    BY <1>1, HeadIs
  <2> QED BY <2>1 DEF Top
<1>3. /\ At("check")'
      /\ ~At("append")' /\ ~At("trunc")' /\ ~At("begin")' /\ ~At("create")'
  BY <1>1, <1>2 DEF At
<1>4. \A p \in 1 .. Len(job') : job'[p] = f
  OBVIOUS
<1>5. 2 .. Len(job') = {}
  OBVIOUS
<1> QED BY <1>1, <1>2, <1>3, <1>4, <1>5 DEF Truncating, Appending, Beginning, Deleting, Stacked

LEMMA CheckIs ==
  ASSUME Types, Stacked, At("check")
  PROVE  /\ job # <<>> /\ Top = job[1] /\ Top \in CheckFrame /\ Checks /\ Len(job) = 1
         /\ ~At("create") /\ ~At("trunc") /\ ~At("append") /\ ~At("begin")
<1>1. job # <<>> /\ Top \in Frame /\ Top = job[1] /\ Top.op = "check"
  BY TopIs DEF At
<1>2. Top \in CheckFrame /\ Checks
  BY <1>1, FrameIs
<1> QED BY <1>1, <1>2 DEF Stacked, At

LEMMA CallCheckKeeps ==
  ASSUME Plain, Inv, CallCheck
  PROVE  Inv' /\ Follows(disk, disk')
<1> USE DEF Inv
<1> DEFINE v == Visits(<<Root>>, 0)
           f == [op |-> "check", walk |-> v, seenB |-> {}, seenI |-> {}, tick |-> FALSE]
<1>1. Checks /\ job = <<>> /\ job' = <<f>> \o job /\ UNCHANGED <<meta, ws, written>>
  BY DEF CallCheck, Push
<1>2. v \in Seq(Visit)
  <2>1. <<Root>> \in Seq(Ino)
    BY Consts
  <2> QED BY <2>1, VisitsAre
<1> HIDE DEF v
<1>3. f \in CheckFrame
  BY <1>2 DEF CheckFrame
<1> HIDE DEF f
<1>4. f \in Frame
  BY <1>1, <1>3 DEF Frame
<1>5. job' \in Seq(Frame) /\ Len(job') = 1 /\ job'[1] = f
  BY <1>1, <1>4
<1>6. Truncating' /\ Appending' /\ Beginning' /\ Deleting' /\ Stacked'
  BY <1>1, <1>3, <1>5, CheckPushed
<1>7. Stores' /\ Opened' /\ Streaming' /\ Follows(disk, disk')
  BY <1>1, Still DEF At
<1>8. Types'
  BY <1>1, <1>5, StillTypes
<1> QED BY <1>6, <1>7, <1>8

\* What a check has seen after a visit, and what is left to visit.
LEMMA CheckGoesOn ==
  ASSUME Types, Stacked, At("check"), NEW f \in CheckFrame, job' = [job EXCEPT ![1] = f]
  PROVE  /\ job' \in Seq(Frame) /\ Top' = f /\ At("check")'
         /\ Truncating' /\ Appending' /\ Beginning' /\ Deleting' /\ Stacked'
<1>1. job # <<>> /\ Checks /\ Len(job) = 1 /\ job \in Seq(Frame)
  BY CheckIs DEF Types
<1>2. f \in Frame
  BY <1>1 DEF Frame
<1>3. job' \in Seq(Frame) /\ Len(job') = 1 /\ job'[1] = f
  BY <1>1, <1>2
<1> QED BY <1>1, <1>3, CheckPushed

\* The frame that a visit leaves.
Seen(f) ==
  LET i   == Head(f.walk).ino
      d   == Head(f.walk).depth
      n   == view.ino[i]
      new == d <= WalkMax /\ i \notin f.seenI
  IN  [f EXCEPT
        !.walk  = IF new /\ n.type = "dir" THEN Visits(n.kids, d + 1) \o Tail(@) ELSE Tail(@),
        !.seenI = IF new THEN @ \union {i} ELSE @,
        !.seenB = IF new /\ n.type = "file" THEN @ \union Blocks(view, n) ELSE @,
        !.tick  = Ticks /\ new /\ n.type = "file"]

LEMMA VisitIs ==
  ASSUME Plain, Types, Stacked, CheckWalk
  PROVE  /\ job' = [job EXCEPT ![1] = Seen(Top)] /\ Seen(Top) \in CheckFrame
         /\ Top.walk # <<>> /\ Top.walk \in Seq(Visit)
         /\ LET i   == Head(Top.walk).ino
                d   == Head(Top.walk).depth
                n   == view.ino[i]
                new == d <= WalkMax /\ i \notin Top.seenI
            IN  /\ i \in Ino /\ d \in Nat /\ n.kids \in Seq(Ino)
                /\ Seen(Top).walk = IF new /\ n.type = "dir" THEN Visits(n.kids, d + 1) \o Tail(Top.walk)
                                   ELSE Tail(Top.walk)
                /\ Seen(Top).seenI = IF new THEN Top.seenI \union {i} ELSE Top.seenI
                /\ Seen(Top).seenB = IF new /\ n.type = "file" THEN Top.seenB \union Blocks(view, n)
                                    ELSE Top.seenB
         /\ UNCHANGED <<meta, ws, written>>
<1> DEFINE w   == Top.walk
           i   == Head(w).ino
           d   == Head(w).depth
           n   == view.ino[i]
           new == d <= WalkMax /\ i \notin Top.seenI
           vs  == IF new /\ n.type = "dir" THEN Visits(n.kids, d + 1) \o Tail(w) ELSE Tail(w)
           bs  == IF new /\ n.type = "file" THEN Top.seenB \union Blocks(view, n) ELSE Top.seenB
           is  == IF new THEN Top.seenI \union {i} ELSE Top.seenI
           t   == Ticks /\ new /\ n.type = "file"
<1>1. At("check") /\ w # <<>> /\ UNCHANGED <<meta, ws, written>>
      /\ job' = [job EXCEPT
           ![1].walk  = IF new /\ n.type = "dir" THEN Visits(n.kids, d + 1) \o Tail(@) ELSE Tail(@),
           ![1].seenI = IF new THEN @ \union {i} ELSE @,
           ![1].seenB = IF new /\ n.type = "file" THEN @ \union Blocks(view, n) ELSE @,
           ![1].tick  = t]
  BY DEF CheckWalk
<1>2. job # <<>> /\ Top = job[1] /\ Top \in CheckFrame /\ Checks /\ job \in Seq(Frame) /\ Len(job) = 1
  BY <1>1, CheckIs DEF Types
<1>3. w \in Seq(Visit) /\ Top.seenB \subseteq Blk /\ Top.seenI \subseteq Ino
  BY <1>2 DEF CheckFrame
<1>4. Head(w) \in Visit /\ Tail(w) \in Seq(Visit)
  <2>1. w # <<>>
    BY <1>1
  <2> HIDE DEF w
  <2> QED BY <1>3, <2>1
<1>5. i \in Ino /\ d \in Nat
  BY <1>4 DEF Visit
<1> HIDE DEF w, i, d
<1>6. view \in Store /\ n \in NodeRec /\ n.kids \in Seq(Ino)
  BY <1>5, StoreParts DEF Types
<1>7. vs \in Seq(Visit)
  <2>1. Visits(n.kids, d + 1) \in Seq(Visit)
    BY <1>5, <1>6, VisitsAre
  <2> QED BY <1>4, <2>1
<1>8. bs \subseteq Blk
  <2>1. Blocks(view, n) \subseteq Blk
    <3>1. Blocks(view, n) = {Slot(view, i, k) : k \in Place} \ {Nil}
      BY <1>5, <1>6, SlotIsBlock
    <3>2. \A k \in Place : Slot(view, i, k) \in Ptr
      BY <1>6, ChainType DEF Slot
    <3> QED BY <3>1, <3>2 DEF Ptr
  <2> QED BY <1>3, <2>1
<1>9. is \subseteq Ino /\ t = FALSE
  BY <1>2, <1>3, <1>5 DEF Plain
<1>10. Seen(Top) = [Top EXCEPT !.walk = vs, !.seenI = is, !.seenB = bs, !.tick = t]
  BY DEF Seen, w, i, d
<1>11. job' = [job EXCEPT ![1] = [@ EXCEPT !.walk = vs, !.seenI = is, !.seenB = bs, !.tick = t]]
  BY <1>1, <1>2 DEF vs, is, bs, w, t
<1>12. vs = (IF new /\ n.type = "dir" THEN Visits(n.kids, d + 1) \o Tail(w) ELSE Tail(w))
  OBVIOUS
<1>13. bs = (IF new /\ n.type = "file" THEN Top.seenB \union Blocks(view, n) ELSE Top.seenB)
  OBVIOUS
<1>14. is = (IF new THEN Top.seenI \union {i} ELSE Top.seenI)
  OBVIOUS
<1> HIDE DEF vs, is, bs, t
<1>15. Seen(Top) \in CheckFrame /\ Seen(Top).walk = vs /\ Seen(Top).seenI = is /\ Seen(Top).seenB = bs
  <2> DEFINE g == [Top EXCEPT !.walk = vs, !.seenI = is, !.seenB = bs, !.tick = t]
  <2>1. Top \in CheckFrame /\ vs \in Seq(Visit) /\ bs \in SUBSET Blk /\ is \in SUBSET Ino /\ t \in {FALSE}
    BY <1>2, <1>7, <1>8, <1>9
  <2>2. g \in CheckFrame /\ g.walk = vs /\ g.seenI = is /\ g.seenB = bs
    BY <2>1 DEF CheckFrame
  <2> HIDE DEF g
  <2> QED BY <1>10, <2>2 DEF g
<1>16. job' = [job EXCEPT ![1] = Seen(Top)]
  BY <1>2, <1>10, <1>11
<1>17. w # <<>> /\ UNCHANGED <<meta, ws, written>>
  BY <1>1
<1> QED BY <1>3, <1>5, <1>6, <1>12, <1>13, <1>14, <1>15, <1>16, <1>17 DEF w, i, d

LEMMA CheckWalkKeeps ==
  ASSUME Plain, Inv, CheckWalk
  PROVE  Inv' /\ Follows(disk, disk')
<1> USE DEF Inv
<1>1. At("check")
  BY DEF CheckWalk
<1>2. job' = [job EXCEPT ![1] = Seen(Top)] /\ Seen(Top) \in CheckFrame /\ UNCHANGED <<meta, ws, written>>
  BY VisitIs
<1>3. job' \in Seq(Frame) /\ Truncating' /\ Appending' /\ Beginning' /\ Deleting' /\ Stacked'
  BY <1>1, <1>2, CheckGoesOn
<1>4. Stores' /\ Opened' /\ Streaming' /\ Follows(disk, disk')
  BY <1>1, <1>2, CheckIs, Still
<1>5. Types'
  BY <1>2, <1>3, StillTypes
<1> QED BY <1>3, <1>4, <1>5

LEMMA CheckDoneKeeps ==
  ASSUME Plain, Inv, CheckDone
  PROVE  Inv' /\ Follows(disk, disk')
<1> USE DEF Inv
<1>1. At("check") /\ Return(TRUE) /\ UNCHANGED <<meta, ws, written>>
  BY DEF CheckDone
<1>2. job # <<>> /\ ~At("create") /\ Len(job) = 1
  BY <1>1, CheckIs
<1>3. job' = <<>>
  BY <1>1, <1>2, Returned
<1>4. job' \in Seq(Frame) /\ Truncating' /\ Appending' /\ Beginning' /\ Deleting' /\ Stacked'
  BY <1>3, EmptyStack
<1>5. Stores' /\ Opened' /\ Streaming' /\ Follows(disk, disk')
  BY <1>1, <1>2, Still
<1>6. Types'
  BY <1>1, <1>4, StillTypes
<1> QED BY <1>4, <1>5, <1>6

-----------------------------------------------------------------------------
(* Every step but those of the repair.                                     *)

Repairs == CheckBatch \/ CheckRepair

\* Where nxfs_check is not called, nothing is repaired.
LEMMA NoCheck ==
  ASSUME ~Checks, Types
  PROVE  ~Repairs
<1>1. ~At("check")
  BY TopIs, FrameIs DEF At
<1> QED BY <1>1 DEF Repairs, CheckBatch, CheckRepair

LEMMA StepKeeps ==
  ASSUME Plain, Inv, Step, ~Repairs
  PROVE  Inv' /\ Follows(disk, disk')
<1>1. Types
  BY DEF Inv
<1>2. CASE TruncBusy \/ TruncClear \/ TruncFree
  BY <1>2, TruncBusyKeeps, TruncClearKeeps, TruncFreeKeeps
<1>3. CASE BeginStream \/ AppendData
  BY <1>3, BeginStreamKeeps, AppendDataKeeps
<1>4. CASE CreateFails \/ CreateNode
  BY <1>4, CreateFailsKeeps, CreateNodeKeeps
<1>5. CASE DelDirChild \/ UnlinkBusy \/ Unlink
  BY <1>5, DelDirChildKeeps, UnlinkBusyKeeps, UnlinkKeeps
<1>6. CASE CheckWalk \/ CheckDone
  BY <1>6, CheckWalkKeeps, CheckDoneKeeps
<1> QED BY <1>1, <1>2, <1>3, <1>4, <1>5, <1>6 DEF Step, Repairs

LEMMA CallKeeps ==
  ASSUME Plain, Inv, Call
  PROVE  Inv' /\ Follows(disk, disk')
<1>1. Types /\ Name \union Dots = Name
  BY DEF Inv, Plain
<1>2. CASE \E i \in Ino : CallBegin(i)
  BY <1>2, CallBeginKeeps
<1>3. CASE AppendMap \/ AppendFull \/ EndCommit \/ EndAbort
  BY <1>3, AppendMapKeeps, AppendFullKeeps, EndCommitKeeps, EndAbortKeeps
<1>4. CASE \E dir \in Ino, name \in Name, type \in {"file", "dir"} : CallCreate(dir, name, type)
  BY <1>4, CallCreateKeeps
<1>5. CASE \E dir \in Ino, name \in Name \union Dots : CallDelete(dir, name)
  BY <1>1, <1>5, CallDeleteKeeps
<1>6. CASE \E dir \in Ino, old \in Name \union Dots, new \in Name : Rename(dir, old, new)
  BY <1>1, <1>6, RenameKeeps
<1> QED BY <1>1, <1>2, <1>3, <1>4, <1>5, <1>6, CallCheckKeeps DEF Call

LEMMA StutterKeeps ==
  ASSUME Inv, UNCHANGED vars
  PROVE  Inv' /\ Follows(disk, disk')
<1>1. /\ disk' = disk /\ view' = view /\ open' = open /\ sbDisk' = sbDisk /\ sb' = sb /\ doubt' = doubt
      /\ ws' = ws /\ written' = written /\ job' = job
  BY DEF vars
<1>2. Ahead' = Ahead
  BY <1>1 DEF Ahead
<1>3. Top' = Top /\ \A op : At(op)' = At(op)
  BY <1>1 DEF Top, At
<1>4. Types' /\ Stores' /\ Opened' /\ Streaming'
  BY <1>1, <1>2, <1>3 DEF Inv, Types, Stores, Opened, Streaming
<1>5. Truncating' /\ Appending' /\ Beginning' /\ Deleting' /\ Stacked'
  BY <1>1, <1>3 DEF Inv, Truncating, Appending, Beginning, Deleting, Stacked
<1>6. Follows(disk, disk')
  BY <1>1, FollowsSelf DEF Inv, Stores, Sound
<1> QED BY <1>4, <1>5, <1>6 DEF Inv

LEMMA NextKeeps == Plain /\ Inv /\ [Next]_vars /\ ~Repairs => Inv' /\ Follows(disk, disk')
BY StepKeeps, CallKeeps, CrashKeeps, StutterKeeps DEF Next

\* The invariant, on which everything below rests.
LEMMA AlwaysInv ==
  ASSUME Plain, ~Checks
  PROVE  Spec => []Inv
<1>1. Init => Inv
  BY InitInv
<1>2. Inv /\ [Next]_vars => Inv'
  BY NextKeeps, NoCheck DEF Inv
<1> QED BY <1>1, <1>2, PTL DEF Spec

-----------------------------------------------------------------------------
(* What follows from it.                                                   *)

\* The marked inodes hold the root and the children of each, so a walk stays in them.
LEMMA ReachMarked ==
  ASSUME NEW m \in Store, Tree(m)
  PROVE  Reach(m) \subseteq m.ibm
<1>1. m.ibm \in SUBSET Ino /\ Root \in m.ibm
  BY StoreParts, Consts DEF Tree
<1>2. \A i \in m.ibm : ToSet(m.ino[i].kids) \subseteq m.ibm
  <2> SUFFICES ASSUME NEW i \in m.ibm, NEW c \in ToSet(m.ino[i].kids) PROVE c \in m.ibm
    OBVIOUS
  <2>1. i \in Ino /\ m.ino[i].kids \in Seq(Ino)
    BY <1>1, StoreParts
  <2>2. PICK k \in 1 .. Len(m.ino[i].kids) : c = m.ino[i].kids[k]
    BY <2>1 DEF ToSet
  <2>3. c \in Ino /\ m.ino[c].type # "free"
    BY <2>1, <2>2, StoreParts DEF Tree, Entries
  <2> QED BY <2>3 DEF Tree
<1> QED BY <1>1, <1>2 DEF Reach, Closed

LEMMA InvTypeOK == Inv => TypeOK
<1> SUFFICES ASSUME Inv PROVE TypeOK
  OBVIOUS
<1>1. disk \in Store /\ view \in Store /\ Tree(disk)
  BY DEF Inv, Types, Stores, Sound
<1>2. view.ino = disk.ino
  BY ViewTree DEF Inv
<1>3. \A m \in {disk, view} : \A i \in Ino : m.ino[i].kids \in BoundedSeq(Ino, MaxKids)
  <2> SUFFICES ASSUME NEW i \in Ino PROVE disk.ino[i].kids \in BoundedSeq(Ino, MaxKids)
    BY <1>2
  <2> DEFINE s == disk.ino[i].kids
  <2>1. s \in Seq(Ino) /\ Len(s) <= MaxKids
    BY <1>1, StoreParts DEF Tree
  <2> HIDE DEF s
  <2>2. Len(s) \in 0 .. MaxKids /\ s \in [1 .. Len(s) -> Ino]
    BY <2>1, Consts
  <2>3. s \in BoundedSeq(Ino, MaxKids)
    BY <2>2 DEF BoundedSeq, SeqOf
  <2> QED BY <2>3 DEF s
<1>4. \A m \in {disk, view} :
        /\ m.ibm \subseteq Ino /\ m.bbm \subseteq Blk
        /\ m.ind \in [Blk -> [1 .. Fan -> Ptr]]
        /\ \A i \in Ino : m.ino[i] \in NodeRec
  BY <1>1, StoreParts
<1>5. \A n \in NodeRec :
        /\ n.type \in {"free", "file", "dir"}
        /\ n.name \in Name \union {Nil}
        /\ n.parent \in Ino
        /\ n.size \in 0 .. FileMax
        /\ n.direct \in [1 .. Direct -> Ptr]
        /\ n.ind1 \in Ptr
  BY DEF NodeRec
<1>6. /\ sb \in [fb : 0 .. Ctr - 1, fi : 0 .. Ctr - 1, dirty : BOOLEAN]
      /\ sbDisk \in [fb : 0 .. Ctr - 1, fi : 0 .. Ctr - 1]
      /\ open \in BOOLEAN
      /\ ~open => view = disk
      /\ written \subseteq Blk
  BY DEF Inv, Types, Opened, Loads, Counters
<1> QED BY <1>3, <1>4, <1>5, <1>6 DEF TypeOK

LEMMA InvTreeSound == Inv => TreeSound
<1> SUFFICES ASSUME Inv, NEW i \in Reach(disk)
             PROVE  LET n == disk.ino[i]
                    IN  /\ n.type # "free"
                        /\ \A j, k \in 1 .. Len(n.kids) :
                             /\ n.kids[j] # Root
                             /\ disk.ino[n.kids[j]].parent = i
                             /\ disk.ino[n.kids[j]].name = disk.ino[n.kids[k]].name => j = k
                        /\ \A k \in 1 .. n.size : Mapped(disk, n, k) # Nil
  BY DEF TreeSound
<1>1. disk \in Store /\ Tree(disk) /\ Filled(disk, written) /\ written \subseteq Blk
  BY DEF Inv, Types, Stores, Sound
<1>2. i \in Ino /\ i \in disk.ibm
  BY <1>1, ReachMarked DEF Reach
<1>3. disk.ino[i].type # "free"
  BY <1>1, <1>2 DEF Tree
<1>4. \A j, k \in 1 .. Len(disk.ino[i].kids) :
        /\ disk.ino[i].kids[j] # Root
        /\ disk.ino[disk.ino[i].kids[j]].parent = i
        /\ disk.ino[disk.ino[i].kids[j]].name = disk.ino[disk.ino[i].kids[k]].name => j = k
  BY <1>1, <1>2 DEF Tree, Entries, NamedApart
<1>5. \A k \in 1 .. disk.ino[i].size : Mapped(disk, disk.ino[i], k) # Nil
  <2> SUFFICES ASSUME NEW k \in 1 .. disk.ino[i].size PROVE Mapped(disk, disk.ino[i], k) # Nil
    OBVIOUS
  <2>1. k \in 1 .. FileMax
    BY <1>1, <1>2, StoreParts, FileMaxIs
  <2>2. Slot(disk, i, k) \in written
    BY <1>1, <1>2 DEF Filled
  <2> QED BY <1>1, <1>2, <2>1, <2>2, SlotIsBlock, Consts
<1> QED BY <1>3, <1>4, <1>5

LEMMA InvUsedIsMarked == Inv => UsedIsMarked
<1> SUFFICES ASSUME Inv PROVE UsedIsMarked
  OBVIOUS
<1>1. disk \in Store /\ Tree(disk) /\ Marked(disk)
  BY DEF Inv, Stores, Sound
<1>2. Reach(disk) \subseteq disk.ibm
  BY <1>1, ReachMarked
<1>3. \A i \in Reach(disk) : Blocks(disk, disk.ino[i]) \subseteq disk.bbm
  <2> SUFFICES ASSUME NEW i \in Ino PROVE Blocks(disk, disk.ino[i]) \subseteq disk.bbm
    BY DEF Reach
  <2> QED BY <1>1, SlotIsBlock DEF Marked
<1> QED BY <1>2, <1>3 DEF UsedIsMarked, InUse

LEMMA InvNoSharing == Inv => NoSharing
<1> SUFFICES ASSUME Inv, NEW i \in Reach(disk), NEW j \in Reach(disk),
                    NEW k \in 1 .. FileMax + 1, NEW l \in 1 .. FileMax + 1,
                    Slot(disk, i, k) # Nil, Slot(disk, i, k) = Slot(disk, j, l)
             PROVE  i = j /\ k = l
  BY DEF NoSharing, Slot
<1>1. Apart(disk) /\ i \in Ino /\ j \in Ino /\ k \in Place /\ l \in Place
  BY DEF Inv, Stores, Sound, Reach, Place
<1> QED BY <1>1 DEF Apart

LEMMA InvOrderedData == Inv => OrderedData
<1> SUFFICES ASSUME Inv, NEW i \in Ino, NEW k \in 1 .. disk.ino[i].size
             PROVE  Mapped(disk, disk.ino[i], k) \in written
  BY DEF OrderedData, Reach
<1>1. disk \in Store /\ Filled(disk, written)
  BY DEF Inv, Stores, Sound
<1>2. k \in 1 .. FileMax
  BY <1>1, StoreParts, FileMaxIs
<1>3. Slot(disk, i, k) \in written
  BY <1>1 DEF Filled
<1> QED BY <1>1, <1>2, <1>3, SlotIsBlock

LEMMA InvStreamWritesAside == Inv => StreamWritesAside
<1> SUFFICES ASSUME Inv, ws.active,
                    NEW b \in Blocks(view, ws.n), b \notin Blocks(disk, disk.ino[ws.ino]),
                    NEW i \in Ino, b \in Blocks(disk, disk.ino[i])
             PROVE  FALSE
  BY DEF StreamWritesAside, InUse, Reach
<1>1. /\ ws.ino \in Ino /\ view \in Store /\ disk \in Store /\ Sound(Ahead, written)
      /\ Ahead.ino[ws.ino] = ws.n
      /\ \A j \in Ino \ {ws.ino}, k \in Place : Slot(Ahead, j, k) = Slot(disk, j, k)
  BY StreamIs DEF Inv
<1>2. Ahead \in Store /\ Apart(Ahead)
  BY <1>1 DEF Sound
<1>3. Blocks(view, ws.n) = Blocks(Ahead, ws.n)
  <2>1. Ahead.ind = view.ind
    BY <1>1 DEF Ahead, With, Store
  <2>2. Chain(Ahead, ws.n) = Chain(view, ws.n)
    BY <2>1, ChainSame
  <2> QED BY <2>2 DEF Blocks
<1>4. PICK k \in Place : b = Slot(Ahead, ws.ino, k) /\ b # Nil
  BY <1>1, <1>2, <1>3, SlotIsBlock
<1>5. PICK l \in Place : b = Slot(disk, i, l)
  BY <1>1, SlotIsBlock
<1>6. i # ws.ino
  OBVIOUS
<1>7. Slot(Ahead, i, l) = b
  BY <1>1, <1>5, <1>6
<1> QED BY <1>1, <1>2, <1>4, <1>6, <1>7 DEF Apart

LEMMA InvStreamOwnsFile == Inv => StreamOwnsFile
<1> SUFFICES ASSUME Inv, ws.active
             PROVE  /\ ws.ino \in disk.ibm
                    /\ disk.ino[ws.ino].type = "file"
                    /\ disk.ino[ws.ino].name = ws.n.name
                    /\ disk.ino[ws.ino].parent = ws.n.parent
                    /\ disk.ino[ws.ino].size <= ws.n.size
                    /\ \A k \in 1 .. disk.ino[ws.ino].size :
                         Mapped(disk, disk.ino[ws.ino], k) = Mapped(view, ws.n, k)
  BY DEF StreamOwnsFile
<1>1. /\ disk.ino[ws.ino].type = "file"
      /\ disk.ino[ws.ino].name = ws.n.name
      /\ disk.ino[ws.ino].parent = ws.n.parent
      /\ disk.ino[ws.ino].size <= ws.n.size
      /\ \A k \in 1 .. disk.ino[ws.ino].size :
           Mapped(disk, disk.ino[ws.ino], k) = Mapped(view, ws.n, k)
  BY DEF Inv, Streaming
<1>2. ws.ino \in disk.ibm
  BY <1>1 DEF Inv, Types, Stream, Stores, Sound, Tree
<1> QED BY <1>1, <1>2

-----------------------------------------------------------------------------
(* The theorems: whatever calls are made, whichever commits report an      *)
(* error and wherever the power fails.                                     *)

\* Both stores, the counters and the stream keep their types, no directory
\* exceeds its table, and without an open transaction readers see the disk.
THEOREM StoresKeepTheirTypes ==
  ASSUME Plain, ~Checks
  PROVE  Spec => []TypeOK
BY AlwaysInv, InvTypeOK, PTL

\* What a mount would find is always a tree, with every file mapped as far as
\* its size says: create_node, nxfs_delete_file, nxfs_delete_dir, nxfs_rename
\* and the streaming writer each keep it one in every commit.
THEOREM MountFindsATree ==
  ASSUME Plain, ~Checks
  PROVE  Spec => []TreeSound
BY AlwaysInv, InvTreeSound, PTL

\* A crash leaks and never frees: what the tree uses is marked in the bitmaps.
THEOREM NothingInUseIsFree ==
  ASSUME Plain, ~Checks
  PROVE  Spec => []UsedIsMarked
BY AlwaysInv, InvUsedIsMarked, PTL

\* No block is mapped twice, although file_truncate frees blocks in commits of
\* their own and an open stream allocates behind the disk's back.
THEOREM NoBlockIsShared ==
  ASSUME Plain, ~Checks
  PROVE  Spec => []NoSharing
BY AlwaysInv, InvNoSharing, PTL

\* Within its size a recovered file holds data that was written for it: the
\* append writes a block before the commit that makes the file longer.
THEOREM DataPrecedesSize ==
  ASSUME Plain, ~Checks
  PROVE  Spec => []OrderedData
BY AlwaysInv, InvOrderedData, PTL

\* The blocks an open stream writes to before it commits belong to no file that
\* a crash would recover.
THEOREM UncommittedDataIsAside ==
  ASSUME Plain, ~Checks
  PROVE  Spec => []StreamWritesAside
BY AlwaysInv, InvStreamWritesAside, PTL

\* No call between two appends deletes, renames, reuses or shortens the file
\* whose inode g_ws keeps a copy of and will write back.
THEOREM TheStreamKeepsItsFile ==
  ASSUME Plain, ~Checks
  PROVE  Spec => []StreamOwnsFile
BY AlwaysInv, InvStreamOwnsFile, PTL

\* Each step, a power loss included, leaves every file as it was, empties it or
\* makes it longer.
THEOREM FilesOnlyGrowOrEmpty ==
  ASSUME Plain, ~Checks
  PROVE  Spec => FilesGrowOrEmpty
<1>1. Plain /\ ~Checks /\ Inv /\ [Next]_vars
        => [\A i \in Ino :
              LET n == disk.ino[i]
                  m == disk'.ino[i]
              IN  n.type = "file" /\ m.type = "file" /\ m.size # 0 =>
                    /\ m.size >= n.size
                    /\ \A k \in 1 .. n.size : Mapped(disk', m, k) = Mapped(disk, n, k)]_vars
  <2>1. Inv => Types
    BY DEF Inv
  <2> QED BY <2>1, NextKeeps, NoCheck DEF Follows
<1> QED BY <1>1, AlwaysInv, PTL DEF Spec, FilesGrowOrEmpty
=============================================================================
