----------------------------- MODULE Tcp_proofs -----------------------------
(***************************************************************************)
(* A connection implements a byte stream: for a stream of any length, in   *)
(* segments of any length, through a ring of any size, with any number of  *)
(* segments lost, repeated and out of order.                               *)
(***************************************************************************)
EXTENDS Tcp, TLAPS

USE TcpAssumption

\* The constants, one by one.
LEMMA Lengths ==
  /\ PeerLen \in Nat /\ Sends \in Nat /\ Tries \in Nat
  /\ PeerSeg \in Nat /\ RingBytes \in Nat /\ PeerSeg > 0 /\ RingBytes > 0
<1>1. \A x \in {PeerLen, Sends, Tries} : x \in Nat
  OBVIOUS
<1>2. \A x \in {PeerSeg, RingBytes} : x \in Nat /\ x > 0
  OBVIOUS
<1> QED BY <1>1, <1>2

-----------------------------------------------------------------------------
(* The ring.                                                               *)

\* How many slots lie from t to h.
Span(h, t) == IF h >= t THEN h - t ELSE h + RingBytes - t

\* A slot after at most one turn.
LEMMA OneTurn ==
  ASSUME NEW x \in 0 .. 2 * RingBytes - 1
  PROVE  x % RingBytes = IF x < RingBytes THEN x ELSE x - RingBytes
<1>1. RingBytes \in Nat \ {0} /\ x \in Int
  BY Lengths
<1>2. CASE x < RingBytes
  BY <1>1, <1>2
<1>3. CASE ~(x < RingBytes)
  <2>1. PICK y \in 0 .. RingBytes - 1 : x = RingBytes * 1 + y
    BY <1>1, <1>3
  <2>2. (RingBytes * 1 + y) % RingBytes = y % RingBytes
    BY <1>1
  <2>3. y % RingBytes = y
    BY <1>1
  <2> QED BY <1>1, <1>3, <2>1, <2>2, <2>3
<1> QED BY <1>2, <1>3

\* What is in the ring, and what is free, make one slot less than there are.
LEMMA AvailIs ==
  ASSUME rbHead \in 0 .. RingBytes - 1, rbTail \in 0 .. RingBytes - 1
  PROVE  /\ Avail = Span(rbHead, rbTail) /\ Avail \in 0 .. RingBytes - 1
         /\ FreeSpace = RingBytes - Span(rbHead, rbTail) - 1 /\ FreeSpace \in 0 .. RingBytes - 1
<1>1. rbHead + RingBytes - rbTail \in 0 .. 2 * RingBytes - 1
  BY Lengths
<1>2. Avail = Span(rbHead, rbTail)
  BY <1>1, OneTurn, Lengths DEF Avail, Span
<1>3. Span(rbHead, rbTail) \in 0 .. RingBytes - 1
  BY Lengths DEF Span
<1> QED BY <1>2, <1>3, Lengths DEF FreeSpace

\* The slot of the j-th byte in the ring, counted from the head.
LEMMA FromHead ==
  ASSUME NEW h \in 0 .. RingBytes - 1, NEW t \in 0 .. RingBytes - 1, NEW j \in 0 .. RingBytes - 1
  PROVE  /\ (t + j) % RingBytes \in 0 .. RingBytes - 1
         /\ (((t + j) % RingBytes) + RingBytes - h) % RingBytes
              = IF j >= Span(h, t) THEN j - Span(h, t) ELSE j - Span(h, t) + RingBytes
<1> DEFINE i == (t + j) % RingBytes
<1>1. t + j \in 0 .. 2 * RingBytes - 1
  BY Lengths
<1>2. i = IF t + j < RingBytes THEN t + j ELSE t + j - RingBytes
  BY <1>1, OneTurn
<1> HIDE DEF i
<1>3. i \in 0 .. RingBytes - 1
  BY <1>1, <1>2, Lengths
<1>4. i + RingBytes - h \in 0 .. 2 * RingBytes - 1
  BY <1>3, Lengths
<1>5. (i + RingBytes - h) % RingBytes =
        IF i + RingBytes - h < RingBytes THEN i + RingBytes - h ELSE i + RingBytes - h - RingBytes
  <2> DEFINE x == i + RingBytes - h
  <2>1. x \in 0 .. 2 * RingBytes - 1
    BY <1>4
  <2> HIDE DEF x
  <2>2. x % RingBytes = IF x < RingBytes THEN x ELSE x - RingBytes
    BY <2>1, OneTurn
  <2> QED BY <2>1, <2>2, <1>3, Lengths DEF x
<1>6. (IF i + RingBytes - h < RingBytes THEN i + RingBytes - h ELSE i + RingBytes - h - RingBytes)
        = IF j >= Span(h, t) THEN j - Span(h, t) ELSE j - Span(h, t) + RingBytes
  BY <1>2, <1>3, Lengths DEF Span
<1> QED BY <1>3, <1>5, <1>6 DEF i

\* Moving the head on adds to what is in the ring, moving the tail on takes away.
LEMMA Moved ==
  ASSUME NEW h \in 0 .. RingBytes - 1, NEW t \in 0 .. RingBytes - 1, NEW n \in Nat
  PROVE  /\ n <= RingBytes - Span(h, t) - 1 =>
              /\ (h + n) % RingBytes \in 0 .. RingBytes - 1
              /\ Span((h + n) % RingBytes, t) = Span(h, t) + n
         /\ n <= Span(h, t) =>
              /\ (t + n) % RingBytes \in 0 .. RingBytes - 1
              /\ Span(h, (t + n) % RingBytes) = Span(h, t) - n
<1>0. Span(h, t) \in 0 .. RingBytes - 1
  BY Lengths DEF Span
<1>1. ASSUME n <= RingBytes - Span(h, t) - 1
      PROVE  /\ (h + n) % RingBytes \in 0 .. RingBytes - 1
             /\ Span((h + n) % RingBytes, t) = Span(h, t) + n
  <2>1. h + n \in 0 .. 2 * RingBytes - 1
    BY <1>0, <1>1, Lengths
  <2>2. (h + n) % RingBytes = IF h + n < RingBytes THEN h + n ELSE h + n - RingBytes
    <3> DEFINE x == h + n
    <3>1. x \in 0 .. 2 * RingBytes - 1
      BY <2>1
    <3> HIDE DEF x
    <3>2. x % RingBytes = IF x < RingBytes THEN x ELSE x - RingBytes
      BY <3>1, OneTurn
    <3> QED BY <3>1, <3>2, Lengths DEF x
  <2>3. (h + n) % RingBytes \in 0 .. RingBytes - 1
    BY <2>1, <2>2, Lengths
  <2> QED BY <1>1, <2>1, <2>2, <2>3, Lengths DEF Span
<1>2. ASSUME n <= Span(h, t)
      PROVE  /\ (t + n) % RingBytes \in 0 .. RingBytes - 1
             /\ Span(h, (t + n) % RingBytes) = Span(h, t) - n
  <2>1. t + n \in 0 .. 2 * RingBytes - 1
    BY <1>0, <1>2, Lengths
  <2>2. (t + n) % RingBytes = IF t + n < RingBytes THEN t + n ELSE t + n - RingBytes
    <3> DEFINE x == t + n
    <3>1. x \in 0 .. 2 * RingBytes - 1
      BY <2>1
    <3> HIDE DEF x
    <3>2. x % RingBytes = IF x < RingBytes THEN x ELSE x - RingBytes
      BY <3>1, OneTurn
    <3> QED BY <3>1, <3>2, Lengths DEF x
  <2>3. (t + n) % RingBytes \in 0 .. RingBytes - 1
    BY <2>1, <2>2, Lengths
  <2> QED BY <1>2, <2>1, <2>2, <2>3, Lengths DEF Span
<1> QED BY <1>1, <1>2

\* The length of what is in the ring, for any head and tail.
LEMMA SpanIs ==
  ASSUME NEW h \in 0 .. RingBytes - 1, NEW t \in 0 .. RingBytes - 1
  PROVE  (h + RingBytes - t) % RingBytes = Span(h, t) /\ Span(h, t) \in 0 .. RingBytes - 1
<1> DEFINE x == h + RingBytes - t
<1>1. x \in 0 .. 2 * RingBytes - 1
  BY Lengths
<1> HIDE DEF x
<1>2. x % RingBytes = IF x < RingBytes THEN x ELSE x - RingBytes
  BY <1>1, OneTurn
<1>3. (IF x < RingBytes THEN x ELSE x - RingBytes) = Span(h, t)
  BY Lengths DEF x, Span
<1>4. Span(h, t) \in 0 .. RingBytes - 1
  BY Lengths DEF Span
<1> QED BY <1>2, <1>3, <1>4 DEF x

\* The ring with the next n bytes of the stream put at its head.
Put(n) ==
  [i \in DOMAIN rb |-> LET k == (i + RingBytes - rbHead) % RingBytes
                      IN  IF k < n THEN rcvNxt + k + 1 ELSE rb[i]]

\* From the tail on the ring r holds the m bytes after those already read.
Follows(r, m) == \A j \in 0 .. m - 1 : r[(rbTail + j) % RingBytes] = Len(got) + j + 1

\* What is in the ring and n bytes more do not fill it.
LEMMA Within ==
  ASSUME NEW s \in 0 .. RingBytes - 1, NEW n \in Nat, n <= RingBytes - s - 1,
         NEW j \in 0 .. (s + n) - 1
  PROVE  j \in 0 .. RingBytes - 1 /\ (~(j >= s) => j < s /\ j \in 0 .. s - 1 /\ ~(j - s + RingBytes < n))
         /\ (j >= s => j - s \in 0 .. n - 1 /\ n > 0)
BY Lengths

\* Bytes put at the head follow those in the ring, and disturb none of them.
LEMMA PutAppends ==
  ASSUME rbHead \in 0 .. RingBytes - 1, rbTail \in 0 .. RingBytes - 1, NEW n \in Nat,
         rb \in [0 .. RingBytes - 1 -> Nat], Len(got) \in Nat, rcvNxt \in Nat,
         n <= RingBytes - Span(rbHead, rbTail) - 1, n > 0 => rcvNxt = Len(got) + Span(rbHead, rbTail),
         Follows(rb, Span(rbHead, rbTail))
  PROVE  Put(n) \in [0 .. RingBytes - 1 -> Nat] /\ Follows(Put(n), Span(rbHead, rbTail) + n)
<1>1. Span(rbHead, rbTail) \in 0 .. RingBytes - 1 /\ RingBytes \in Nat /\ RingBytes > 0
  BY SpanIs, Lengths
<1>2. \A i \in 0 .. RingBytes - 1 : (i + RingBytes - rbHead) % RingBytes \in Nat
  <2> SUFFICES ASSUME NEW i \in 0 .. RingBytes - 1
               PROVE  (i + RingBytes - rbHead) % RingBytes \in Nat
    OBVIOUS
  <2>1. Span(i, rbHead) \in 0 .. RingBytes - 1 /\ (i + RingBytes - rbHead) % RingBytes = Span(i, rbHead)
    BY SpanIs
  <2> QED BY <2>1
<1>3. Put(n) \in [0 .. RingBytes - 1 -> Nat]
  <2> SUFFICES ASSUME NEW i \in 0 .. RingBytes - 1
               PROVE  (IF (i + RingBytes - rbHead) % RingBytes < n
                       THEN rcvNxt + ((i + RingBytes - rbHead) % RingBytes) + 1 ELSE rb[i]) \in Nat
    BY DEF Put
  <2> DEFINE k == (i + RingBytes - rbHead) % RingBytes
  <2>1. k \in Nat
    BY <1>2
  <2> HIDE DEF k
  <2>2. (IF k < n THEN rcvNxt + k + 1 ELSE rb[i]) \in Nat
    BY <2>1
  <2> QED BY <2>2 DEF k
<1>4. ASSUME NEW j \in 0 .. (Span(rbHead, rbTail) + n) - 1
      PROVE  Put(n)[(rbTail + j) % RingBytes] = Len(got) + j + 1
  <2> DEFINE i == (rbTail + j) % RingBytes
             k == (i + RingBytes - rbHead) % RingBytes
             s == Span(rbHead, rbTail)
  <2>1. j \in 0 .. RingBytes - 1 /\ (~(j >= s) => j < s /\ j \in 0 .. s - 1 /\ ~(j - s + RingBytes < n))
        /\ (j >= s => j - s \in 0 .. n - 1 /\ n > 0)
    BY <1>1, Within
  <2>2. i \in 0 .. RingBytes - 1 /\ k = IF j >= s THEN j - s ELSE j - s + RingBytes
    BY <2>1, FromHead
  <2>3. Put(n)[i] = IF k < n THEN rcvNxt + k + 1 ELSE rb[i]
    BY <2>2 DEF Put
  <2>4. ~(j >= s) => rb[i] = Len(got) + j + 1
    BY <2>1 DEF Follows
  <2>5. s \in 0 .. RingBytes - 1 /\ n <= RingBytes - s - 1 /\ (n > 0 => rcvNxt = Len(got) + s)
    BY <1>1, Zenon
  <2> HIDE DEF i, k, s
  <2>6. (IF k < n THEN rcvNxt + k + 1 ELSE rb[i]) = Len(got) + j + 1
    <3>1. CASE j >= s
      <4>0. k = j - s /\ k \in 0 .. n - 1 /\ n > 0
        BY <2>1, <2>2, <3>1
      <4>1. k < n /\ n > 0
        BY <4>0
      <4>2. rcvNxt = Len(got) + s
        BY <2>5, <4>1
      <4>3. k \in Nat /\ s \in Nat /\ j = k + s
        BY <1>1, <2>1, <2>5, <4>0
      <4>4. rcvNxt + k + 1 = Len(got) + j + 1
        BY <4>2, <4>3
      <4> QED BY <4>1, <4>4
    <3>2. CASE ~(j >= s)
      <4>0. k = j - s + RingBytes
        BY <2>2, <3>2, Zenon
      <4>1. ~(k < n)
        BY <2>1, <3>2, <4>0, Zenon
      <4> QED BY <4>1, <2>4, <3>2
    <3> QED BY <3>1, <3>2
  <2> QED BY <2>3, <2>6 DEF i
<1> QED BY <1>3, <1>4 DEF Follows

-----------------------------------------------------------------------------
(* The receiving side.                                                     *)

Acknowledged == Smaller(rcvNxt, PeerLen)

\* The application has read the first bytes, the ring holds the next ones, and
\* together they are what was acknowledged.  A FIN counts as one more byte.
RecvInv ==
  /\ rcvNxt \in 0 .. PeerLen + 1 /\ peerClosed \in BOOLEAN /\ eof \in BOOLEAN
  /\ rb \in [0 .. RingBytes - 1 -> Nat]
  /\ rbHead \in 0 .. RingBytes - 1 /\ rbTail \in 0 .. RingBytes - 1
  /\ got \in Seq(Nat) /\ \A i \in 1 .. Len(got) : got[i] = i
  /\ Len(got) + Avail = Acknowledged
  /\ \A j \in 0 .. Avail - 1 : rb[(rbTail + j) % RingBytes] = Len(got) + j + 1
  /\ peerClosed => rcvNxt = PeerLen + 1
  /\ eof => Len(got) = PeerLen

\* The bytes in the ring, as a sequence.
LEMMA BufferedIs ==
  ASSUME RecvInv
  PROVE  /\ Buffered \in Seq(Nat) /\ Len(Buffered) = Avail
         /\ \A i \in 1 .. Avail : Buffered[i] = Len(got) + i
<1>1. Avail \in 0 .. RingBytes - 1 /\ RingBytes \in Nat
  BY AvailIs, Lengths DEF RecvInv
<1>2. \A i \in 1 .. Avail : rb[(rbTail + i - 1) % RingBytes] = Len(got) + i
  <2> SUFFICES ASSUME NEW i \in 1 .. Avail
               PROVE  rb[(rbTail + i - 1) % RingBytes] = Len(got) + i
    OBVIOUS
  <2>1. i - 1 \in 0 .. Avail - 1 /\ rbTail + i - 1 = rbTail + (i - 1) /\ Len(got) \in Nat
    BY <1>1 DEF RecvInv
  <2>2. rb[(rbTail + (i - 1)) % RingBytes] = Len(got) + (i - 1) + 1
    BY <2>1 DEF RecvInv
  <2> QED BY <1>1, <2>1, <2>2
<1>3. Buffered = [i \in 1 .. Avail |-> Len(got) + i]
  BY <1>2 DEF Buffered
<1>4. Len(got) \in Nat
  BY DEF RecvInv
<1> QED BY <1>1, <1>3, <1>4

\* Of a segment the ring takes what comes next, and no more than it has room for.
LEMMA TakenFits ==
  ASSUME RecvInv, NEW seq \in 0 .. PeerLen, NEW len \in 0 .. PeerSeg, seq + len <= PeerLen
  PROVE  /\ Taken(seq, len) \in 0 .. FreeSpace /\ FreeSpace \in Nat
         /\ rcvNxt <= PeerLen => rcvNxt + Taken(seq, len) <= PeerLen
         /\ rcvNxt = PeerLen + 1 => Taken(seq, len) = 0
<1>1. /\ FreeSpace \in Nat /\ rcvNxt \in 0 .. PeerLen + 1 /\ PeerLen \in Nat /\ PeerSeg \in Nat
  BY AvailIs, Lengths DEF RecvInv
<1> DEFINE from == Trimmed(seq, len)
<1>2. from = rcvNxt => seq + len - from \in Nat
  BY <1>1 DEF Trimmed
<1>3. rcvNxt = PeerLen + 1 => from # rcvNxt
  BY <1>1 DEF Trimmed
<1>4. Taken(seq, len) = IF from = rcvNxt THEN Smaller(seq + len - from, FreeSpace) ELSE 0
  BY DEF Taken
<1>5. from = rcvNxt => /\ Taken(seq, len) \in 0 .. FreeSpace
                       /\ Taken(seq, len) <= seq + len - rcvNxt
  <2> SUFFICES ASSUME from = rcvNxt
               PROVE  Taken(seq, len) \in 0 .. FreeSpace /\ Taken(seq, len) <= seq + len - rcvNxt
    OBVIOUS
  <2>1. Taken(seq, len) = Smaller(seq + len - from, FreeSpace)
    BY <1>4
  <2> QED BY <1>1, <1>2, <2>1 DEF Smaller
<1> HIDE DEF from
<1>6. from # rcvNxt => Taken(seq, len) = 0
  BY <1>4
<1> QED BY <1>1, <1>3, <1>5, <1>6

\* Putting n bytes of the stream in the ring appends them to what is there.
LEMMA RingPutKeeps ==
  ASSUME RecvInv, NEW n \in 0 .. FreeSpace, rcvNxt <= PeerLen \/ n = 0, RingPut(n)
  PROVE  /\ rbHead' \in 0 .. RingBytes - 1 /\ rbTail' \in 0 .. RingBytes - 1
         /\ rb' \in [0 .. RingBytes - 1 -> Nat]
         /\ Avail' = Avail + n
         /\ \A j \in 0 .. Avail' - 1 : rb'[(rbTail' + j) % RingBytes] = Len(got) + j + 1
<1>1. /\ rbHead \in 0 .. RingBytes - 1 /\ rbTail \in 0 .. RingBytes - 1
      /\ rb \in [0 .. RingBytes - 1 -> Nat] /\ Len(got) \in Nat /\ rcvNxt \in Nat
  BY Lengths DEF RecvInv
<1>2. /\ Avail = Span(rbHead, rbTail) /\ Avail \in 0 .. RingBytes - 1
      /\ n \in Nat /\ n <= RingBytes - Span(rbHead, rbTail) - 1
  BY <1>1, AvailIs, Lengths
<1>3. /\ rbHead' = (rbHead + n) % RingBytes /\ rbTail' = rbTail
      /\ rb' = Put(n)
  BY DEF RingPut, Put
<1>4. /\ rbHead' \in 0 .. RingBytes - 1
      /\ Span(rbHead', rbTail) = Span(rbHead, rbTail) + n
  <2>1. /\ (rbHead + n) % RingBytes \in 0 .. RingBytes - 1
        /\ Span((rbHead + n) % RingBytes, rbTail) = Span(rbHead, rbTail) + n
    <3> HIDE TcpAssumption
    <3> QED BY <1>1, <1>2, Moved
  <2> QED BY <1>3, <2>1
<1>5. Avail' = Span(rbHead', rbTail)
  <2>1. Avail' = (rbHead' + RingBytes - rbTail) % RingBytes
    BY <1>3 DEF Avail
  <2>2. \A h \in 0 .. RingBytes - 1 : (h + RingBytes - rbTail) % RingBytes = Span(h, rbTail)
    BY <1>1, SpanIs
  <2> QED BY <2>1, <2>2, <1>4
<1>6. n > 0 => rcvNxt = Len(got) + Span(rbHead, rbTail)
  <2>1. Smaller(rcvNxt, PeerLen) = Len(got) + Span(rbHead, rbTail)
    BY <1>2 DEF RecvInv, Acknowledged
  <2>2. n > 0 => rcvNxt <= PeerLen
    BY <1>2
  <2>3. rcvNxt <= PeerLen => Smaller(rcvNxt, PeerLen) = rcvNxt
    BY <1>1, Lengths DEF Smaller
  <2>4. rcvNxt <= PeerLen => rcvNxt = Len(got) + Span(rbHead, rbTail)
    BY <2>1, <2>3
  <2> QED BY <2>2, <2>4
<1>7. Follows(rb, Span(rbHead, rbTail))
  BY <1>2 DEF RecvInv, Follows
<1>8. Put(n) \in [0 .. RingBytes - 1 -> Nat] /\ Follows(Put(n), Span(rbHead, rbTail) + n)
  BY <1>1, <1>2, <1>6, <1>7, PutAppends
<1>9. Avail' = Avail + n
  BY <1>2, <1>4, <1>5
<1>10. \A j \in 0 .. Avail' - 1 : rb'[(rbTail' + j) % RingBytes] = Len(got) + j + 1
  BY <1>2, <1>3, <1>8, <1>9 DEF Follows
<1>11. rb' \in [0 .. RingBytes - 1 -> Nat]
  BY <1>3, <1>8
<1> QED BY <1>1, <1>3, <1>4, <1>9, <1>10, <1>11

\* The receiving side of a step that changes none of it.
LEMMA RecvStays ==
  ASSUME RecvInv, UNCHANGED <<rcvNxt, ring, peerClosed, got, eof>>
  PROVE  RecvInv'
<1>1. UNCHANGED <<rcvNxt, rb, rbHead, rbTail, peerClosed, got, eof>>
  BY DEF ring
<1> QED BY <1>1 DEF RecvInv, Avail, Acknowledged, Smaller

\* A connection begins, with nothing received.
LEMMA FreshHolds ==
  ASSUME rcvNxt' = 0, rb' = [i \in 0 .. RingBytes - 1 |-> 0], rbHead' = 0, rbTail' = 0,
         peerClosed' = FALSE, got' = <<>>, eof' = FALSE
  PROVE  RecvInv'
<1>1. PeerLen \in Nat /\ RingBytes \in Nat /\ 0 \in 0 .. RingBytes - 1
  BY Lengths
<1>2. Avail' = 0
  <2>1. Span(0, 0) = 0 /\ (0 + RingBytes - 0) % RingBytes = Span(0, 0)
    BY <1>1, SpanIs DEF Span
  <2> QED BY <2>1 DEF Avail
<1>3. Acknowledged' = 0
  BY <1>1 DEF Acknowledged, Smaller
<1>4. /\ rcvNxt' \in 0 .. PeerLen + 1 /\ peerClosed' \in BOOLEAN /\ eof' \in BOOLEAN
      /\ rb' \in [0 .. RingBytes - 1 -> Nat]
      /\ got' \in Seq(Nat) /\ Len(got') = 0
  BY <1>1
<1> QED BY <1>1, <1>2, <1>3, <1>4 DEF RecvInv

\* A piece of the peer's stream arrives: more is acknowledged, and it is there.
LEMMA SegmentKeeps ==
  ASSUME RecvInv, Receive
  PROVE  RecvInv' /\ Acknowledged' \in Acknowledged .. PeerLen /\ UNCHANGED <<got, eof>>
<1>1. PICK seq \in 0 .. PeerLen, len \in 0 .. PeerSeg, fin \in BOOLEAN, ack \in {0, peerGot} :
        Segment(seq, len, fin, ack)
  BY DEF Receive
<1> DEFINE n == Taken(seq, len)
<1>2. /\ seq + len <= PeerLen /\ (fin => seq + len = PeerLen)
      /\ RingPut(n) /\ UNCHANGED <<got, eof>>
      /\ \/ rcvNxt' = rcvNxt + n /\ UNCHANGED peerClosed
         \/ /\ fin /\ seq + len = rcvNxt + n
            /\ rcvNxt' = rcvNxt + n + 1 /\ peerClosed' = TRUE
  BY <1>1 DEF Segment, Finish
<1>3. /\ n \in 0 .. FreeSpace /\ FreeSpace \in Nat
      /\ rcvNxt <= PeerLen => rcvNxt + n <= PeerLen
      /\ rcvNxt = PeerLen + 1 => n = 0
  BY <1>2, TakenFits
<1> HIDE DEF n
<1>4. rcvNxt \in 0 .. PeerLen + 1 /\ PeerLen \in Nat /\ n \in Nat
  BY <1>3, Lengths DEF RecvInv
<1>5. rcvNxt <= PeerLen \/ n = 0
  BY <1>3, <1>4
<1>6. /\ rbHead' \in 0 .. RingBytes - 1 /\ rbTail' \in 0 .. RingBytes - 1
      /\ rb' \in [0 .. RingBytes - 1 -> Nat]
      /\ Avail' = Avail + n
      /\ \A j \in 0 .. Avail' - 1 : rb'[(rbTail' + j) % RingBytes] = Len(got) + j + 1
  BY <1>2, <1>3, <1>5, RingPutKeeps
<1>7. /\ rcvNxt' \in 0 .. PeerLen + 1
      /\ peerClosed' \in BOOLEAN /\ (peerClosed' => rcvNxt' = PeerLen + 1)
      /\ Smaller(rcvNxt', PeerLen) = Smaller(rcvNxt, PeerLen) + n
  <2>1. CASE rcvNxt' = rcvNxt + n /\ UNCHANGED peerClosed
    BY <1>3, <1>4, <2>1 DEF RecvInv, Smaller
  <2>2. CASE /\ fin /\ seq + len = rcvNxt + n
             /\ rcvNxt' = rcvNxt + n + 1 /\ peerClosed' = TRUE
    BY <1>2, <1>3, <1>4, <2>2 DEF Smaller
  <2> QED BY <1>2, <2>1, <2>2
<1>8. got' = got /\ eof' = eof
  BY <1>2
<1>9. Avail \in Nat /\ Len(got) \in Nat
  BY AvailIs, Lengths DEF RecvInv
<1>10. Len(got') + Avail' = Acknowledged'
  BY <1>6, <1>7, <1>8, <1>9, <1>4 DEF RecvInv, Acknowledged
<1>11. RecvInv'
  BY <1>6, <1>7, <1>8, <1>10 DEF RecvInv
<1>12. Acknowledged' \in Acknowledged .. PeerLen
  BY <1>4, <1>7 DEF Acknowledged, Smaller
<1> QED BY <1>8, <1>11, <1>12

\* Going on from the n-th byte, the j-th is the one that was n + j before.
LEMMA GoOn ==
  ASSUME NEW t \in 0 .. RingBytes - 1, NEW n \in Nat, NEW j \in Nat, n + j < RingBytes
  PROVE  (((t + n) % RingBytes) + j) % RingBytes = (t + (n + j)) % RingBytes
<1>1. RingBytes \in Nat /\ RingBytes > 0
  BY Lengths
<1> DEFINE x == t + n
           y == t + (n + j)
<1>2. x \in 0 .. 2 * RingBytes - 1 /\ y \in 0 .. 2 * RingBytes - 1 /\ y = x + j
  BY <1>1
<1>3. x >= RingBytes => y - RingBytes < RingBytes
  BY <1>1
<1> HIDE DEF x, y
<1>4. /\ x % RingBytes = IF x < RingBytes THEN x ELSE x - RingBytes
      /\ y % RingBytes = IF y < RingBytes THEN y ELSE y - RingBytes
  BY <1>2, OneTurn
<1>5. CASE x < RingBytes
  <2>1. (x % RingBytes) + j = y
    BY <1>1, <1>2, <1>4, <1>5
  <2> QED BY <2>1 DEF x, y
<1>6. CASE ~(x < RingBytes)
  <2> DEFINE z == x - RingBytes + j
  <2>1. z \in 0 .. 2 * RingBytes - 1 /\ z < RingBytes /\ z = y - RingBytes /\ ~(y < RingBytes)
    BY <1>1, <1>2, <1>3, <1>6
  <2>2. (x % RingBytes) + j = z
    BY <1>1, <1>2, <1>4, <1>6
  <2> HIDE DEF z
  <2>3. z % RingBytes = z
    BY <2>1, OneTurn
  <2>4. y % RingBytes = z
    BY <1>4, <2>1
  <2> QED BY <2>2, <2>3, <2>4 DEF x, y
<1> QED BY <1>5, <1>6

\* Two sequences of numbers, one after the other.
LEMMA Joined ==
  ASSUME NEW p \in Seq(Nat), NEW r \in Seq(Nat)
  PROVE  /\ p \o r \in Seq(Nat) /\ Len(p \o r) = Len(p) + Len(r)
         /\ \A i \in 1 .. Len(p) + Len(r) :
              (p \o r)[i] = IF i <= Len(p) THEN p[i] ELSE r[i - Len(p)]
OBVIOUS

\* The numbers from 1, continued by some of those that follow.
LEMMA Continued ==
  ASSUME NEW p \in Seq(Nat), NEW q \in Seq(Nat), NEW n \in 0 .. Len(q),
         \A i \in 1 .. Len(p) : p[i] = i, \A i \in 1 .. Len(q) : q[i] = Len(p) + i
  PROVE  /\ p \o SubSeq(q, 1, n) \in Seq(Nat)
         /\ Len(p \o SubSeq(q, 1, n)) = Len(p) + n
         /\ \A i \in 1 .. Len(p) + n : (p \o SubSeq(q, 1, n))[i] = i
<1> DEFINE r == SubSeq(q, 1, n)
<1>1. Len(p) \in Nat /\ Len(q) \in Nat /\ n \in Nat
  OBVIOUS
<1>2. r \in Seq(Nat) /\ Len(r) = n /\ \A i \in 1 .. n : r[i] = q[i]
  BY <1>1
<1>3. \A i \in 1 .. n : r[i] = Len(p) + i
  BY <1>1, <1>2
<1> HIDE DEF r
<1>4. p \o r \in Seq(Nat) /\ Len(p \o r) = Len(p) + n
  BY <1>2, Joined
<1>5. ASSUME NEW i \in 1 .. Len(p) + n
      PROVE  (p \o r)[i] = i
  <2>0. (p \o r)[i] = IF i <= Len(p) THEN p[i] ELSE r[i - Len(p)]
    BY <1>2, Joined
  <2>1. CASE i <= Len(p)
    BY <1>1, <2>0, <2>1
  <2>2. CASE ~(i <= Len(p))
    <3>1. i - Len(p) \in 1 .. n
      BY <1>1, <2>2
    <3>2. (p \o r)[i] = r[i - Len(p)]
      BY <2>0, <2>2
    <3>3. r[i - Len(p)] = Len(p) + (i - Len(p))
      BY <1>3, <3>1
    <3> QED BY <1>1, <3>2, <3>3
  <2> QED BY <2>1, <2>2
<1> QED BY <1>4, <1>5 DEF r

\* The application reads: what it has grows by what leaves the ring.
LEMMA RecvKeeps ==
  ASSUME RecvInv, Recv
  PROVE  /\ RecvInv' /\ Acknowledged' = Acknowledged
         /\ \/ Len(got') \in Len(got) + 1 .. Acknowledged /\ eof' = eof
            \/ Len(got) = PeerLen /\ got' = got /\ eof' = TRUE
<1>1. /\ rbHead \in 0 .. RingBytes - 1 /\ rbTail \in 0 .. RingBytes - 1
      /\ rb \in [0 .. RingBytes - 1 -> Nat]
      /\ got \in Seq(Nat) /\ Len(got) \in Nat /\ PeerLen \in Nat /\ rcvNxt \in 0 .. PeerLen + 1
      /\ Len(got) + Avail = Acknowledged
  BY Lengths DEF RecvInv
<1>2. Avail = Span(rbHead, rbTail) /\ Avail \in 0 .. RingBytes - 1
  BY <1>1, AvailIs
<1>3. UNCHANGED <<rcvNxt, rb, rbHead, peerClosed>>
  BY DEF Recv
<1>4. Acknowledged' = Acknowledged /\ Acknowledged \in 0 .. PeerLen
  BY <1>1, <1>3 DEF Acknowledged, Smaller
<1>5. CASE \E n \in 1 .. Avail : /\ got' = got \o SubSeq(Buffered, 1, n)
                                 /\ rbTail' = (rbTail + n) % RingBytes
                                 /\ UNCHANGED eof
  <2>1. PICK n \in 1 .. Avail : /\ got' = got \o SubSeq(Buffered, 1, n)
                                /\ rbTail' = (rbTail + n) % RingBytes
                                /\ eof' = eof
    BY <1>5
  <2>2. n \in Nat /\ n <= Span(rbHead, rbTail) /\ n >= 1 /\ n <= Avail
    BY <1>2
  <2>3. rbTail' \in 0 .. RingBytes - 1 /\ Span(rbHead, rbTail') = Span(rbHead, rbTail) - n
    BY <1>1, <2>1, <2>2, Moved
  <2>4. Avail' = Avail - n
    <3>1. \A t \in 0 .. RingBytes - 1 : (rbHead + RingBytes - t) % RingBytes = Span(rbHead, t)
      BY <1>1, SpanIs
    <3>2. Avail' = (rbHead + RingBytes - rbTail') % RingBytes
      BY <1>3 DEF Avail
    <3> QED BY <1>2, <2>3, <3>1, <3>2
  <2>5. /\ got' \in Seq(Nat) /\ Len(got') = Len(got) + n
        /\ \A i \in 1 .. Len(got') : got'[i] = i
    <3>1. \A i \in 1 .. Len(got) : got[i] = i
      BY DEF RecvInv
    <3>2. /\ Buffered \in Seq(Nat) /\ Len(Buffered) = Avail
          /\ \A i \in 1 .. Len(Buffered) : Buffered[i] = Len(got) + i
      BY BufferedIs
    <3>3. n \in 0 .. Len(Buffered)
      BY <1>2, <2>2, <3>2
    <3>4. /\ got \o SubSeq(Buffered, 1, n) \in Seq(Nat)
          /\ Len(got \o SubSeq(Buffered, 1, n)) = Len(got) + n
          /\ \A i \in 1 .. Len(got) + n : (got \o SubSeq(Buffered, 1, n))[i] = i
      BY <1>1, <3>1, <3>2, <3>3, Continued
    <3> QED BY <2>1, <3>4
  <2>6. ASSUME NEW j \in 0 .. Avail' - 1
        PROVE  rb'[(rbTail' + j) % RingBytes] = Len(got') + j + 1
    <3>1. j \in Nat /\ n + j \in 0 .. Avail - 1 /\ n + j < RingBytes
      BY <1>2, <2>2, <2>4, Lengths
    <3>2. (rbTail' + j) % RingBytes = (rbTail + (n + j)) % RingBytes
      BY <1>1, <2>1, <2>2, <3>1, GoOn
    <3>3. rb[(rbTail + (n + j)) % RingBytes] = Len(got) + (n + j) + 1
      BY <3>1 DEF RecvInv
    <3>4. Len(got') + j + 1 = Len(got) + (n + j) + 1
      BY <1>1, <2>2, <2>5, <3>1
    <3> QED BY <1>3, <3>2, <3>3, <3>4
  <2>7. Len(got') + Avail' = Acknowledged'
    BY <1>1, <1>2, <1>4, <2>2, <2>4, <2>5
  <2>8. Len(got') \in Len(got) + 1 .. Acknowledged
    BY <1>1, <1>2, <1>4, <2>2, <2>5
  <2>9. eof' => Len(got') = PeerLen
    BY <1>1, <1>2, <1>4, <2>1, <2>8 DEF RecvInv
  <2>10. RecvInv'
    BY <1>1, <1>3, <2>1, <2>3, <2>5, <2>6, <2>7, <2>9 DEF RecvInv
  <2> QED BY <1>4, <2>1, <2>8, <2>10
<1>6. CASE Avail = 0 /\ peerClosed /\ eof' = TRUE /\ UNCHANGED <<got, rbTail>>
  <2>1. Len(got) = PeerLen
    BY <1>1, <1>6 DEF RecvInv, Acknowledged, Smaller
  <2>2. Avail' = Avail
    BY <1>3, <1>6 DEF Avail
  <2>3. RecvInv'
    BY <1>3, <1>4, <1>6, <2>1, <2>2 DEF RecvInv
  <2> QED BY <1>4, <1>6, <2>1, <2>3
<1> QED BY <1>5, <1>6 DEF Recv

-----------------------------------------------------------------------------
(* Every step.                                                             *)

\* A step keeps the invariant, and is one of the byte stream, in its terms.
LEMMA StepKeeps ==
  ASSUME RecvInv, [TcpNext]_tcpVars
  PROVE  /\ RecvInv'
         /\ \/ UNCHANGED <<Acknowledged, got, eof>>
            \/ Acknowledged' = 0 /\ got' = <<>> /\ eof' = FALSE
            \/ Acknowledged' \in Acknowledged + 1 .. PeerLen /\ UNCHANGED <<got, eof>>
            \/ /\ Len(got') \in Len(got) + 1 .. Acknowledged
               /\ UNCHANGED <<Acknowledged, eof>>
            \/ Len(got) = PeerLen /\ eof' = TRUE /\ UNCHANGED <<Acknowledged, got>>
<1>1. CASE UNCHANGED <<rcvNxt, ring, peerClosed, got, eof>>
  BY <1>1, RecvStays DEF Acknowledged, Smaller
<1>2. CASE Connect
  <2>1. /\ rcvNxt' = 0 /\ rb' = [i \in 0 .. RingBytes - 1 |-> 0] /\ rbHead' = 0 /\ rbTail' = 0
        /\ peerClosed' = FALSE /\ got' = <<>> /\ eof' = FALSE
    BY <1>2 DEF Connect, Fresh
  <2>2. Acknowledged' = 0
    BY <2>1, Lengths DEF Acknowledged, Smaller
  <2> QED BY <2>1, <2>2, FreshHolds
<1>3. CASE Receive
  <2>1. RecvInv' /\ Acknowledged' \in Acknowledged .. PeerLen /\ UNCHANGED <<got, eof>>
    BY <1>3, SegmentKeeps
  <2>2. Acknowledged \in Nat /\ PeerLen \in Nat
    BY Lengths DEF RecvInv, Acknowledged, Smaller
  <2>3. Acknowledged' = Acknowledged \/ Acknowledged' \in Acknowledged + 1 .. PeerLen
    BY <2>1, <2>2
  <2> QED BY <2>1, <2>3
<1>4. CASE Recv
  BY <1>4, RecvKeeps
<1>5. CASE SynAck
  BY <1>1, <1>5 DEF SynAck
<1>6. CASE TcpReset
  BY <1>1, <1>6 DEF TcpReset
<1>7. CASE TcpSend
  BY <1>1, <1>7 DEF TcpSend
<1>8. CASE RtxTick
  BY <1>1, <1>8 DEF RtxTick
<1>9. CASE Lose
  BY <1>1, <1>9 DEF Lose
<1>10. CASE PeerTakes
  BY <1>1, <1>10 DEF PeerTakes
<1>11. CASE Close
  BY <1>1, <1>11 DEF Close
<1>12. CASE UNCHANGED tcpVars
  BY <1>1, <1>12 DEF tcpVars, ring
<1> QED BY <1>2, <1>3, <1>4, <1>5, <1>6, <1>7, <1>8, <1>9, <1>10, <1>11, <1>12 DEF TcpNext

\* At first nothing has been received.
LEMMA InitHolds == TcpInit => RecvInv /\ Acknowledged = 0 /\ got = <<>> /\ eof = FALSE
<1> SUFFICES ASSUME TcpInit PROVE RecvInv /\ Acknowledged = 0 /\ got = <<>> /\ eof = FALSE
  OBVIOUS
<1>1. PeerLen \in Nat /\ RingBytes \in Nat /\ 0 \in 0 .. RingBytes - 1
  BY Lengths
<1>2. /\ rcvNxt = 0 /\ rb = [i \in 0 .. RingBytes - 1 |-> 0] /\ rbHead = 0 /\ rbTail = 0
      /\ peerClosed = FALSE /\ got = <<>> /\ eof = FALSE
  BY DEF TcpInit
<1>3. Avail = 0
  BY <1>1, <1>2, AvailIs DEF Span
<1>4. Acknowledged = 0
  BY <1>1, <1>2 DEF Acknowledged, Smaller
<1>5. /\ rcvNxt \in 0 .. PeerLen + 1 /\ peerClosed \in BOOLEAN /\ eof \in BOOLEAN
      /\ rb \in [0 .. RingBytes - 1 -> Nat]
      /\ got \in Seq(Nat) /\ Len(got) = 0
  BY <1>1, <1>2
<1> QED BY <1>1, <1>2, <1>3, <1>4, <1>5 DEF RecvInv

\* The invariant holds throughout.
LEMMA AlwaysRecvInv == TcpSpec => []RecvInv
<1>1. RecvInv /\ [TcpNext]_tcpVars => RecvInv'
  BY StepKeeps
<1> QED BY <1>1, InitHolds, PTL DEF TcpSpec

\* The numbers from 1 to n are what any sequence of them is.
LEMMA Counted ==
  ASSUME NEW s \in Seq(Nat), \A i \in 1 .. Len(s) : s[i] = i
  PROVE  s = [i \in 1 .. Len(s) |-> i]
OBVIOUS

\* Nothing that was acknowledged to the peer is lost, repeated or out of order:
\* it is what the application has read and what the ring holds, for a ring of
\* any size (tcp_handle, tcp_recv).
THEOREM KeptWhenAcked == TcpSpec => []AckedIsKept
<1>1. RecvInv => AckedIsKept
  <2> SUFFICES ASSUME RecvInv PROVE AckedIsKept
    OBVIOUS
  <2>1. /\ Buffered \in Seq(Nat) /\ Len(Buffered) = Avail /\ Avail \in Nat
        /\ \A i \in 1 .. Avail : Buffered[i] = Len(got) + i
    BY BufferedIs, AvailIs DEF RecvInv
  <2>2. /\ got \in Seq(Nat) /\ Len(got) \in Nat /\ \A i \in 1 .. Len(got) : got[i] = i
        /\ Len(got) + Avail = Acknowledged
    BY DEF RecvInv
  <2> DEFINE s == got \o Buffered
  <2>3. /\ s \in Seq(Nat) /\ Len(s) = Acknowledged
        /\ \A i \in 1 .. Acknowledged : s[i] = IF i <= Len(got) THEN got[i] ELSE Buffered[i - Len(got)]
    BY <2>1, <2>2, Joined
  <2>4. ASSUME NEW i \in 1 .. Acknowledged
        PROVE  s[i] = i
    <3>1. CASE i <= Len(got)
      BY <2>1, <2>2, <2>3, <3>1
    <3>2. CASE ~(i <= Len(got))
      <4>1. i - Len(got) \in 1 .. Avail
        BY <2>1, <2>2, <3>2
      <4>2. Buffered[i - Len(got)] = Len(got) + (i - Len(got))
        BY <2>1, <4>1
      <4>3. s[i] = Buffered[i - Len(got)]
        BY <2>3, <3>2, Zenon
      <4> QED BY <2>1, <2>2, <4>2, <4>3
    <3> QED BY <3>1, <3>2
  <2> HIDE DEF s
  <2>5. s = [i \in 1 .. Len(s) |-> i]
    BY <2>3, <2>4, Counted
  <2> QED BY <2>3, <2>5 DEF AckedIsKept, Acknowledged, s
<1> QED BY <1>1, AlwaysRecvInv, PTL

-----------------------------------------------------------------------------
(* The refinement.                                                         *)

Bytes == [i \in 1 .. PeerLen |-> i]

\* The first n elements of a sequence.
LEMMA Cut ==
  ASSUME NEW q \in Seq(Nat), NEW n \in 0 .. Len(q)
  PROVE  /\ SubSeq(q, 1, n) \in Seq(Nat) /\ Len(SubSeq(q, 1, n)) = n
         /\ \A i \in 1 .. n : SubSeq(q, 1, n)[i] = q[i]
OBVIOUS

\* What has been read is a beginning of what the peer sends.
LEMMA Beginning ==
  ASSUME NEW s \in Seq(Nat), \A i \in 1 .. Len(s) : s[i] = i, Len(s) <= PeerLen
  PROVE  s = SubSeq(Bytes, 1, Len(s)) /\ (Len(s) = PeerLen => s = Bytes)
<1>1. PeerLen \in Nat /\ Len(s) \in Nat
  BY Lengths
<1>2. Bytes \in Seq(Nat) /\ Len(Bytes) = PeerLen
  BY <1>1 DEF Bytes
<1>3. /\ SubSeq(Bytes, 1, Len(s)) \in Seq(Nat) /\ Len(SubSeq(Bytes, 1, Len(s))) = Len(s)
      /\ \A i \in 1 .. Len(s) : SubSeq(Bytes, 1, Len(s))[i] = i
  <2> DEFINE n == Len(s)
             q == Bytes
  <2>1. n \in 0 .. Len(q) /\ q \in Seq(Nat) /\ n \in Nat
    BY <1>1, <1>2
  <2>2. \A i \in 1 .. n : q[i] = i
    BY <1>1 DEF Bytes
  <2> HIDE DEF n, q
  <2>3. SubSeq(q, 1, n) \in Seq(Nat) /\ Len(SubSeq(q, 1, n)) = n
    BY <2>1, Cut
  <2>4. \A i \in 1 .. n : SubSeq(q, 1, n)[i] = i
    BY <2>1, <2>2, Cut
  <2> QED BY <2>3, <2>4 DEF n, q
<1>4. s = [i \in 1 .. Len(s) |-> i]
  BY Counted
<1>5. SubSeq(Bytes, 1, Len(s)) = [i \in 1 .. Len(s) |-> i]
  BY <1>3, Counted
<1> QED BY <1>4, <1>5 DEF Bytes

\* A connection implements a byte stream, whatever its peer sends and the
\* network does to it: the reader has each byte once and in order, and the end
\* only after the last (tcp_handle, tcp_recv).
THEOREM ConnectionIsStream == TcpSpec => ByteStreamSpec
<1>1. TcpInit => S!StreamInit
  BY InitHolds DEF S!StreamInit, Acknowledged
<1>2. ASSUME RecvInv, RecvInv', [TcpNext]_tcpVars
      PROVE  [S!StreamNext]_(S!streamVars)
  <2>1. /\ got \in Seq(Nat) /\ Len(got) \in Nat /\ PeerLen \in Nat
        /\ \A i \in 1 .. Len(got) : got[i] = i
        /\ Acknowledged \in 0 .. PeerLen /\ Len(got) <= Acknowledged
    <3>1. /\ got \in Seq(Nat) /\ Len(got) \in Nat /\ PeerLen \in Nat
          /\ \A i \in 1 .. Len(got) : got[i] = i
      BY <1>2, Lengths DEF RecvInv
    <3>2. Len(got) + Avail = Acknowledged /\ Avail \in Nat
      BY <1>2, AvailIs, Lengths DEF RecvInv
    <3>3. Acknowledged \in 0 .. PeerLen
      BY <1>2, Lengths DEF RecvInv, Acknowledged, Smaller
    <3>4. Len(got) <= Acknowledged
      BY <3>1, <3>2, <3>3
    <3> QED BY <3>1, <3>3, <3>4
  <2>2. got' \in Seq(Nat) /\ \A i \in 1 .. Len(got') : got'[i] = i
    BY <1>2 DEF RecvInv
  <2>3. Len(Bytes) = PeerLen
    BY <2>1 DEF Bytes
  <2>4. CASE UNCHANGED <<Acknowledged, got, eof>>
    BY <2>4 DEF S!streamVars, Acknowledged
  <2>5. CASE Acknowledged' = 0 /\ got' = <<>> /\ eof' = FALSE
    BY <2>5 DEF S!StreamNext, S!Anew, Acknowledged
  <2>6. CASE Acknowledged' \in Acknowledged + 1 .. PeerLen /\ UNCHANGED <<got, eof>>
    BY <2>3, <2>6 DEF S!StreamNext, S!Promise, Acknowledged, Bytes
  <2>7. CASE Len(got') \in Len(got) + 1 .. Acknowledged /\ UNCHANGED <<Acknowledged, eof>>
    <3>1. Len(got') <= PeerLen /\ Len(got) # PeerLen
      BY <2>1, <2>7
    <3>2. got' = SubSeq(Bytes, 1, Len(got'))
      BY <2>2, <3>1, Beginning
    <3>3. ~eof
      BY <1>2, <3>1 DEF RecvInv
    <3> QED BY <2>7, <3>2, <3>3 DEF S!StreamNext, S!Deliver, Acknowledged, Bytes
  <2>8. CASE Len(got) = PeerLen /\ eof' = TRUE /\ UNCHANGED <<Acknowledged, got>>
    <3>1. got = Bytes
      BY <2>1, <2>8, Beginning
    <3> QED BY <2>8, <3>1 DEF S!StreamNext, S!End, Acknowledged, Bytes
  <2> QED BY <1>2, <2>4, <2>5, <2>6, <2>7, <2>8, StepKeeps
<1>3. RecvInv /\ RecvInv' /\ [TcpNext]_tcpVars => [S!StreamNext]_(S!streamVars)
  BY <1>2
<1> QED BY <1>1, <1>3, AlwaysRecvInv, PTL DEF TcpSpec, ByteStreamSpec, S!StreamSpec

-----------------------------------------------------------------------------
(* Types.                                                                  *)

\* What was sent and not acknowledged lies below snd_nxt, and a connection that is
\* not closed yet has a number left for its FIN.
SendInv ==
  /\ tstat \in {"FREE", "SYN_SENT", "ESTAB", "FIN_WAIT", "CLOSE_WAIT"}
  /\ sndNxt \in 1 .. Sends + 3
  /\ tstat \in {"SYN_SENT", "ESTAB", "CLOSE_WAIT"} => sndNxt <= Sends + 2
  /\ sndUna \in 0 .. sndNxt
  /\ rtx \in [len : {0, 1}, seq : 0 .. Sends + 1, tries : 0 .. Tries]
  /\ rtx.len > 0 => rtx.seq \in 1 .. Sends + 1 /\ rtx.seq < sndNxt
  /\ wire \subseteq 1 .. Sends /\ \A s \in wire : s < sndNxt
  /\ peerGot \in 1 .. Sends + 1 /\ peerGot <= sndNxt

\* The ring holds bytes of the peer's stream, or what it was cleared with.
RingBytesOf == rb \in [0 .. RingBytes - 1 -> 0 .. PeerLen]

LEMMA FreshSends ==
  ASSUME tstat' \in {"FREE", "SYN_SENT"}, sndNxt' = 1, sndUna' = 0, rtx' = NoRtx, wire' = {}, peerGot' = 1
  PROVE  SendInv'
<1>1. NoRtx \in [len : {0, 1}, seq : 0 .. Sends + 1, tries : 0 .. Tries] /\ NoRtx.len = 0
  BY Lengths DEF NoRtx
<1> QED BY <1>1, Lengths DEF SendInv

\* An acknowledgement is of what was sent.
LEMMA AckedSends ==
  ASSUME SendInv, NEW ack \in {0, peerGot}, Acked(ack), UNCHANGED <<sndNxt, wire, peerGot>>,
         tstat' \in {"FREE", "FIN_WAIT", "CLOSE_WAIT", tstat}, tstat' = "CLOSE_WAIT" => tstat \in {"ESTAB", "CLOSE_WAIT"}
  PROVE  SendInv'
<1>1. sndUna' \in 0 .. sndNxt
  BY Lengths DEF Acked, SendInv
<1>2. rtx' \in {rtx, NoRtx}
  BY DEF Acked
<1>3. NoRtx \in [len : {0, 1}, seq : 0 .. Sends + 1, tries : 0 .. Tries] /\ NoRtx.len = 0
  BY Lengths DEF NoRtx
<1> QED BY <1>1, <1>2, <1>3, Lengths DEF SendInv

LEMMA SegmentSends ==
  ASSUME SendInv, Receive
  PROVE  SendInv'
<1>1. PICK seq \in 0 .. PeerLen, len \in 0 .. PeerSeg, fin \in BOOLEAN, ack \in {0, peerGot} :
        Segment(seq, len, fin, ack)
  BY DEF Receive
<1>2. Acked(ack) /\ UNCHANGED <<sndNxt, wire, peerGot>>
  BY <1>1 DEF Segment
<1>3. tstat \in {"ESTAB", "FIN_WAIT", "CLOSE_WAIT"}
  BY <1>1 DEF Segment
<1>4. \/ tstat' = tstat
      \/ tstat' = CASE tstat = "ESTAB"    -> "CLOSE_WAIT"
                     [] tstat = "FIN_WAIT" -> "FREE"
                     [] OTHER              -> tstat
  BY <1>1, Zenon DEF Segment, Finish
<1>5. /\ tstat' \in {"FREE", "FIN_WAIT", "CLOSE_WAIT", tstat}
      /\ tstat' = "CLOSE_WAIT" => tstat \in {"ESTAB", "CLOSE_WAIT"}
  BY <1>3, <1>4
<1> QED BY <1>2, <1>5, AckedSends

LEMMA SendKeeps ==
  ASSUME SendInv, TcpSend
  PROVE  SendInv'
<1>1. PICK n \in {1, 2} :
        LET last == Smaller(sndNxt + n - 1, Sends + 1)
        IN  /\ sndNxt' = last + 1
            /\ wire' = wire \cup Sent(sndNxt, last)
            /\ rtx' = [len |-> 1, seq |-> last, tries |-> 0]
  BY DEF TcpSend
<1> DEFINE last == Smaller(sndNxt + n - 1, Sends + 1)
<1>2. tstat = "ESTAB" /\ UNCHANGED <<tstat, sndUna, peerGot>>
  BY DEF TcpSend
<1>3. last \in 1 .. Sends + 1 /\ sndNxt <= last + 1
  BY <1>2, Lengths DEF SendInv, Smaller
<1>4. /\ sndNxt' = last + 1 /\ rtx' = [len |-> 1, seq |-> last, tries |-> 0]
      /\ wire' = wire \cup Sent(sndNxt, last)
  BY <1>1
<1> HIDE DEF last
<1>5. /\ rtx' \in [len : {0, 1}, seq : 0 .. Sends + 1, tries : 0 .. Tries]
      /\ rtx'.seq \in 1 .. Sends + 1 /\ rtx'.seq < sndNxt'
  BY <1>3, <1>4, Lengths
<1>6. wire' \subseteq 1 .. Sends /\ \A s \in wire' : s < sndNxt'
  BY <1>3, <1>4, Lengths DEF SendInv, Sent
<1> QED BY <1>2, <1>3, <1>4, <1>5, <1>6, Lengths DEF SendInv

LEMMA RtxKeeps ==
  ASSUME SendInv, RtxTick
  PROVE  SendInv'
<1>1. CASE rtx.tries >= Tries
  BY <1>1, Lengths DEF RtxTick, SendInv
<1>2. CASE ~(rtx.tries >= Tries)
  <2>1. /\ rtx' = [rtx EXCEPT !.tries = @ + 1] /\ wire' = wire \cup Sent(rtx.seq, rtx.seq) /\ rtx.len > 0
        /\ UNCHANGED <<tstat, sndNxt, sndUna, peerGot>>
    BY <1>2 DEF RtxTick
  <2>2. rtx' \in [len : {0, 1}, seq : 0 .. Sends + 1, tries : 0 .. Tries] /\ rtx'.seq = rtx.seq
    BY <1>2, <2>1, Lengths DEF SendInv
  <2>3. wire' \subseteq 1 .. Sends /\ \A s \in wire' : s < sndNxt
    BY <2>1, Lengths DEF SendInv, Sent
  <2> QED BY <2>1, <2>2, <2>3, Lengths DEF SendInv
<1> QED BY <1>1, <1>2

LEMMA SendInvKept ==
  ASSUME SendInv, [TcpNext]_tcpVars
  PROVE  SendInv'
<1>1. CASE Connect
  BY <1>1, FreshSends DEF Connect, Fresh
<1>2. CASE SynAck
  BY <1>2, Lengths DEF SynAck, SendInv
<1>3. CASE TcpReset
  BY <1>3, Lengths DEF TcpReset, SendInv
<1>4. CASE Lose
  BY <1>4, Lengths DEF Lose, SendInv
<1>5. CASE PeerTakes
  BY <1>5, Lengths DEF PeerTakes, SendInv
<1>6. CASE Recv
  BY <1>6, Lengths DEF Recv, SendInv
<1>7. CASE Close
  BY <1>7, Lengths DEF Close, SendInv
<1>8. CASE UNCHANGED tcpVars
  BY <1>8 DEF tcpVars, SendInv
<1> QED BY <1>1, <1>2, <1>3, <1>4, <1>5, <1>6, <1>7, <1>8,
           SegmentSends, SendKeeps, RtxKeeps DEF TcpNext

LEMMA RingBytesKept ==
  ASSUME RecvInv, RingBytesOf, [TcpNext]_tcpVars
  PROVE  RingBytesOf'
<1>1. CASE rb' = rb
  BY <1>1 DEF RingBytesOf
<1>2. CASE Connect
  BY <1>2, Lengths DEF Connect, Fresh, RingBytesOf
<1>3. CASE Receive
  <2>1. PICK seq \in 0 .. PeerLen, len \in 0 .. PeerSeg : seq + len <= PeerLen /\ RingPut(Taken(seq, len))
    BY <1>3 DEF Receive, Segment
  <2> DEFINE n == Taken(seq, len)
  <2>2. /\ n \in Nat
        /\ rcvNxt <= PeerLen => rcvNxt + n <= PeerLen
        /\ rcvNxt = PeerLen + 1 => n = 0
        /\ rcvNxt \in 0 .. PeerLen + 1
    BY <2>1, TakenFits DEF RecvInv
  <2>3. rb' = [i \in 0 .. RingBytes - 1 |->
                LET k == (i + RingBytes - rbHead) % RingBytes
                IN  IF k < n THEN rcvNxt + k + 1 ELSE rb[i]]
    BY <2>1 DEF RingPut, RingBytesOf
  <2> HIDE DEF n
  <2>4. \A i \in 0 .. RingBytes - 1 : (i + RingBytes - rbHead) % RingBytes \in Nat
    BY Lengths DEF RecvInv
  <2>5. \A k \in Nat : k < n => rcvNxt + k + 1 \in 0 .. PeerLen
    BY <2>2, Lengths
  <2> QED BY <2>3, <2>4, <2>5 DEF RingBytesOf
<1> QED BY <1>1, <1>2, <1>3
        DEF TcpNext, SynAck, TcpReset, TcpSend, RtxTick, Lose, PeerTakes, Recv, Close, ring, tcpVars

\* What the application has read consists of bytes of the peer's stream.
LEMMA GotType ==
  ASSUME RecvInv
  PROVE  got \in Seq(1 .. PeerLen)
<1>1. /\ got \in Seq(Nat) /\ Len(got) \in Nat /\ \A i \in 1 .. Len(got) : got[i] = i
      /\ Len(got) + Avail = Acknowledged /\ Avail \in Nat
  BY AvailIs DEF RecvInv
<1>2. Acknowledged \in 0 .. PeerLen
  BY Lengths DEF RecvInv, Acknowledged, Smaller
<1>3. \A i \in 1 .. Len(got) : got[i] \in 1 .. PeerLen
  BY <1>1, <1>2, Lengths
<1> DEFINE T == 1 .. PeerLen
<1>4. got \in [1 .. Len(got) -> T]
  BY <1>1, <1>3
<1> HIDE DEF T
<1>5. got \in Seq(T)
  BY <1>1, <1>4
<1> QED BY <1>5 DEF T

\* Sequence numbers, the stashed segment and the ring stay within their bounds,
\* whatever is lost, repeated or acknowledged, through closing and reuse.
THEOREM TcpTypeCorrect == TcpSpec => []TcpTypeOK
<1>1. TcpInit => SendInv /\ RingBytesOf
  <2> SUFFICES ASSUME TcpInit PROVE SendInv /\ RingBytesOf
    OBVIOUS
  <2>1. NoRtx \in [len : {0, 1}, seq : 0 .. Sends + 1, tries : 0 .. Tries] /\ NoRtx.len = 0
    BY Lengths DEF NoRtx
  <2> QED BY <2>1, Lengths DEF TcpInit, SendInv, RingBytesOf
<1>2. RecvInv /\ SendInv /\ RingBytesOf /\ [TcpNext]_tcpVars => SendInv' /\ RingBytesOf'
  BY SendInvKept, RingBytesKept
<1>3. RecvInv /\ SendInv /\ RingBytesOf => TcpTypeOK
  BY GotType DEF RecvInv, SendInv, RingBytesOf, TcpTypeOK
<1> QED BY <1>1, <1>2, <1>3, AlwaysRecvInv, PTL DEF TcpSpec

=============================================================================
