--------------------------------- MODULE Tcp ---------------------------------
(***************************************************************************)
(* One connection slot of the TCP in src/net/net.c, from tcp_connect to    *)
(* its reuse, against a peer and a network that lose, repeat and reorder   *)
(* segments.                                                               *)
(*                                                                         *)
(* Sequence numbers count from the connection's own start on either side   *)
(* (tcp_connect always starts at 0, and a connection is short of 2^31      *)
(* bytes).  The peer is external: it has PeerLen bytes to send, byte i     *)
(* with the value i, and then closes; at any time any piece of that stream *)
(* may arrive, with the FIN if it reaches the end, and with any            *)
(* acknowledgement the peer has given so far.  The slot's own segments     *)
(* hold one byte.  The application sends for as long as it likes: its      *)
(* first Sends bytes are told apart, the number Sends + 1 stands for every *)
(* later one, and the network loses those.  Left out: the SYN of the       *)
(* handshake, which changes nothing when it is sent again; segments for no *)
(* connection, answered with a RST; windows, which the peer may disregard; *)
(* checksums.                                                              *)
(***************************************************************************)
EXTENDS Integers, Sequences

CONSTANTS
  PeerLen,   \* how many bytes the peer sends
  PeerSeg,   \* the longest segment of the peer
  RingBytes, \* TCP_RB_BYTES
  Sends,     \* how many bytes of a connection the network may deliver
  Tries      \* TCP_RTO_TRIES

ASSUME TcpAssumption ==
  /\ {PeerLen, Sends, Tries} \subseteq Nat
  /\ {PeerSeg, RingBytes} \subseteq Nat \ {0}

VARIABLES
  tstat,      \* state of the slot, FREE when not in use
  sndNxt,     \* snd_nxt
  sndUna,     \* snd_una
  rtx,        \* rtx_len, rtx_seq and rtx_tries
  rcvNxt,     \* rcv_nxt, less the peer's first sequence number
  rb,         \* the receive ring
  rbHead,     \* rb_head
  rbTail,     \* rb_tail
  peerClosed, \* peer_closed
  wire,       \* own data segments under way
  peerGot,    \* the byte the peer expects next
  got,        \* what tcp_recv has returned to the application
  eof         \* tcp_recv has returned 0

tcpVars == <<tstat, sndNxt, sndUna, rtx, rcvNxt, rb, rbHead, rbTail,
             peerClosed, wire, peerGot, got, eof>>

ring == <<rb, rbHead, rbTail>>

Avail     == (rbHead + RingBytes - rbTail) % RingBytes
FreeSpace == RingBytes - Avail - 1
Buffered  == [i \in 1 .. Avail |-> rb[(rbTail + i - 1) % RingBytes]]
Smaller(a, b) == IF a < b THEN a ELSE b

NoRtx == [len |-> 0, seq |-> 0, tries |-> 0]

Fresh ==
  /\ sndNxt' = 1 /\ sndUna' = 0 /\ rtx' = NoRtx
  /\ rcvNxt' = 0 /\ rb' = [i \in 0 .. RingBytes - 1 |-> 0] /\ rbHead' = 0 /\ rbTail' = 0
  /\ peerClosed' = FALSE /\ wire' = {} /\ peerGot' = 1 /\ got' = <<>> /\ eof' = FALSE

TcpInit ==
  /\ tstat = "FREE"
  /\ sndNxt = 1 /\ sndUna = 0 /\ rtx = NoRtx
  /\ rcvNxt = 0 /\ rb = [i \in 0 .. RingBytes - 1 |-> 0] /\ rbHead = 0 /\ rbTail = 0
  /\ peerClosed = FALSE /\ wire = {} /\ peerGot = 1 /\ got = <<>> /\ eof = FALSE

-----------------------------------------------------------------------------
\* tcp_connect, with the slot free or its time to linger over (tcp_slot_scan).
Connect ==
  /\ tstat \in {"FREE", "FIN_WAIT"}
  /\ tstat' = "SYN_SENT"
  /\ Fresh

\* The SYN-ACK, whatever it acknowledges, in tcp_handle.
SynAck ==
  /\ tstat = "SYN_SENT"
  /\ tstat' = "ESTAB"
  /\ sndUna' = sndNxt
  /\ UNCHANGED <<sndNxt, rtx, rcvNxt, ring, peerClosed, wire, peerGot, got, eof>>

\* A RST, or tcp_connect gives up.
TcpReset ==
  /\ tstat # "FREE"
  /\ tstat' = "FREE"
  /\ UNCHANGED <<sndNxt, sndUna, rtx, rcvNxt, ring, peerClosed, wire, peerGot, got, eof>>

\* tcp_handle: the acknowledgement retires the stashed segment.
Acked(ack) ==
  LET una == IF ack > sndUna THEN ack ELSE sndUna
  IN  /\ sndUna' = una
      /\ rtx' = IF rtx.len > 0 /\ una >= rtx.seq + rtx.len THEN NoRtx ELSE rtx

\* A segment that begins in what was already taken is trimmed to its new tail.
Trimmed(seq, len) ==
  IF seq < rcvNxt /\ rcvNxt < seq + len THEN rcvNxt ELSE seq

\* A bug: the ring is taken to have room for everything.
TakenUnbounded(seq, len) ==
  LET from == Trimmed(seq, len) IN IF from = rcvNxt THEN seq + len - from ELSE 0

\* A bug: a segment that does not fit as a whole is dropped.
TakenWhole(seq, len) ==
  LET from == Trimmed(seq, len)
  IN  IF from = rcvNxt /\ seq + len - from <= FreeSpace THEN seq + len - from ELSE 0

\* How much of the segment goes into the ring: it has to be next, and to fit.
Taken(seq, len) ==
  LET from == Trimmed(seq, len)
  IN  IF from = rcvNxt THEN Smaller(seq + len - from, FreeSpace) ELSE 0

\* A bug: the head of the ring runs past its end.
RingPutFlat(n) ==
  /\ rb' = [i \in DOMAIN rb |->
              LET k == (i + RingBytes - rbHead) % RingBytes
              IN  IF k < n THEN rcvNxt + k + 1 ELSE rb[i]]
  /\ rbHead' = rbHead + n
  /\ UNCHANGED rbTail

RingPut(n) ==
  /\ rb' = [i \in DOMAIN rb |->
              LET k == (i + RingBytes - rbHead) % RingBytes
              IN  IF k < n THEN rcvNxt + k + 1 ELSE rb[i]]
  /\ rbHead' = (rbHead + n) % RingBytes
  /\ UNCHANGED rbTail

\* A bug: a FIN counts although the segment was cut short or came too early.
FinishAlways(end, upto) ==
  /\ rcvNxt' = upto + 1
  /\ peerClosed' = TRUE
  /\ tstat' = CASE tstat = "ESTAB"    -> "CLOSE_WAIT"
                [] tstat = "FIN_WAIT" -> "FREE"
                [] OTHER              -> tstat

\* A FIN counts if nothing is missing in front of it.
Finish(end, upto) ==
  IF end # upto
  THEN rcvNxt' = upto /\ UNCHANGED <<peerClosed, tstat>>
  ELSE /\ rcvNxt' = upto + 1
       /\ peerClosed' = TRUE
       /\ tstat' = CASE tstat = "ESTAB"    -> "CLOSE_WAIT"
                     [] tstat = "FIN_WAIT" -> "FREE"
                     [] OTHER              -> tstat

\* tcp_handle on an open connection, for a piece of the peer's stream.
Segment(seq, len, fin, ack) ==
  /\ tstat \in {"ESTAB", "FIN_WAIT", "CLOSE_WAIT"}
  /\ seq + len <= PeerLen /\ (fin => seq + len = PeerLen)
  /\ Acked(ack)
  /\ LET n == Taken(seq, len)
     IN  /\ RingPut(n)
         /\ IF fin
            THEN Finish(seq + len, rcvNxt + n)
            ELSE rcvNxt' = rcvNxt + n /\ UNCHANGED <<peerClosed, tstat>>
  /\ UNCHANGED <<sndNxt, wire, peerGot, got, eof>>

Receive ==
  \E seq \in 0 .. PeerLen, len \in 0 .. PeerSeg, fin \in BOOLEAN, ack \in {0, peerGot} :
    Segment(seq, len, fin, ack)

\* What is sent of the bytes m .. n, as far as the network may deliver it.
Sent(m, n) == (m .. n) \cap (1 .. Sends)

\* A bug: the first of the segments is kept, as nothing is known of the others.
TcpSendFirst ==
  /\ tstat = "ESTAB"
  /\ \E n \in {1, 2} :
       LET last == Smaller(sndNxt + n - 1, Sends + 1)
       IN  /\ sndNxt' = last + 1
           /\ wire' = wire \cup Sent(sndNxt, last)
           /\ rtx' = [len |-> 1, seq |-> Smaller(sndNxt, last), tries |-> 0]
  /\ UNCHANGED <<tstat, sndUna, rcvNxt, ring, peerClosed, peerGot, got, eof>>

\* tcp_send: one or two segments, of which the last is kept for tcp_rtx_tick, in
\* the place of one that may still be unacknowledged, and with its tries unspent.
TcpSend ==
  /\ tstat = "ESTAB"
  /\ \E n \in {1, 2} :
       LET last == Smaller(sndNxt + n - 1, Sends + 1)
       IN  /\ sndNxt' = last + 1
           /\ wire' = wire \cup Sent(sndNxt, last)
           /\ rtx' = [len |-> 1, seq |-> last, tries |-> 0]
  /\ UNCHANGED <<tstat, sndUna, rcvNxt, ring, peerClosed, peerGot, got, eof>>

\* tcp_rtx_tick, 400 ms after it or tcp_send last sent the stashed segment: the
\* segment once more, or the connection is dead.
RtxTick ==
  /\ tstat = "ESTAB" /\ rtx.len > 0
  /\ IF rtx.tries >= Tries
     THEN tstat' = "FREE" /\ UNCHANGED <<rtx, wire>>
     ELSE /\ rtx' = [rtx EXCEPT !.tries = @ + 1]
          /\ wire' = wire \cup Sent(rtx.seq, rtx.seq)
          /\ UNCHANGED tstat
  /\ UNCHANGED <<sndNxt, sndUna, rcvNxt, ring, peerClosed, peerGot, got, eof>>

\* A segment is lost, or reaches the peer, which takes it if it is the next.
Lose ==
  /\ \E s \in wire : wire' = wire \ {s}
  /\ UNCHANGED <<tstat, sndNxt, sndUna, rtx, rcvNxt, ring, peerClosed, peerGot, got, eof>>

PeerTakes ==
  /\ peerGot \in wire
  /\ peerGot' = peerGot + 1
  /\ UNCHANGED <<tstat, sndNxt, sndUna, rtx, rcvNxt, ring, peerClosed, wire, got, eof>>

\* tcp_recv.
Recv ==
  /\ tstat \in {"ESTAB", "CLOSE_WAIT"}
  /\ \/ \E n \in 1 .. Avail :
          /\ got' = got \o SubSeq(Buffered, 1, n)
          /\ rbTail' = (rbTail + n) % RingBytes
          /\ UNCHANGED eof
     \/ /\ Avail = 0 /\ peerClosed
        /\ eof' = TRUE
        /\ UNCHANGED <<got, rbTail>>
  /\ UNCHANGED <<tstat, sndNxt, sndUna, rtx, rcvNxt, rb, rbHead, peerClosed, wire, peerGot>>

\* tcp_close: a FIN, and the slot lingers for what the peer still sends.
Close ==
  /\ tstat \in {"SYN_SENT", "ESTAB", "CLOSE_WAIT"}
  /\ IF tstat = "SYN_SENT"
     THEN tstat' = "FREE" /\ UNCHANGED sndNxt
     ELSE tstat' = "FIN_WAIT" /\ sndNxt' = sndNxt + 1
  /\ UNCHANGED <<sndUna, rtx, rcvNxt, ring, peerClosed, wire, peerGot, got, eof>>

TcpNext ==
  \/ Connect \/ SynAck \/ TcpReset \/ Receive \/ TcpSend \/ RtxTick
  \/ Lose \/ PeerTakes \/ Recv \/ Close

TcpSpec == TcpInit /\ [][TcpNext]_tcpVars

\* The peer sends again what is not acknowledged, with or without its FIN,
\* net_tick runs, and the application reads.
PeerResends ==
  /\ rcvNxt < PeerLen
  /\ LET left == Smaller(PeerSeg, PeerLen - rcvNxt)
     IN  \E fin \in BOOLEAN, ack \in {0, peerGot} : Segment(rcvNxt, left, fin, ack)

TcpFairSpec ==
  TcpSpec /\ WF_tcpVars(PeerResends) /\ WF_tcpVars(RtxTick) /\ WF_tcpVars(Recv)

-----------------------------------------------------------------------------
(* Properties.                                                             *)

\* Every variable holds a value of its type.
TcpTypeOK ==
  /\ tstat \in {"FREE", "SYN_SENT", "ESTAB", "FIN_WAIT", "CLOSE_WAIT"}
  /\ sndNxt \in 1 .. Sends + 3 /\ sndUna \in 0 .. sndNxt
  /\ rtx \in [len : {0, 1}, seq : 0 .. Sends + 1, tries : 0 .. Tries]
  /\ rcvNxt \in 0 .. PeerLen + 1
  /\ rb \in [0 .. RingBytes - 1 -> 0 .. PeerLen]
  /\ {rbHead, rbTail} \subseteq 0 .. RingBytes - 1
  /\ {peerClosed, eof} \subseteq BOOLEAN
  /\ wire \subseteq 1 .. Sends /\ peerGot \in 1 .. Sends + 1
  /\ got \in Seq(1 .. PeerLen)

\* What was acknowledged to the peer is what the application has read or will
\* find in the ring, every byte once and in order: whatever is trimmed, cut
\* short for want of space, repeated or out of order (tcp_handle, tcp_recv).
AckedIsKept ==
  got \o Buffered = [i \in 1 .. Smaller(rcvNxt, PeerLen) |-> i]

\* The connection implements a byte stream: the reader has a prefix of what the
\* peer sent and no byte that was not acknowledged, what was acknowledged stays
\* so, and the end is seen only after all of it: "the reader saw a truncated-EOF
\* body" (tcp_handle, tcp_recv).
S == INSTANCE ByteStream
       WITH Stream <- [i \in 1 .. PeerLen |-> i], promised <- Smaller(rcvNxt, PeerLen),
            read <- got, ended <- eof
ByteStreamSpec == S!StreamSpec

\* All the peer sends is read, and its end seen, unless the connection breaks
\* or is closed, however small the ring is.
StreamArrives ==
  /\ tstat = "ESTAB" ~> Len(got) = PeerLen \/ tstat \notin {"ESTAB", "CLOSE_WAIT"}
  /\ tstat = "CLOSE_WAIT" ~> eof \/ tstat # "CLOSE_WAIT"

\* An application that sends and then waits for the answer is not left waiting:
\* once it has stopped sending, the peer has all its bytes or the connection is
\* given up.  This holds although an earlier segment that is lost is never sent
\* again: the one that is kept then stays unacknowledged and uses up its tries
\* (tcp_send, tcp_rtx_tick).
QuietSenderSettles ==
  \/ []<><<TcpSend>>_tcpVars
  \/ tstat = "ESTAB" ~> sndNxt = peerGot \/ tstat # "ESTAB"

\* "400 ms timeout, 6 tries, then the connection is declared dead so the app's
\* reconnect logic takes over": a segment does not stay unacknowledged for ever on
\* an open connection.  An application that goes on sending, like the browser with
\* its PING, gives the tries back each time.
SendsSettle == rtx.len > 0 ~> rtx.len = 0 \/ tstat # "ESTAB"

=============================================================================
