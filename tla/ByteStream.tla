------------------------------- MODULE ByteStream -------------------------------
(* What a connection promises its reader: the bytes the peer sends, in      *)
(* order, each once, and the end of the stream after the last of them.      *)
(* `promised` counts the bytes that the peer has been told are safe, and     *)
(* which it will not send again.                                            *)
EXTENDS Integers, Sequences

CONSTANT Stream     \* what the peer sends

VARIABLES
  promised,   \* how many bytes have been acknowledged
  read,       \* the bytes the reader has had
  ended       \* the reader has seen the end

streamVars == <<promised, read, ended>>

StreamInit == promised = 0 /\ read = <<>> /\ ended = FALSE

\* More bytes are acknowledged.
Promise ==
  /\ promised' \in promised + 1 .. Len(Stream)
  /\ UNCHANGED <<read, ended>>

\* The reader gets some of the bytes that were acknowledged.
Deliver ==
  /\ \E n \in Len(read) + 1 .. promised : read' = SubSeq(Stream, 1, n)
  /\ ~ended
  /\ UNCHANGED <<promised, ended>>

\* The reader sees the end, which is final.
End ==
  /\ read = Stream /\ ended' = TRUE
  /\ UNCHANGED <<promised, read>>

\* Another connection begins.
Anew == promised' = 0 /\ read' = <<>> /\ ended' = FALSE

StreamNext == Promise \/ Deliver \/ End \/ Anew

StreamSpec == StreamInit /\ [][StreamNext]_streamVars
=============================================================================
