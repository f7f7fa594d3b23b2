--------------------------- MODULE MCNxfsJournal ---------------------------
(* Instances of NxfsJournal for TLC.                                       *)
EXTENDS NxfsJournal, TLC

CONSTANTS a, b, v0, v1

\* The slots hold nothing, or the commit record of an earlier life of the
\* disk that looks like the first one of this boot.
Blank   == {RawSlot}
MCStale == {RawSlot, CmtSlot(1, <<v1>>)}

JournalFails == {"hdr", "pay", "cmt", "retire", "rretire"}
RetireFails  == {"retire", "rretire"}

HomeFails    == {"home"}
ReplayFails  == {"rhome"}

ContentSymmetry == Permutations(Val)
=============================================================================
