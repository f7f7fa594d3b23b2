------------------------------- MODULE MCNxfs -------------------------------
(* Instances of Nxfs for TLC.                                              *)
EXTENDS Nxfs

CONSTANTS r0, i1, i2, i3, i4, b1, b2, b3, na, nb

NoDots   == {}
DotOnly  == {"."}

Alike == Permutations(Ino \ {Root}) \union Permutations(Blk)
           \union Permutations(Name)
=============================================================================
