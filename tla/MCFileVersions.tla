--------------------------- MODULE MCFileVersions ---------------------------
(* Instances of FileVersions for TLC.                                      *)
EXTENDS FileVersions, TLC

CONSTANTS c1, c2, r1, r2

OneChunk  == {c1}
TwoChunks == {c1, c2}
OneReq    == {r1}
TwoReqs   == {r1, r2}

Symmetry == Permutations(Req) \cup Permutations(Chunks)
=============================================================================
