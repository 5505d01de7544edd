------------------------------ MODULE MCFileTree -----------------------------
(* Instances of FileTree for TLC.                                          *)
EXTENDS FileTree, TLC

CONSTANTS F, G, a, b, i1, i2

TwoFolders == {F, G}
OneFile    == {a}
TwoFiles   == {a, b}
OneSlot    == {i1}
TwoSlots   == {i1, i2}
Drive      == {F, G, a}

Symmetry == Permutations(Folders) \cup Permutations(Slot)

Operations == (Op \ {"none"}) \cup {"hold"}

\* One request at a time.
Serial == {{o, p} : o \in Operations, p \in Operations}

\* The pairs that break one of the safety properties when they overlap; every
\* other pair may.
Races == {
  {"create", "trash"}, {"trash", "move"}, {"trash", "restore"}, {"move"},
  {"trash", "empty"}, {"finalize", "empty"}, {"finalize", "expire"},
  {"finalize", "sweep"}, {"restore", "purge"}, {"restore", "empty"},
  {"restore", "expire"}, {"purge", "hold"}, {"empty", "hold"},
  {"expire", "hold"}}
=============================================================================
