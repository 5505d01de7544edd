---------------------------- MODULE MCFolderKeys ----------------------------
(* Instances of FolderKeys for TLC.                                        *)
EXTENDS FolderKeys, TLC

CONSTANTS shared, sub, file, o, m1, m2, i1, i2,
  MaxSent  \* bound: requests sent

VARIABLE sent

TwoFolders == {shared, sub}
OneFile    == {file}
ThreeUsers == {o, m1, m2}
OwnerAndViewer == {o, m2}
OneViewer  == {m2}
TwoSlots   == {i1, i2}

\* Only a rotation changes the keys that payloads are made from.
WithoutRotation == {{p, q} : p \in OpTag \ {"rotate"}, q \in OpTag \ {"rotate"}}

\* Spec, as long as no more than MaxSent requests are sent.
MCInit == Init /\ sent = 0
MCNext ==
  \/ sent < MaxSent /\ sent' = sent + 1 /\ \E i \in Slot : Begin(i)
  \/ sent' = sent /\ \E i \in Slot : Step(i) \/ Crash(i)
MCSpec == MCInit /\ [][MCNext]_<<vars, sent>>

Symmetry == Permutations(Slot)
=============================================================================
