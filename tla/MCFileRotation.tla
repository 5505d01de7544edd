--------------------------- MODULE MCFileRotation ---------------------------
(* Instances of FileRotation for TLC.                                      *)
EXTENDS FileRotation, TLC

CONSTANTS owner, alice, bob, i1, i2

TwoUsers   == {owner, alice}
ThreeUsers == {owner, alice, bob}
OneSlot    == {i1}
TwoSlots   == {i1, i2}

Symmetry == Permutations(Users \ {Owner}) \cup Permutations(Slot)
=============================================================================
