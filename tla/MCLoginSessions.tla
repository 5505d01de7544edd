-------------------------- MODULE MCLoginSessions --------------------------
(* Instances of LoginSessions for TLC.                                     *)
EXTENDS LoginSessions, TLC

CONSTANTS d1, d2, j1, j2, j3, i1, i2

TwoDevices == {d1, d2}
Rows3      == {j1, j2, j3}
TwoSlots   == {i1, i2}

\* Once past their checks these write the columns of the second factor only,
\* and the others neither read nor write one: they commute.
FactorOps == {"setup", "enable", "disable"}
OtherOps  == {"verify", "passkey", "logout", "revokeAll", "revokeOthers", "revokeOne",
              "change", "suspend"}
RacesAndCommuting == Races \cup {{o, p} : o \in FactorOps, p \in OtherOps}

Symmetry == Permutations(Device) \cup Permutations(Jti) \cup Permutations(Slot)
=============================================================================
