----------------------------- MODULE MCBilling -----------------------------
(* Instances of Billing for TLC.                                           *)
EXTENDS Billing, TLC

CONSTANTS plus, pro, b1, i1, i2

TwoPrices == {plus, pro}
OneTab    == {b1}
ForeSlot == {i1}
AsideSlot  == {i2}
=============================================================================
