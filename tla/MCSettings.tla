----------------------------- MODULE MCSettings -----------------------------
(* Constants of the TLC runs of Settings: two languages, one without an     *)
(* 11 kHz inventory, with two speakers and one.                             *)
EXTENDS Settings, TLC

CONSTANTS o1, o2

MCObjects == {o1, o2}
OneObject == {o1}
MCSpeakerLanguage == <<1, 1, 2>>
MCHas11k == {1}
MCSymmetry == Permutations(MCObjects)
=============================================================================
