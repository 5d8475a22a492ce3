------------------------------- MODULE MCSapi -------------------------------
(* Constants of the TLC runs of SapiSpeak. *)
EXTENDS SapiSpeak

CONSTANTS en, zh, slow, fast

MCLangs == {en, zh}
MCRates == {slow, fast}
=============================================================================
