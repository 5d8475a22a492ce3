------------------------------ MODULE MCEngine ------------------------------
(* Constants of the TLC runs of LucentEngine. *)
EXTENDS LucentEngine

CONSTANTS en, fc, r11, r8, v1, v2, loud

MCLangs == {en, fc}
MCExclusive == {fc}
MCRates == {r11, r8}
MCVoices == {v1, v2}
MCVolumes == {loud}

Ask(lang, rate, voice) == [lang |-> lang, rate |-> rate, voice |-> voice, volume |-> loud]

\* Two voices that share a channel, and two channels an exclusive language cannot host
\* together.
ExclusiveRequests == {Ask(fc, r11, v1), Ask(fc, r11, v2), Ask(fc, r8, v1)}
\* Two channels side by side.
TwoChannels == {Ask(en, r11, v1), Ask(en, r8, v1)}
OneRequest == {Ask(en, r11, v1)}
=============================================================================
