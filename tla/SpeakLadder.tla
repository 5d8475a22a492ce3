----------------------------- MODULE SpeakLadder -----------------------------
(***************************************************************************)
(* LucentEngine::speak (src/lucent_engine.cpp): one text becomes as many   *)
(* calls of speakOnce as it takes to hear something.  A front end that     *)
(* rejects a text renders it to nothing, so the text is tried as it is,    *)
(* then repaired three ways, then word by word, each word with its own     *)
(* repairs.                                                                *)
(*                                                                         *)
(* A call of speakOnce is whatever SpeakContract allows.  A text is known  *)
(* by the words it splits into (hasSpeakableContent: it splits into any);  *)
(* repairText either gives a new text or one not worth trying.             *)
(***************************************************************************)
EXTENDS SpeakContract

CONSTANT Passes   \* passes of repairText: 3 in the code

ASSUME LadderAssumption == Passes \in Nat

VARIABLES
  at,         \* "idle", "call", "in" (speakOnce), "out" (of it), "pass"
  stage,      \* "plain", "repair", "word" or "wordRepair"
  pass,       \* the repair pass
  words,      \* words the text splits into: none if it holds nothing speakable
  word,       \* the word being spoken
  base,       \* audio of the words before it
  result      \* what speak returned: "none", "ok", "aborted" or "failed"

ladderVars == <<at, stage, pass, words, word, base, result>>

LadderInit ==
  /\ ContractInit
  /\ at = "idle" /\ stage = "plain" /\ pass = 0
  /\ words = 0 /\ word = 0
  /\ base = 0 /\ result = "none"

\* speak() is called.
LadderBegins(n) ==
  /\ at = "idle"
  /\ at' = "call" /\ stage' = "plain" /\ pass' = 0
  /\ words' = n /\ word' = 0
  /\ base' = 0 /\ result' = "none"

CallBegins ==
  /\ at = "call"
  /\ speaking' = TRUE /\ heard' = 0 /\ mark' = 0 /\ refused' = FALSE /\ how' = how
  /\ Begin
  /\ at' = "in"
  /\ UNCHANGED <<stage, pass, words, word, base, result>>

\* The sink is given n units of audio, and a bookmark at position m of the call or none
\* (m = mark).
CallFeeds(n, m, accepted) ==
  /\ at = "in"
  /\ heard' = heard + n /\ mark' = m /\ refused' = (refused \/ ~accepted)
  /\ speaking' = TRUE /\ how' = how
  /\ Feed
  /\ UNCHANGED ladderVars

CallEnds(outcome) ==
  /\ at = "in"
  /\ speaking' = FALSE /\ heard' = heard /\ mark' = mark /\ refused' = refused
  /\ how' = outcome
  /\ End
  /\ at' = "out"
  /\ UNCHANGED <<stage, pass, words, word, base, result>>

-----------------------------------------------------------------------------
LadderReturns(r) ==
  /\ at' = "idle"
  /\ result' = r
  /\ UNCHANGED <<stage, pass, word, base>>

\* The call just made failed, was aborted, or was heard.
Failed  == how = "failed"
Aborted == how = "aborted"
Heard   == heard > 0

Repairs(s) ==
  /\ at' = "pass" /\ stage' = s /\ pass' = 1
  /\ UNCHANGED <<word, base, result>>

PlainDone ==
  /\ at = "out" /\ stage = "plain" /\ ~Failed
  /\ IF Aborted THEN LadderReturns("aborted")
     ELSE IF Heard \/ words = 0 THEN LadderReturns("ok")
     ELSE Repairs("repair")
  /\ UNCHANGED <<words, contractVars>>

\* A repair that changes nothing, or that was tried before, is passed over.
Repair ==
  /\ at = "pass" /\ pass <= Passes
  /\ \/ at' = "call" /\ UNCHANGED pass
     \/ at' = "pass" /\ pass' = pass + 1
  /\ UNCHANGED <<stage, words, word, base, result, contractVars>>

\* Slip: a repair that stays silent is tried again.
SameRepairForEver ==
  /\ at = "out" /\ stage \in {"repair", "wordRepair"} /\ ~Failed
  /\ ~Aborted /\ ~Heard
  /\ at' = "pass"
  /\ UNCHANGED <<pass, stage, words, word, base, result, contractVars>>

\* A repair that stays silent is followed by the next.
RepairDone ==
  /\ at = "out" /\ stage \in {"repair", "wordRepair"} /\ ~Failed
  /\ ~Aborted /\ ~Heard
  /\ at' = "pass" /\ pass' = pass + 1
  /\ UNCHANGED <<stage, words, word, base, result, contractVars>>

RepairHeard ==
  /\ at = "out" /\ stage = "repair" /\ ~Failed
  /\ Aborted \/ Heard
  /\ LadderReturns(IF Aborted THEN "aborted" ELSE "ok")
  /\ UNCHANGED <<words, contractVars>>

\* No repair of the whole text was heard.
WordsBegin ==
  /\ at = "pass" /\ stage = "repair" /\ pass > Passes
  /\ at' = "call" /\ stage' = "word" /\ word' = 1 /\ base' = 0
  /\ UNCHANGED <<pass, words, result, contractVars>>

\* Slip: the next word's bookmarks are not moved behind the words already heard.
NextWordInPlace ==
  IF word = words
    THEN LadderReturns("ok")
    ELSE /\ at' = "call" /\ stage' = "word" /\ word' = word + 1
         /\ UNCHANGED <<base, pass, result>>

\* Slip: the last word is not noticed.
NextWordPast ==
  IF word > words
    THEN LadderReturns("ok")
    ELSE /\ at' = "call" /\ stage' = "word" /\ word' = word + 1
         /\ base' = base + heard
         /\ UNCHANGED <<pass, result>>

\* The next word, if there is one.
NextWord ==
  IF word = words
    THEN LadderReturns("ok")
    ELSE /\ at' = "call" /\ stage' = "word" /\ word' = word + 1
         /\ base' = base + heard
         /\ UNCHANGED <<pass, result>>

WordDone ==
  /\ \/ at = "out" /\ stage = "word" /\ ~Failed
     \/ at = "out" /\ stage = "wordRepair" /\ ~Failed /\ (Aborted \/ Heard)
  /\ IF Aborted THEN LadderReturns("aborted")
     ELSE IF Heard THEN NextWord
     ELSE Repairs("wordRepair")
  /\ UNCHANGED <<words, contractVars>>

\* A word stays silent whatever is tried.
WordSilent ==
  /\ at = "pass" /\ stage = "wordRepair" /\ pass > Passes
  /\ NextWord
  /\ UNCHANGED <<words, contractVars>>

LadderFails ==
  /\ at = "out" /\ Failed
  /\ LadderReturns("failed")
  /\ UNCHANGED <<words, contractVars>>

Ladder ==
  \/ PlainDone \/ Repair \/ RepairDone \/ RepairHeard \/ WordsBegin \/ WordDone
  \/ WordSilent \/ LadderFails
=============================================================================
