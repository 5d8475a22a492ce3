------------------------------ MODULE Settings ------------------------------
(***************************************************************************)
(* The settings of the custom voice: settings.ini, the configuration       *)
(* utility that writes it key by key (src/config_main.cpp), the process    *)
(* that speaks, which reads it key by key into one cached copy behind a    *)
(* lock (src/ISpTTSEngineImpl.cpp), and what both make of a file that      *)
(* names voices setup has not installed (src/lucent_settings.cpp,          *)
(* src/installed_voices.cpp).                                              *)
(*                                                                         *)
(* Languages and speakers are numbered as in kLanguages and kSpeakers.     *)
(* Sixteen keys are written; the two that name the voice and one that      *)
(* stands alone are modelled.  A key that is missing reads as its default, *)
(* and a name nobody knows falls back like it, so every key has a value.   *)
(* A write that changes the file gives it a time of its own.               *)
(***************************************************************************)
EXTENDS Naturals, Sequences

CONSTANTS
  NLanguages, NSpeakers,
  SpeakerLanguage,   \* SpeakerInfo::language
  Has11k,            \* LanguageInfo::has11k
  Objects,           \* instances of ISpTTSEngineImpl in the process
  Nobody,
  MaxSaves           \* bound: saves of the utility

Languages == 1..NLanguages
Speakers == 1..NSpeakers
Rates == {8000, 11025}

\* The first speaker is of the first language; the two are the defaults (EnglishUS, John).
ASSUME SettingsAssumption ==
  /\ NLanguages \in Nat \ {0} /\ NSpeakers \in Nat \ {0}
  /\ SpeakerLanguage \in [Speakers -> Languages] /\ SpeakerLanguage[1] = 1
  /\ Has11k \subseteq Languages
  /\ Nobody \notin Objects
  /\ MaxSaves \in Nat

Keys == <<"language", "speaker", "rate">>
Voice == [language : Languages, speaker : Speakers, rate : Rates]
Defaults == [language |-> 1, speaker |-> 1, rate |-> 11025]

VARIABLES
  manifest,    \* what voices.ini says is installed, read once by either process
  file, time,  \* settings.ini and its last write time
  \* the configuration utility
  open, dialog,        \* it runs; its g_settings, which its controls show
  saving,              \* the key it writes next, 0 when it does not save
  failed, restoring,   \* a key of this save was not written; it is "Restore defaults"
  status,              \* what the status line says
  saves,
  \* the process that speaks
  cache, cacheTime, loaded,    \* g_settings, g_settingsTime, g_settingsLoaded
  lock,                        \* the owner of g_settingsCs
  pc, purpose, key, seen,      \* one call of current_settings per object
  snapshot, used,              \* what the last call returned, and that it did
  told,                        \* sample_rate_, 0 before SetObjectToken
  request,                     \* the VoiceRequest build_request filled last
  toldLanguage                 \* ghost: the language SetObjectToken saw

utilityVars == <<open, dialog, saving, failed, restoring, status, saves>>
cacheVars   == <<cache, cacheTime, loaded>>
objectVars  == <<lock, pc, purpose, key, seen, snapshot, used, told, request, toldLanguage>>
vars == <<manifest, file, time, utilityVars, cacheVars, objectVars>>

-----------------------------------------------------------------------------
\* What is installed.

First(S) == CHOOSE i \in S : \A j \in S : i <= j

\* A voice counts only with its language, and a manifest that leaves nothing counts for all.
LoadManifest(langs, spks) ==
  LET usable == {s \in spks : SpeakerLanguage[s] \in langs}
  IN IF usable = {} THEN [languages |-> Languages, speakers |-> Speakers]
                    ELSE [languages |-> langs, speakers |-> usable]

Installed(l) == {s \in manifest.speakers : SpeakerLanguage[s] = l}

\* loadSettings: the language, and then the speaker, that stand in for missing ones.
LoadedLanguage(l) ==
  IF l \in manifest.languages THEN l
  ELSE IF Defaults.language \in manifest.languages THEN Defaults.language
  ELSE First(manifest.languages)

\* Slip: an installed speaker is taken whatever language it speaks.
FallBackAnySpeaker(v) ==
  [v EXCEPT !.language = LoadedLanguage(v.language),
            !.speaker = IF v.speaker \in manifest.speakers THEN v.speaker
                        ELSE First(manifest.speakers)]

FallBack(v) ==
  LET l == LoadedLanguage(v.language)
  IN CASE v.speaker \in Installed(l) -> [v EXCEPT !.language = l]
       [] v.speaker \notin Installed(l) /\ Installed(l) # {} ->
            [v EXCEPT !.language = l, !.speaker = First(Installed(l))]
       [] OTHER ->
            LET s == First(manifest.speakers)
            IN [v EXCEPT !.language = SpeakerLanguage[s], !.speaker = s]

Usable(v) ==
  /\ v.language \in manifest.languages
  /\ v.speaker \in Installed(v.language)

Init ==
  /\ \E langs \in SUBSET Languages, spks \in SUBSET Speakers :
       manifest = LoadManifest(langs, spks)
  /\ file \in Voice /\ time = 1
  /\ open = FALSE /\ dialog = Defaults
  /\ saving = 0 /\ failed = FALSE /\ restoring = FALSE
  /\ status = "ready" /\ saves = 0
  /\ cache = Defaults /\ cacheTime = 0 /\ loaded = FALSE
  /\ lock = Nobody
  /\ pc = [o \in Objects |-> "idle"] /\ purpose = [o \in Objects |-> "init"]
  /\ key = [o \in Objects |-> 1] /\ seen = [o \in Objects |-> 0]
  /\ snapshot = [o \in Objects |-> Defaults] /\ used = [o \in Objects |-> FALSE]
  /\ told = [o \in Objects |-> 0]
  /\ request = [o \in Objects |-> [language |-> 1, rate |-> 8000]]
  /\ toldLanguage = [o \in Objects |-> 1]

-----------------------------------------------------------------------------
\* The configuration utility.  It has one thread: it does nothing else while it saves.

\* Slip: the speaker stays when the language changes.
FillSpeakersKeeping(l, s) == s

\* fillSpeakers: the speaker shown for a language.
FillSpeakers(l, s) ==
  IF s \in Installed(l) \/ Installed(l) = {} THEN s ELSE First(Installed(l))

\* fillSampleRates.
FillRates(l, r) == IF l \in Has11k THEN r ELSE 8000

Shown(v) == [v EXCEPT !.speaker = FillSpeakers(v.language, v.speaker),
                      !.rate = FillRates(v.language, v.rate)]

Opens ==
  /\ ~open /\ open' = TRUE
  /\ dialog' = Shown(FallBack(file))
  /\ status' = "ready"
  /\ UNCHANGED <<manifest, file, time, saving, failed, restoring, saves, cacheVars, objectVars>>

\* It is closed, or ends in the middle of a save.
Ends ==
  /\ open /\ open' = FALSE
  /\ saving' = 0 /\ failed' = FALSE /\ restoring' = FALSE /\ status' = "ready"
  /\ UNCHANGED <<manifest, file, time, dialog, saves, cacheVars, objectVars>>

\* The user changes a control, and saveNow starts.
Edits ==
  /\ open /\ saving = 0 /\ saves < MaxSaves
  /\ \/ \E l \in manifest.languages : dialog' = Shown([dialog EXCEPT !.language = l])
     \/ \E s \in Installed(dialog.language) : dialog' = [dialog EXCEPT !.speaker = s]
     \/ \E r \in Rates : r = FillRates(dialog.language, r) /\ dialog' = [dialog EXCEPT !.rate = r]
  /\ restoring' = FALSE
  /\ saving' = 1 /\ failed' = FALSE /\ saves' = saves + 1
  /\ UNCHANGED <<manifest, file, time, open, status, cacheVars, objectVars>>

\* "Restore defaults" keeps the voice.
Restores ==
  /\ open /\ saving = 0 /\ saves < MaxSaves
  /\ dialog' = Shown([dialog EXCEPT !.rate = Defaults.rate])
  /\ restoring' = TRUE
  /\ saving' = 1 /\ failed' = FALSE /\ saves' = saves + 1
  /\ UNCHANGED <<manifest, file, time, open, status, cacheVars, objectVars>>

\* The status line, once every key has been tried.
StatusAfter(fails) ==
  IF restoring THEN "restored" ELSE IF fails THEN "could not save" ELSE "saved"

\* Slip: one key too many.
PastLast(i) == i > Len(Keys)
LastKey(i) == i = Len(Keys)

\* saveSettings: one key; a key that cannot be written does not stop the others.
WritesKey ==
  LET k == Keys[saving]
      fileWith == [file EXCEPT ![k] = dialog[k]]
  IN /\ saving > 0
     /\ \/ file' = fileWith /\ failed' = failed
        \/ file' = file /\ failed' = TRUE
     /\ time' = IF file' = file THEN time ELSE time + 1
     /\ IF LastKey(saving) THEN saving' = 0 /\ status' = StatusAfter(failed')
                           ELSE saving' = saving + 1 /\ UNCHANGED status
     /\ UNCHANGED <<manifest, open, dialog, restoring, saves, cacheVars, objectVars>>

-----------------------------------------------------------------------------
\* The process that speaks: current_settings, for SetObjectToken or for build_request, and
\* before any object the reload of InitEngine.

\* The lock is taken and the time of the file read before the file.
Enters(o) ==
  /\ pc[o] = "idle" /\ lock = Nobody
  /\ lock' = o
  /\ \E p \in IF loaded THEN {"token", "request"} ELSE {"init"} :
       /\ p = "request" => told[o] # 0
       /\ purpose' = [purpose EXCEPT ![o] = p]
  /\ seen' = [seen EXCEPT ![o] = time]
  /\ key' = [key EXCEPT ![o] = 1]
  /\ pc' = [pc EXCEPT ![o] = IF ~loaded \/ time # cacheTime THEN "load" ELSE "copy"]
  /\ UNCHANGED <<manifest, file, time, utilityVars, cacheVars, snapshot, used, told, request,
                 toldLanguage>>

\* loadSettings reads into g_settings itself.
LoadsKey(o) ==
  LET k == Keys[key[o]]
  IN /\ pc[o] = "load" /\ key[o] <= Len(Keys)
     /\ cache' = [cache EXCEPT ![k] = file[k]]
     /\ key' = [key EXCEPT ![o] = @ + 1]
     /\ UNCHANGED <<manifest, file, time, utilityVars, cacheTime, loaded, lock, pc, purpose,
                    seen, snapshot, used, told, request, toldLanguage>>

\* Slip: the time is taken when the file has been read.
NowTime(o) == time
LoadTime(o) == seen[o]

FallsBack(o) ==
  /\ pc[o] = "load" /\ key[o] > Len(Keys)
  /\ cache' = FallBack(cache)
  /\ cacheTime' = LoadTime(o) /\ loaded' = TRUE
  /\ pc' = [pc EXCEPT ![o] = "copy"]
  /\ UNCHANGED <<manifest, file, time, utilityVars, lock, purpose, key, seen, snapshot, used,
                 told, request, toldLanguage>>

\* Slip: the rate is the file's, whatever the language has.
AnyRate(v) == v.rate
SupportedRate(v) == IF v.language \in Has11k THEN v.rate ELSE 8000

\* SetObjectToken fixes the rate of the object's output.
SetsToken(o) ==
  /\ told' = [told EXCEPT ![o] = SupportedRate(cache)]
  /\ toldLanguage' = [toldLanguage EXCEPT ![o] = cache.language]
  /\ UNCHANGED request

\* build_request takes the rate from the object and the rest from the settings.
BuildsRequest(o) ==
  /\ request' = IF SpeakerLanguage[cache.speaker] = cache.language
                  THEN [request EXCEPT ![o] = [language |-> cache.language, rate |-> told[o]]]
                  ELSE request
  /\ UNCHANGED <<told, toldLanguage>>

\* InitEngine takes no copy.
InitEnds(o) ==
  /\ pc[o] = "copy" /\ purpose[o] = "init"
  /\ used' = [used EXCEPT ![o] = FALSE]
  /\ lock' = Nobody
  /\ pc' = [pc EXCEPT ![o] = "idle"]
  /\ UNCHANGED <<manifest, file, time, utilityVars, cacheVars, purpose, key, seen, snapshot,
                 told, request, toldLanguage>>

\* The copy is taken, the lock released, and the copy used.
Copies(o) ==
  /\ pc[o] = "copy" /\ purpose[o] # "init"
  /\ snapshot' = [snapshot EXCEPT ![o] = cache] /\ used' = [used EXCEPT ![o] = TRUE]
  /\ lock' = Nobody
  /\ pc' = [pc EXCEPT ![o] = "idle"]
  /\ IF purpose[o] = "token" THEN SetsToken(o) ELSE BuildsRequest(o)
  /\ UNCHANGED <<manifest, file, time, utilityVars, cacheVars, purpose, key, seen>>

-----------------------------------------------------------------------------
Utility == Opens \/ Ends \/ Edits \/ Restores \/ WritesKey
CurrentSettings(o) == Enters(o) \/ LoadsKey(o) \/ FallsBack(o) \/ InitEnds(o) \/ Copies(o)
Next == Utility \/ \E o \in Objects : CurrentSettings(o)

Spec == Init /\ [][Next]_vars

-----------------------------------------------------------------------------
FileTypes ==
  /\ manifest \in [languages : SUBSET Languages, speakers : SUBSET Speakers]
  /\ file \in Voice /\ time \in Nat
UtilityTypes ==
  /\ open \in BOOLEAN /\ dialog \in Voice
  /\ saving \in 0..Len(Keys) /\ failed \in BOOLEAN /\ restoring \in BOOLEAN
  /\ status \in {"ready", "saved", "restored", "could not save"} /\ saves \in 0..MaxSaves
CacheTypes == cache \in Voice /\ cacheTime \in Nat /\ loaded \in BOOLEAN
CallTypes ==
  /\ lock \in Objects \cup {Nobody}
  /\ pc \in [Objects -> {"idle", "load", "copy"}]
  /\ purpose \in [Objects -> {"init", "token", "request"}]
  /\ key \in [Objects -> 1..(Len(Keys) + 1)] /\ seen \in [Objects -> Nat]
UseTypes ==
  /\ snapshot \in [Objects -> Voice] /\ used \in [Objects -> BOOLEAN]
  /\ told \in [Objects -> Rates \cup {0}] /\ toldLanguage \in [Objects -> Languages]
  /\ request \in [Objects -> [language : Languages, rate : Rates \cup {0}]]
TypeOK == FileTypes /\ UtilityTypes /\ CacheTypes /\ CallTypes /\ UseTypes

\* Whatever voices.ini and settings.ini say, and however a save and a load overlap, what
\* current_settings returns is a voice that is installed, with its own language
\* (README: "if settings.ini names one that is not installed, it falls back").
SnapshotUsable == \A o \in Objects : used[o] /\ pc[o] = "idle" => Usable(snapshot[o])

\* A call of current_settings that began after the last write returns what the file says
\* (README: "re-reads the file on every utterance, so changes reach a running screen
\* reader immediately"), although it mostly looks at the time of the file only.
SnapshotCurrent ==
  \A o \in Objects :
    used[o] /\ pc[o] = "idle" /\ seen[o] = time => snapshot[o] = FallBack(file)

\* What the utility shows after "Saved." is what will be spoken: the fall-backs of
\* loadSettings do not replace it.  (Setup does not install a language without a voice.)
EveryLanguageSpeaks == \A l \in manifest.languages : Installed(l) # {}
SavedIsSpoken ==
  status = "saved" /\ saving = 0 /\ EveryLanguageSpeaks => FallBack(file) = dialog

RateFits(o) == request[o].rate = 11025 => request[o].language \in Has11k

\* Every rate that is asked of the engine is one its language has (README, "Sample rates").
RateSupported == \A o \in Objects : RateFits(o)

\* build_request asked for the language and the rate that SetObjectToken saw.
AskedAsTold(o) == request[o].language = toldLanguage[o] /\ request[o].rate = told[o]

\* The same as long as the language is the one SetObjectToken saw.
RateSupportedIfKept == \A o \in Objects : AskedAsTold(o) => RateFits(o)
=============================================================================
