--------------------------- MODULE SettingsProofs ---------------------------
(***************************************************************************)
(* Theorems about Settings, for any table of languages and speakers, any   *)
(* selection setup installed, any settings.ini and any number of objects   *)
(* and saves: what current_settings returns is usable and current.         *)
(***************************************************************************)
EXTENDS Settings, TLAPS, WellFoundedInduction

-----------------------------------------------------------------------------
\* What loadSettings makes of a file.

LEMMA FirstIn ==
  ASSUME NEW S \in SUBSET Nat, S # {}
  PROVE  First(S) \in S
<1> DEFINE Less == {p \in Nat \X Nat : p[1] < p[2]}
<1>1. IsWellFoundedOn(Less, Nat)
  BY NatLessThanWellFounded, Zenon DEF OpToRel
<1> HIDE DEF Less
<1>2. PICK x \in S : \A y \in S : ~(<<y, x>> \in Less)
  BY <1>1, WFMin
<1>3. ASSUME NEW y \in S PROVE x <= y
  <2>1. x \in Nat /\ y \in Nat /\ ~(<<y, x>> \in Less)
    BY <1>2
  <2>2. y < x => <<y, x>> \in Less
    BY <2>1 DEF Less
  <2> QED
    BY <2>1, <2>2
<1> QED
  BY <1>3 DEF First

\* Every selection leaves something to speak with.
GoodManifest ==
  /\ manifest \in [languages : SUBSET Languages, speakers : SUBSET Speakers]
  /\ manifest.languages # {} /\ manifest.speakers # {}
  /\ \A s \in manifest.speakers : SpeakerLanguage[s] \in manifest.languages

LEMMA ManifestIsGood ==
  ASSUME NEW langs \in SUBSET Languages, NEW spks \in SUBSET Speakers,
         manifest = LoadManifest(langs, spks)
  PROVE  GoodManifest
<1> DEFINE usable == {s \in spks : SpeakerLanguage[s] \in langs}
<1>1. CASE usable = {}
  <2>1. manifest = [languages |-> Languages, speakers |-> Speakers]
    BY <1>1 DEF LoadManifest
  <2>2. 1 \in Languages /\ 1 \in Speakers
    BY SettingsAssumption DEF Languages, Speakers
  <2> QED
    BY <2>1, <2>2, SettingsAssumption DEF GoodManifest
<1>2. CASE usable # {}
  <2>1. manifest = [languages |-> langs, speakers |-> usable]
    BY <1>2 DEF LoadManifest
  <2> QED
    BY <2>1, <1>2 DEF GoodManifest
<1> QED
  BY <1>1, <1>2

LEMMA FallBackUsable ==
  ASSUME GoodManifest, NEW v \in Voice
  PROVE  FallBack(v) \in Voice /\ Usable(FallBack(v))
<1> DEFINE l == LoadedLanguage(v.language)
<1>1. /\ manifest.languages \subseteq Languages /\ manifest.speakers \subseteq Speakers
      /\ manifest.languages \in SUBSET Nat /\ manifest.speakers \in SUBSET Nat
  BY DEF GoodManifest, Languages, Speakers
<1>2. l \in manifest.languages
  BY <1>1, FirstIn DEF LoadedLanguage, GoodManifest
<1>3. First(manifest.speakers) \in manifest.speakers
  BY <1>1, FirstIn DEF GoodManifest
<1>4. Installed(l) # {} => First(Installed(l)) \in Installed(l)
  <2>1. Installed(l) \in SUBSET Nat
    BY <1>1 DEF Installed
  <2> QED
    BY <2>1, FirstIn
<1>5. Installed(l) \subseteq manifest.speakers
  BY DEF Installed
<1>6. CASE v.speaker \in Installed(l)
  <2>1. FallBack(v) = [v EXCEPT !.language = l]
    BY <1>6 DEF FallBack
  <2> QED
    BY <2>1, <1>1, <1>2, <1>6 DEF Voice, Usable
<1>7. CASE v.speaker \notin Installed(l) /\ Installed(l) # {}
  <2>1. FallBack(v) = [v EXCEPT !.language = l, !.speaker = First(Installed(l))]
    BY <1>7 DEF FallBack
  <2> QED
    BY <2>1, <1>1, <1>2, <1>4, <1>5, <1>7 DEF Voice, Usable
<1>8. CASE Installed(l) = {}
  <2> DEFINE s == First(manifest.speakers)
  <2>1. FallBack(v) = [v EXCEPT !.language = SpeakerLanguage[s], !.speaker = s]
    BY <1>8 DEF FallBack
  <2>2. SpeakerLanguage[s] \in manifest.languages /\ s \in Installed(SpeakerLanguage[s])
    BY <1>3 DEF GoodManifest, Installed
  <2> QED
    BY <2>1, <2>2, <1>1, <1>3 DEF Voice, Usable
<1> QED
  BY <1>6, <1>7, <1>8

LEMMA VoicesAgree ==
  ASSUME NEW v \in Voice, NEW w \in Voice,
         v.language = w.language, v.speaker = w.speaker, v.rate = w.rate
  PROVE  v = w
  BY DEF Voice

LEMMA DefaultsTyped == Defaults \in Voice
  BY SettingsAssumption DEF Defaults, Voice, Languages, Speakers, Rates

\* One key of a voice, replaced by that of another.
LEMMA KeyTyped ==
  ASSUME NEW v \in Voice, NEW w \in Voice, NEW i \in 1..Len(Keys)
  PROVE  [v EXCEPT ![Keys[i]] = w[Keys[i]]] \in Voice
<1>1. i = 1 \/ i = 2 \/ i = 3
  BY DEF Keys
<1>2. CASE i = 1
  BY <1>2 DEF Keys, Voice
<1>3. CASE i = 2
  BY <1>3 DEF Keys, Voice
<1>4. CASE i = 3
  BY <1>4 DEF Keys, Voice
<1> QED
  BY <1>1, <1>2, <1>3, <1>4

\* What the controls show of a voice is one.
LEMMA ShownTyped ==
  ASSUME GoodManifest, NEW v \in Voice
  PROVE  /\ Shown(v) \in Voice
         /\ Shown(v).language = v.language
         /\ Shown(v).rate = FillRates(v.language, v.rate)
         /\ Installed(v.language) # {} => Shown(v).speaker \in Installed(v.language)
<1> DEFINE s == FillSpeakers(v.language, v.speaker)
<1>1. /\ Installed(v.language) \in SUBSET Nat /\ Installed(v.language) \subseteq Speakers
  BY DEF Installed, GoodManifest, Speakers
<1>2. s \in Speakers /\ (Installed(v.language) # {} => s \in Installed(v.language))
  BY <1>1, FirstIn DEF FillSpeakers, Voice
<1>3. FillRates(v.language, v.rate) \in Rates
  BY DEF FillRates, Voice, Rates
<1> HIDE DEF s
<1>4. Shown(v) = [v EXCEPT !.speaker = s, !.rate = FillRates(v.language, v.rate)]
  BY DEF Shown, s
<1> QED
  BY <1>2, <1>3, <1>4 DEF Voice

-----------------------------------------------------------------------------
\* Types.

LEMMA LenKeys == Len(Keys) = 3
  BY DEF Keys

Typed == TypeOK /\ GoodManifest

LEMMA InitTyped == Init => Typed
<1> SUFFICES ASSUME Init PROVE Typed
  OBVIOUS
<1>1. GoodManifest
  BY ManifestIsGood DEF Init
<1>2. FileTypes
  BY <1>1 DEF Init, FileTypes, GoodManifest
<1>3. UtilityTypes
  <2>1. saving \in 0..Len(Keys) /\ saves \in 0..MaxSaves
    <3>1. saving = 0 /\ saves = 0 /\ MaxSaves \in Nat
      BY SettingsAssumption DEF Init
    <3> QED
      BY <3>1, LenKeys
  <2> QED
    BY <2>1, DefaultsTyped DEF Init, UtilityTypes
<1>4. CacheTypes
  BY DefaultsTyped DEF Init, CacheTypes
<1>5. CallTypes
  BY LenKeys DEF Init, CallTypes
<1>6. 1 \in Languages /\ 8000 \in Rates
  BY SettingsAssumption DEF Languages, Rates
<1>7. UseTypes
  BY <1>6, DefaultsTyped DEF Init, UseTypes
<1> QED
  BY <1>1, <1>2, <1>3, <1>4, <1>5, <1>7 DEF Typed, TypeOK

\* What the user can make of the voice the utility shows.
LEMMA EditTyped ==
  ASSUME Typed, Edits \/ Restores
  PROVE  dialog' \in Voice
<1>1. dialog \in Voice /\ manifest.languages \subseteq Languages /\ GoodManifest
  BY DEF Typed, TypeOK, UtilityTypes, GoodManifest
<1>2. Installed(dialog.language) \subseteq Speakers
  BY <1>1 DEF Installed, GoodManifest
<1>3. ASSUME NEW l \in manifest.languages PROVE Shown([dialog EXCEPT !.language = l]) \in Voice
  <2>1. [dialog EXCEPT !.language = l] \in Voice
    BY <1>1 DEF Voice
  <2> QED
    BY <1>1, <2>1, ShownTyped
<1>4. ASSUME NEW s \in Installed(dialog.language) PROVE [dialog EXCEPT !.speaker = s] \in Voice
  BY <1>1, <1>2 DEF Voice
<1>5. ASSUME NEW r \in Rates PROVE [dialog EXCEPT !.rate = r] \in Voice
  BY <1>1 DEF Voice
<1>6. Defaults.rate \in Rates
  BY DEF Defaults, Rates
<1>7. Shown([dialog EXCEPT !.rate = Defaults.rate]) \in Voice
  BY <1>1, <1>5, <1>6, ShownTyped
<1>8. CASE Edits
  BY <1>3, <1>4, <1>5, <1>8 DEF Edits
<1>9. CASE Restores
  BY <1>7, <1>9 DEF Restores
<1> QED
  BY <1>8, <1>9

\* The key that is written.
LEMMA WriteTyped ==
  ASSUME Typed, WritesKey
  PROVE  /\ saving \in 1..Len(Keys) /\ file' \in Voice /\ time' \in Nat
         /\ UtilityTypes'
<1>1. UtilityTypes /\ FileTypes
  BY DEF Typed, TypeOK
<1>2. saving \in 1..Len(Keys)
  <2>1. saving \in 0..Len(Keys)
    BY <1>1 DEF UtilityTypes
  <2>2. saving > 0
    BY DEF WritesKey
  <2> QED
    BY <2>1, <2>2, LenKeys
<1>3. [file EXCEPT ![Keys[saving]] = dialog[Keys[saving]]] \in Voice
  BY <1>1, <1>2, KeyTyped DEF UtilityTypes, FileTypes
<1>4. file' \in Voice /\ time' \in Nat
  BY <1>1, <1>3 DEF WritesKey, FileTypes
<1>5. failed' \in BOOLEAN
  BY <1>1 DEF WritesKey, UtilityTypes
<1>6. saving' \in 0..Len(Keys)
  <2>1. saving' = 0 \/ (saving # 3 /\ saving' = saving + 1)
    BY LenKeys DEF WritesKey, LastKey
  <2> QED
    BY <1>2, <2>1, LenKeys
<1>7. status' \in {"ready", "saved", "restored", "could not save"}
  <2>1. StatusAfter(failed') \in {"saved", "restored", "could not save"}
    BY DEF StatusAfter
  <2> QED
    BY <1>1, <2>1 DEF WritesKey, UtilityTypes
<1> QED
  BY <1>1, <1>2, <1>4, <1>5, <1>6, <1>7 DEF WritesKey, UtilityTypes

LEMMA UtilityTyped == Typed /\ Utility => Typed'
<1> SUFFICES ASSUME Typed, Utility PROVE Typed'
  OBVIOUS
<1>0. FileTypes /\ UtilityTypes /\ CacheTypes /\ CallTypes /\ UseTypes /\ GoodManifest
  BY DEF Typed, TypeOK
<1>1. UNCHANGED <<manifest, cacheVars, objectVars>>
  BY DEF Utility, Opens, Ends, Edits, Restores, WritesKey
<1>2. CacheTypes' /\ CallTypes' /\ UseTypes' /\ GoodManifest'
  BY <1>0, <1>1 DEF CacheTypes, CallTypes, UseTypes, GoodManifest, cacheVars, objectVars
<1>3. FileTypes' /\ UtilityTypes'
  <2>0. saving \in 0..Len(Keys) /\ saves \in 0..MaxSaves
    BY <1>0 DEF UtilityTypes
  <2>1. CASE Opens
    <3>1. Shown(FallBack(file)) \in Voice
      BY <1>0, FallBackUsable, ShownTyped DEF FileTypes
    <3> QED
      BY <1>0, <2>0, <2>1, <3>1 DEF Opens, FileTypes, UtilityTypes
  <2>2. CASE Ends
    <3>1. saving' \in 0..Len(Keys)
      <4>1. saving' = 0
        BY <2>2 DEF Ends
      <4> QED
        BY <4>1, LenKeys
    <3> QED
      BY <1>0, <2>0, <2>2, <3>1 DEF Ends, FileTypes, UtilityTypes
  <2>3. ASSUME Edits \/ Restores PROVE FileTypes' /\ UtilityTypes'
    <3>1. dialog' \in Voice
      BY <2>3, EditTyped
    <3>2. saves' \in 0..MaxSaves /\ saving' \in 0..Len(Keys)
      <4>1. saves' = saves + 1 /\ saves < MaxSaves /\ saving' = 1
        BY <2>3 DEF Edits, Restores
      <4> QED
        BY <2>0, <4>1, LenKeys, SettingsAssumption
    <3>3. restoring' \in BOOLEAN /\ failed' \in BOOLEAN /\ UNCHANGED <<file, time, open, status>>
      BY <2>3 DEF Edits, Restores
    <3> QED
      BY <1>0, <1>1, <3>1, <3>2, <3>3 DEF FileTypes, UtilityTypes
  <2>4. CASE WritesKey
    BY <1>0, <1>1, <2>4, WriteTyped DEF FileTypes
  <2> QED
    BY <2>1, <2>2, <2>3, <2>4 DEF Utility
<1> QED
  BY <1>2, <1>3 DEF Typed, TypeOK

LEMMA RateTyped ==
  ASSUME NEW v \in Voice
  PROVE  SupportedRate(v) \in Rates /\ v.language \in Languages
<1>1. v.rate \in Rates /\ v.language \in Languages
  BY DEF Voice
<1>2. 8000 \in Rates
  BY DEF Rates
<1> QED
  BY <1>1, <1>2 DEF SupportedRate

\* A load goes on to its next key.
LEMMA NextKey ==
  ASSUME NEW k \in [Objects -> 1..(Len(Keys) + 1)], NEW o \in Objects, k[o] <= Len(Keys)
  PROVE  /\ k[o] \in 1..Len(Keys)
         /\ [k EXCEPT ![o] = @ + 1] \in [Objects -> 1..(Len(Keys) + 1)]
<1>1. Len(Keys) = 3
  BY DEF Keys
<1>2. k[o] \in 1..4 /\ k[o] <= 3
  BY <1>1
<1>3. k[o] \in 1..3 /\ k[o] + 1 \in 1..4
  BY <1>2
<1> QED
  BY <1>1, <1>3

LEMMA ObjectTyped ==
  ASSUME Typed, NEW o \in Objects, CurrentSettings(o)
  PROVE  Typed'
<1>0. FileTypes /\ UtilityTypes /\ CacheTypes /\ CallTypes /\ UseTypes /\ GoodManifest
  BY DEF Typed, TypeOK
<1>1. UNCHANGED <<manifest, file, time, utilityVars>>
  BY DEF CurrentSettings, Enters, LoadsKey, FallsBack, InitEnds, Copies
<1>2. FileTypes' /\ UtilityTypes' /\ GoodManifest'
  BY <1>0, <1>1 DEF FileTypes, UtilityTypes, GoodManifest, utilityVars
<1>3. CASE Enters(o)
  <2>1. CallTypes'
    BY <1>0, <1>3, LenKeys DEF Enters, CallTypes, FileTypes
  <2> QED
    BY <1>0, <1>2, <1>3, <2>1 DEF Enters, CacheTypes, UseTypes, cacheVars, Typed, TypeOK
<1>4. CASE LoadsKey(o)
  <2>1. key[o] \in 1..Len(Keys) /\ key' \in [Objects -> 1..(Len(Keys) + 1)]
    BY <1>0, <1>4, NextKey DEF LoadsKey, CallTypes
  <2>2. cache' \in Voice
    BY <1>0, <1>4, <2>1, KeyTyped DEF LoadsKey, CacheTypes, FileTypes
  <2>3. CacheTypes' /\ CallTypes'
    BY <1>0, <1>4, <2>1, <2>2 DEF LoadsKey, CacheTypes, CallTypes
  <2> QED
    BY <1>0, <1>2, <1>4, <2>3 DEF LoadsKey, UseTypes, Typed, TypeOK
<1>5. CASE FallsBack(o)
  <2>1. FallBack(cache) \in Voice
    BY <1>0, FallBackUsable DEF CacheTypes
  <2>2. CacheTypes' /\ CallTypes'
    BY <1>0, <1>5, <2>1 DEF FallsBack, LoadTime, CacheTypes, CallTypes
  <2> QED
    BY <1>0, <1>2, <1>5, <2>2 DEF FallsBack, UseTypes, Typed, TypeOK
<1>6. CASE Copies(o)
  <2>1. SupportedRate(cache) \in Rates /\ cache.language \in Languages
    BY <1>0, RateTyped DEF CacheTypes
  <2>2. /\ told' \in [Objects -> Rates \cup {0}]
        /\ toldLanguage' \in [Objects -> Languages]
        /\ request' \in [Objects -> [language : Languages, rate : Rates \cup {0}]]
    <3>1. CASE SetsToken(o)
      BY <1>0, <2>1, <3>1 DEF SetsToken, UseTypes
    <3>2. CASE BuildsRequest(o)
      BY <1>0, <2>1, <3>2 DEF BuildsRequest, UseTypes
    <3> QED
      BY <1>6, <3>1, <3>2 DEF Copies
  <2>3. UseTypes'
    BY <1>0, <1>6, <2>2 DEF Copies, UseTypes, CacheTypes
  <2>4. CallTypes' /\ CacheTypes'
    BY <1>0, <1>6 DEF Copies, CallTypes, CacheTypes, cacheVars
  <2> QED
    BY <1>2, <2>3, <2>4 DEF Typed, TypeOK
<1>7. CASE InitEnds(o)
  <2>1. CallTypes' /\ CacheTypes' /\ UseTypes'
    BY <1>0, <1>7 DEF InitEnds, CallTypes, CacheTypes, UseTypes, cacheVars
  <2> QED
    BY <1>2, <2>1 DEF Typed, TypeOK
<1> QED
  BY <1>3, <1>4, <1>5, <1>6, <1>7 DEF CurrentSettings

\* The types of Settings hold in every state.
THEOREM TypeCorrect == Spec => []TypeOK
<1>1. Typed /\ [Next]_vars => Typed'
  <2>1. Typed /\ UNCHANGED vars => Typed'
    BY DEF Typed, TypeOK, FileTypes, UtilityTypes, CacheTypes, CallTypes, UseTypes,
           GoodManifest, vars, utilityVars, cacheVars, objectVars
  <2> QED
    BY <2>1, UtilityTyped, ObjectTyped DEF Next
<1>2. Typed => TypeOK
  BY DEF Typed
<1> QED
  BY InitTyped, <1>1, <1>2, PTL DEF Spec

-----------------------------------------------------------------------------
\* What current_settings returns.

\* The lock is held from the reading of the time to the copy.
Locked == \A o \in Objects : pc[o] # "idle" <=> lock = o
TimesPassed == cacheTime <= time /\ \A o \in Objects : seen[o] <= time

\* A load that started at the present time of the file has the file's keys so far.
HasRead(o) ==
  /\ key[o] > 1 => cache.language = file.language
  /\ key[o] > 2 => cache.speaker = file.speaker
  /\ key[o] > 3 => cache.rate = file.rate
Loading(o) ==
  pc[o] = "load" => /\ loaded => cacheTime < seen[o]
                    /\ seen[o] = time => HasRead(o)

\* Between loads the cached copy is usable, and is the file's when it has its time.
Coherent ==
  loaded /\ (\A o \in Objects : pc[o] # "load") =>
    Usable(cache) /\ (cacheTime = time => cache = FallBack(file))

Copying(o) == pc[o] = "copy" => loaded /\ cacheTime = seen[o]
Kept(o) ==
  used[o] => /\ Usable(snapshot[o])
             /\ pc[o] = "idle" /\ seen[o] = time => snapshot[o] = FallBack(file)

Inv == /\ Typed /\ Locked /\ TimesPassed /\ Coherent
       /\ \A o \in Objects : Loading(o) /\ Copying(o) /\ Kept(o)

LEMMA InitInv == Init => Inv
<1> SUFFICES ASSUME Init PROVE Inv
  OBVIOUS
<1>1. Typed
  BY InitTyped
<1>2. Locked /\ TimesPassed
  BY SettingsAssumption DEF Init, Locked, TimesPassed
<1>3. Coherent
  BY DEF Init, Coherent
<1>4. \A o \in Objects : Loading(o) /\ Copying(o) /\ Kept(o)
  BY DEF Init, Loading, Copying, Kept
<1> QED
  BY <1>1, <1>2, <1>3, <1>4 DEF Inv

\* The utility touches the file and its time only, and both or neither.
LEMMA UtilityInv == Inv /\ Utility => Inv'
<1> SUFFICES ASSUME Inv, Utility PROVE Inv'
  OBVIOUS
<1>1. UNCHANGED <<manifest, cacheVars, objectVars>>
  BY DEF Utility, Opens, Ends, Edits, Restores, WritesKey
<1>2. Typed /\ Typed' /\ time \in Nat /\ cacheTime \in Nat /\ seen \in [Objects -> Nat]
  BY UtilityTyped DEF Inv, Typed, TypeOK, FileTypes, CacheTypes, CallTypes
<1>3. UNCHANGED <<file, time>> \/ time' = time + 1
  BY DEF Utility, Opens, Ends, Edits, Restores, WritesKey
<1>4. UNCHANGED <<cache, cacheTime, loaded, lock, pc, key, seen, snapshot, used>>
  BY <1>1 DEF cacheVars, objectVars
<1>5. Locked'
  BY <1>4 DEF Inv, Locked
<1>6. Usable(cache)' = Usable(cache) /\ \A o \in Objects : Usable(snapshot[o])' = Usable(snapshot[o])
  BY <1>1, <1>4 DEF Usable, Installed
<1>7. CASE UNCHANGED <<file, time>>
  <2>1. FallBack(file)' = FallBack(file)
    BY <1>1, <1>7 DEF FallBack, LoadedLanguage, Installed
  <2> QED
    BY <1>2, <1>4, <1>5, <1>6, <1>7, <2>1
    DEF Inv, TimesPassed, Coherent, Loading, HasRead, Copying, Kept
<1>8. CASE time' = time + 1
  <2>1. TimesPassed' /\ cacheTime' # time' /\ \A o \in Objects : seen'[o] # time'
    <3>1. cacheTime <= time /\ \A o \in Objects : seen[o] \in Nat /\ seen[o] <= time
      BY <1>2 DEF Inv, TimesPassed
    <3> QED
      BY <1>2, <1>4, <1>8, <3>1 DEF TimesPassed
  <2> QED
    BY <1>2, <1>4, <1>5, <1>6, <2>1 DEF Inv, Coherent, Loading, Copying, Kept
<1> QED
  BY <1>3, <1>7, <1>8

\* Only the owner of the lock is not idle.
LEMMA Alone ==
  ASSUME Inv, NEW o \in Objects, pc[o] # "idle"
  PROVE  \A p \in Objects \ {o} : pc[p] = "idle"
  BY DEF Inv, Locked

\* An object's step leaves what the other objects have got as it is.
LEMMA OthersKept ==
  ASSUME Inv, NEW o \in Objects,
         UNCHANGED <<manifest, file, time>>,
         NEW p \in Objects, p # o,
         UNCHANGED <<used[p], snapshot[p], pc[p], seen[p]>>
  PROVE  Kept(p)'
<1>1. Kept(p)
  BY DEF Inv
<1>2. FallBack(file)' = FallBack(file)
  BY DEF FallBack, LoadedLanguage, Installed
<1>3. Usable(snapshot[p])' = Usable(snapshot[p])
  BY DEF Usable, Installed
<1> QED
  BY <1>1, <1>2, <1>3 DEF Kept

LEMMA EntersInv ==
  ASSUME Inv, NEW o \in Objects, Enters(o)
  PROVE  Inv'
<1>1. Typed /\ CacheTypes /\ CallTypes /\ time \in Nat
  BY DEF Inv, Typed, TypeOK, FileTypes
<1>2. Typed'
  BY <1>1, ObjectTyped DEF CurrentSettings
<1>3. /\ UNCHANGED <<manifest, file, time, cache, cacheTime, loaded, snapshot, used>>
      /\ \A p \in Objects \ {o} : UNCHANGED <<pc[p], key[p], seen[p]>>
  BY <1>1 DEF Enters, cacheVars, CallTypes
<1>4. /\ lock' = o /\ seen'[o] = time /\ key'[o] = 1
      /\ pc'[o] = IF ~loaded \/ time # cacheTime THEN "load" ELSE "copy"
  BY <1>1 DEF Enters, CallTypes
<1>5. \A p \in Objects : pc[p] = "idle"
  BY SettingsAssumption DEF Enters, Inv, Locked
<1>6. Locked'
  BY <1>3, <1>4, <1>5 DEF Locked
<1>7. TimesPassed'
  BY <1>1, <1>3, <1>4 DEF Inv, TimesPassed, CallTypes
<1>8. Coherent'
  <2>1. Coherent
    BY DEF Inv
  <2>2. FallBack(file)' = FallBack(file) /\ Usable(cache)' = Usable(cache)
    BY <1>3 DEF FallBack, LoadedLanguage, Usable, Installed
  <2> QED
    BY <1>3, <1>5, <2>1, <2>2 DEF Coherent
<1>9. Loading(o)' /\ Copying(o)'
  <2>1. cacheTime \in Nat /\ cacheTime <= time
    BY <1>1 DEF CacheTypes, Inv, TimesPassed
  <2> QED
    BY <1>1, <1>3, <1>4, <2>1 DEF Loading, Copying, HasRead
<1>10. Kept(o)'
  <2>1. used[o] => Usable(snapshot[o])
    BY DEF Inv, Kept
  <2>2. Usable(snapshot[o])' = Usable(snapshot[o])
    BY <1>3 DEF Usable, Installed
  <2>3. pc'[o] # "idle"
    BY <1>4
  <2> QED
    BY <1>3, <2>1, <2>2, <2>3 DEF Kept
<1>11. ASSUME NEW p \in Objects, p # o PROVE (Loading(p) /\ Copying(p) /\ Kept(p))'
  <2>1. Kept(p)'
    BY <1>3, <1>11, OthersKept
  <2>2. pc'[p] = "idle"
    BY <1>3, <1>5, <1>11
  <2> QED
    BY <2>1, <2>2 DEF Loading, Copying
<1> QED
  BY <1>2, <1>6, <1>7, <1>8, <1>9, <1>10, <1>11 DEF Inv

LEMMA LoadsKeyInv ==
  ASSUME Inv, NEW o \in Objects, LoadsKey(o)
  PROVE  Inv'
<1>1. Typed /\ cache \in Voice /\ file \in Voice
  BY DEF Inv, Typed, TypeOK, FileTypes, CacheTypes
<1>2. Typed'
  BY <1>1, ObjectTyped DEF CurrentSettings
<1>3. UNCHANGED <<manifest, file, time, cacheTime, loaded, lock, pc, seen, snapshot, used>>
  BY DEF LoadsKey
<1>4. pc[o] = "load" /\ pc'[o] = "load"
  BY DEF LoadsKey
<1>5. Locked' /\ TimesPassed'
  BY <1>3 DEF Inv, Locked, TimesPassed
<1>6. Coherent'
  BY <1>4 DEF Coherent
<1>7. Loading(o)'
  <2>1. /\ key[o] \in 1..3 /\ key'[o] = key[o] + 1
        /\ cache' = [cache EXCEPT ![Keys[key[o]]] = file[Keys[key[o]]]]
    BY <1>1, NextKey, LenKeys DEF LoadsKey, Typed, TypeOK, CallTypes
  <2>2. Loading(o)
    BY DEF Inv
  <2>3. HasRead(o) => HasRead(o)'
    <3>1. CASE key[o] = 1
      BY <1>1, <1>3, <2>1, <3>1 DEF HasRead, Keys, Voice
    <3>2. CASE key[o] = 2
      BY <1>1, <1>3, <2>1, <3>2 DEF HasRead, Keys, Voice
    <3>3. CASE key[o] = 3
      BY <1>1, <1>3, <2>1, <3>3 DEF HasRead, Keys, Voice
    <3> QED
      BY <2>1, <3>1, <3>2, <3>3
  <2> QED
    BY <1>3, <1>4, <2>2, <2>3 DEF Loading
<1>8. Copying(o)' /\ Kept(o)'
  <2>1. used[o] => Usable(snapshot[o])
    BY DEF Inv, Kept
  <2>2. Usable(snapshot[o])' = Usable(snapshot[o])
    BY <1>3 DEF Usable, Installed
  <2> QED
    BY <1>3, <1>4, <2>1, <2>2 DEF Copying, Kept
<1>9. ASSUME NEW p \in Objects, p # o PROVE (Loading(p) /\ Copying(p) /\ Kept(p))'
  <2>1. Kept(p)'
    BY <1>3, <1>9, OthersKept
  <2>2. pc'[p] = "idle"
    BY <1>3, <1>4, <1>9, Alone
  <2> QED
    BY <2>1, <2>2 DEF Loading, Copying
<1> QED
  BY <1>2, <1>5, <1>6, <1>7, <1>8, <1>9 DEF Inv

LEMMA FallsBackInv ==
  ASSUME Inv, NEW o \in Objects, FallsBack(o)
  PROVE  Inv'
<1>1. Typed /\ GoodManifest /\ cache \in Voice /\ file \in Voice /\ CallTypes
  BY DEF Inv, Typed, TypeOK, FileTypes, CacheTypes
<1>2. Typed'
  BY <1>1, ObjectTyped DEF CurrentSettings
<1>3. /\ UNCHANGED <<manifest, file, time, lock, seen, snapshot, used>>
      /\ \A p \in Objects \ {o} : pc'[p] = pc[p]
      /\ pc[o] = "load" /\ pc'[o] = "copy"
      /\ cache' = FallBack(cache) /\ cacheTime' = seen[o] /\ loaded'
  BY <1>1 DEF FallsBack, LoadTime, CallTypes
<1>4. Locked' /\ TimesPassed'
  BY <1>3 DEF Inv, Locked, TimesPassed
<1>5. Coherent'
  <2>1. Usable(FallBack(cache))
    BY <1>1, FallBackUsable
  <2>2. Usable(cache)'
    BY <1>3, <2>1 DEF Usable, Installed
  <2>3. ASSUME seen[o] = time PROVE cache' = FallBack(file)'
    <3>1. key[o] > 3
      BY LenKeys DEF FallsBack
    <3>2. key[o] \in Nat
      BY <1>1 DEF CallTypes
    <3>3. HasRead(o)
      BY <1>3, <2>3 DEF Inv, Loading
    <3>4. cache = file
      BY <1>1, <3>1, <3>2, <3>3, VoicesAgree DEF HasRead
    <3>5. FallBack(file)' = FallBack(file)
      BY <1>3 DEF FallBack, LoadedLanguage, Installed
    <3> QED
      BY <1>3, <3>4, <3>5
  <2> QED
    BY <1>3, <2>2, <2>3 DEF Coherent
<1>6. Loading(o)' /\ Copying(o)' /\ Kept(o)'
  <2>1. used[o] => Usable(snapshot[o])
    BY DEF Inv, Kept
  <2>2. Usable(snapshot[o])' = Usable(snapshot[o])
    BY <1>3 DEF Usable, Installed
  <2> QED
    BY <1>3, <2>1, <2>2 DEF Loading, Copying, Kept
<1>7. ASSUME NEW p \in Objects, p # o PROVE (Loading(p) /\ Copying(p) /\ Kept(p))'
  <2>1. Kept(p)'
    BY <1>3, <1>7, OthersKept
  <2>2. pc'[p] = "idle"
    BY <1>3, <1>7, Alone
  <2> QED
    BY <2>1, <2>2 DEF Loading, Copying
<1> QED
  BY <1>2, <1>4, <1>5, <1>6, <1>7 DEF Inv

LEMMA CopiesInv ==
  ASSUME Inv, NEW o \in Objects, Copies(o)
  PROVE  Inv'
<1>1. Typed /\ CallTypes /\ UseTypes
  BY DEF Inv, Typed, TypeOK
<1>2. Typed'
  BY <1>1, ObjectTyped DEF CurrentSettings
<1>3. /\ UNCHANGED <<manifest, file, time, cache, cacheTime, loaded, seen>>
      /\ \A p \in Objects \ {o} : UNCHANGED <<pc[p], snapshot[p], used[p]>>
      /\ pc[o] = "copy" /\ pc'[o] = "idle" /\ lock' = Nobody
      /\ snapshot'[o] = cache
  BY <1>1 DEF Copies, CallTypes, UseTypes, cacheVars
<1>4. \A p \in Objects : pc'[p] = "idle"
  BY <1>3, Alone
<1>5. Locked' /\ TimesPassed'
  BY <1>3, <1>4, SettingsAssumption DEF Inv, Locked, TimesPassed
<1>6. Usable(cache) /\ (cacheTime = time => cache = FallBack(file)) /\ cacheTime = seen[o]
  <2>1. \A p \in Objects : pc[p] # "load"
    BY <1>3, Alone
  <2>2. Copying(o) /\ Coherent
    BY DEF Inv
  <2> QED
    BY <1>3, <2>1, <2>2 DEF Copying, Coherent
<1>7. FallBack(file)' = FallBack(file) /\ Usable(cache)' = Usable(cache)
  BY <1>3 DEF FallBack, LoadedLanguage, Usable, Installed
<1>8. Coherent'
  BY <1>3, <1>6, <1>7 DEF Coherent
<1>9. Kept(o)'
  <2>1. Usable(snapshot[o])' = Usable(cache)
    BY <1>3 DEF Usable, Installed
  <2> QED
    BY <1>3, <1>6, <1>7, <2>1 DEF Kept
<1>10. ASSUME NEW p \in Objects, p # o PROVE Kept(p)'
  BY <1>3, <1>10, OthersKept
<1>11. \A p \in Objects : Loading(p)' /\ Copying(p)'
  BY <1>4 DEF Loading, Copying
<1> QED
  BY <1>2, <1>5, <1>8, <1>9, <1>10, <1>11 DEF Inv

LEMMA InitEndsInv ==
  ASSUME Inv, NEW o \in Objects, InitEnds(o)
  PROVE  Inv'
<1>1. Typed /\ CallTypes /\ UseTypes
  BY DEF Inv, Typed, TypeOK
<1>2. Typed'
  BY <1>1, ObjectTyped DEF CurrentSettings
<1>3. /\ UNCHANGED <<manifest, file, time, cache, cacheTime, loaded, seen>>
      /\ \A p \in Objects \ {o} : UNCHANGED <<pc[p], snapshot[p], used[p]>>
      /\ pc[o] = "copy" /\ pc'[o] = "idle" /\ lock' = Nobody /\ ~used'[o]
  BY <1>1 DEF InitEnds, CallTypes, UseTypes, cacheVars
<1>4. \A p \in Objects : pc[p] # "load" /\ pc'[p] = "idle"
  BY <1>3, Alone
<1>5. Locked' /\ TimesPassed'
  BY <1>3, <1>4, SettingsAssumption DEF Inv, Locked, TimesPassed
<1>6. Coherent'
  <2>1. FallBack(file)' = FallBack(file) /\ Usable(cache)' = Usable(cache)
    BY <1>3 DEF FallBack, LoadedLanguage, Usable, Installed
  <2> QED
    BY <1>3, <1>4, <2>1 DEF Inv, Coherent
<1>7. \A p \in Objects : Kept(p)'
  <2>1. Kept(o)'
    BY <1>3 DEF Kept
  <2>2. ASSUME NEW p \in Objects, p # o PROVE Kept(p)'
    BY <1>3, <2>2, OthersKept
  <2> QED
    BY <2>1, <2>2
<1>8. \A p \in Objects : Loading(p)' /\ Copying(p)'
  BY <1>4 DEF Loading, Copying
<1> QED
  BY <1>2, <1>5, <1>6, <1>7, <1>8 DEF Inv

LEMMA SpecInv == Spec => []Inv
<1>1. Inv /\ [Next]_vars => Inv'
  <2>1. Inv /\ UNCHANGED vars => Inv'
    <3> SUFFICES ASSUME Inv, UNCHANGED vars PROVE Inv'
      OBVIOUS
    <3>1. UNCHANGED <<manifest, file, time, cache, cacheTime, loaded, lock, pc, key, seen,
                      snapshot, used>>
      BY DEF vars, cacheVars, objectVars
    <3>2. Typed'
      BY DEF Inv, Typed, TypeOK, FileTypes, UtilityTypes, CacheTypes, CallTypes, UseTypes,
             GoodManifest, vars, utilityVars, cacheVars, objectVars
    <3>3. FallBack(file)' = FallBack(file) /\ Usable(cache)' = Usable(cache)
      BY <3>1 DEF FallBack, LoadedLanguage, Usable, Installed
    <3>4. \A o \in Objects : Usable(snapshot[o])' = Usable(snapshot[o])
      BY <3>1 DEF Usable, Installed
    <3>5. Locked' /\ TimesPassed' /\ Coherent'
      BY <3>1, <3>3 DEF Inv, Locked, TimesPassed, Coherent
    <3>6. \A o \in Objects : (Loading(o) /\ Copying(o) /\ Kept(o))'
      BY <3>1, <3>3, <3>4 DEF Inv, Loading, HasRead, Copying, Kept
    <3> QED
      BY <3>2, <3>5, <3>6 DEF Inv
  <2> QED
    BY <2>1, UtilityInv, EntersInv, LoadsKeyInv, FallsBackInv, InitEndsInv,
       CopiesInv DEF Next, CurrentSettings
<1> QED
  BY InitInv, <1>1, PTL DEF Spec

\* Whatever setup installed and settings.ini says, and however saves and loads overlap,
\* current_settings returns an installed voice with its own language.
THEOREM SnapshotsUsable == Spec => []SnapshotUsable
<1>1. Inv => SnapshotUsable
  BY DEF Inv, Kept, SnapshotUsable
<1> QED
  BY SpecInv, <1>1, PTL

\* A call that began after the last write returns what the file says, although it compares
\* times only.
THEOREM SnapshotsCurrent == Spec => []SnapshotCurrent
<1>1. Inv => SnapshotCurrent
  BY DEF Inv, Kept, SnapshotCurrent
<1> QED
  BY SpecInv, <1>1, PTL

-----------------------------------------------------------------------------
\* What the utility says it has saved.

\* A voice that can be used is not replaced.
LEMMA FallBackKeeps ==
  ASSUME NEW v \in Voice, Usable(v)
  PROVE  FallBack(v) = v
<1>1. v.language \in manifest.languages /\ v.speaker \in Installed(v.language)
  BY DEF Usable
<1>2. LoadedLanguage(v.language) = v.language
  BY <1>1 DEF LoadedLanguage
<1>3. FallBack(v) = [v EXCEPT !.language = v.language]
  BY <1>1, <1>2 DEF FallBack
<1> QED
  BY <1>3 DEF Voice

\* Keys of the dialog that are in the file before key i is written.
Wrote(i) ==
  /\ i > 1 => file.language = dialog.language
  /\ i > 2 => file.speaker = dialog.speaker
  /\ i > 3 => file.rate = dialog.rate

\* The dialog shows a voice that can be used; a save that goes well has written its keys.
UtilityInvariant ==
  /\ Typed
  /\ open /\ EveryLanguageSpeaks => Usable(dialog)
  /\ ~open => saving = 0 /\ status = "ready"
  /\ saving > 0 /\ ~failed => Wrote(saving)
  /\ status = "saved" /\ saving = 0 => file = dialog

LEMMA DialogUsable ==
  ASSUME Typed, EveryLanguageSpeaks, open => Usable(dialog), Opens \/ Edits \/ Restores
  PROVE  Usable(dialog')
<1>1. /\ GoodManifest /\ file \in Voice /\ dialog \in Voice
      /\ manifest.languages \subseteq Languages
  BY DEF Typed, TypeOK, FileTypes, UtilityTypes, GoodManifest
<1>2. ASSUME NEW v \in Voice, v.language \in manifest.languages PROVE Usable(Shown(v))
  BY <1>1, <1>2, ShownTyped DEF Usable, EveryLanguageSpeaks
<1>3. CASE Opens
  <2>1. FallBack(file) \in Voice /\ FallBack(file).language \in manifest.languages
    BY <1>1, FallBackUsable DEF Usable
  <2> QED
    BY <1>2, <1>3, <2>1 DEF Opens
<1>4. CASE Edits
  <2>1. Usable(dialog)
    BY <1>4 DEF Edits
  <2>2. ASSUME NEW l \in manifest.languages PROVE Usable(Shown([dialog EXCEPT !.language = l]))
    BY <1>1, <1>2 DEF Voice
  <2>3. ASSUME NEW s \in Installed(dialog.language) PROVE Usable([dialog EXCEPT !.speaker = s])
    BY <1>1, <2>1 DEF Usable, Voice
  <2>4. ASSUME NEW r \in Rates PROVE Usable([dialog EXCEPT !.rate = r])
    BY <1>1, <2>1 DEF Usable, Voice
  <2> QED
    BY <1>4, <2>2, <2>3, <2>4 DEF Edits
<1>5. CASE Restores
  <2>1. Usable(dialog)
    BY <1>5 DEF Restores
  <2>2. Defaults.rate \in Rates
    BY DEF Defaults, Rates
  <2>3. Usable(Shown([dialog EXCEPT !.rate = Defaults.rate]))
    BY <1>1, <1>2, <2>1, <2>2 DEF Usable, Voice
  <2> QED
    BY <1>5, <2>3 DEF Restores
<1> QED
  BY <1>3, <1>4, <1>5

LEMMA WroteKey ==
  ASSUME Typed, saving \in 1..3, Wrote(saving),
         file' = [file EXCEPT ![Keys[saving]] = dialog[Keys[saving]]], dialog' = dialog
  PROVE  /\ saving < 3 => /\ saving + 1 > 1 => file'.language = dialog'.language
                          /\ saving + 1 > 2 => file'.speaker = dialog'.speaker
                          /\ saving + 1 > 3 => file'.rate = dialog'.rate
         /\ saving = 3 => file' = dialog'
<1>1. file \in Voice /\ dialog \in Voice
  BY DEF Typed, TypeOK, FileTypes, UtilityTypes
<1>2. CASE saving = 1
  BY <1>1, <1>2 DEF Wrote, Keys, Voice
<1>3. CASE saving = 2
  BY <1>1, <1>3 DEF Wrote, Keys, Voice
<1>4. CASE saving = 3
  <2>1. file' \in Voice
    BY <1>1, <1>4, KeyTyped, LenKeys
  <2>2. /\ file'.language = dialog.language /\ file'.speaker = dialog.speaker
        /\ file'.rate = dialog.rate
    BY <1>1, <1>4 DEF Wrote, Keys, Voice
  <2> QED
    BY <1>1, <1>4, <2>1, <2>2, VoicesAgree
<1> QED
  BY <1>2, <1>3, <1>4

LEMMA UtilityInvariantKept == UtilityInvariant /\ [Next]_vars => UtilityInvariant'
<1> SUFFICES ASSUME UtilityInvariant, [Next]_vars PROVE UtilityInvariant'
  OBVIOUS
<1>1. Typed /\ saving \in 0..3
  BY LenKeys DEF UtilityInvariant, Typed, TypeOK, UtilityTypes
<1>2. Typed' /\ manifest' = manifest
  <2>1. CASE UNCHANGED vars
    BY <1>1, <2>1 DEF Typed, TypeOK, FileTypes, UtilityTypes, CacheTypes, CallTypes, UseTypes,
                      GoodManifest, vars, utilityVars, cacheVars, objectVars
  <2>2. CASE Utility
    BY <1>1, <2>2, UtilityTyped DEF Utility, Opens, Ends, Edits, Restores, WritesKey
  <2>3. ASSUME NEW o \in Objects, CurrentSettings(o) PROVE Typed' /\ manifest' = manifest
    BY <1>1, <2>3, ObjectTyped DEF CurrentSettings, Enters, LoadsKey, FallsBack, InitEnds, Copies
  <2> QED
    BY <2>1, <2>2, <2>3 DEF Next
<1>3. EveryLanguageSpeaks' = EveryLanguageSpeaks
  BY <1>2 DEF EveryLanguageSpeaks, Installed
<1>4. CASE UNCHANGED <<file, utilityVars>>
  BY <1>2, <1>3, <1>4 DEF UtilityInvariant, Wrote, utilityVars, Usable, Installed
<1>5. CASE Opens \/ Edits \/ Restores
  <2>1. /\ open' /\ file' = file
        /\ ~(status' = "saved" /\ saving' = 0)
        /\ saving' = 0 \/ saving' = 1
    <3>1. CASE Opens
      BY <3>1 DEF Opens, UtilityInvariant
    <3>2. CASE Edits \/ Restores
      BY <3>2 DEF Edits, Restores
    <3> QED
      BY <1>5, <3>1, <3>2
  <2>2. EveryLanguageSpeaks => Usable(dialog')
    BY <1>1, <1>5, DialogUsable DEF UtilityInvariant
  <2>3. EveryLanguageSpeaks' => Usable(dialog)'
    BY <1>2, <1>3, <2>2 DEF Usable, Installed
  <2>4. ~(saving' > 1)
    BY <2>1
  <2>5. Wrote(saving)'
    BY <2>4, <2>1 DEF Wrote
  <2> QED
    BY <1>2, <2>1, <2>3, <2>5 DEF UtilityInvariant
<1>6. CASE Ends
  <2>1. open' = FALSE /\ saving' = 0 /\ status' = "ready"
    BY <1>6 DEF Ends
  <2> QED
    BY <1>2, <2>1 DEF UtilityInvariant
<1>7. CASE WritesKey
  <2>1. /\ saving \in 1..3 /\ open /\ open' /\ dialog' = dialog
        /\ ~failed' => ~failed /\ file' = [file EXCEPT ![Keys[saving]] = dialog[Keys[saving]]]
    BY <1>1, <1>7 DEF WritesKey, UtilityInvariant
  <2>2. EveryLanguageSpeaks' => Usable(dialog)'
    BY <1>2, <1>3, <2>1 DEF UtilityInvariant, Usable, Installed
  <2>3. CASE saving < 3
    <3>1. saving' = saving + 1 /\ saving' # 0
      BY <1>7, <2>1, <2>3, LenKeys DEF WritesKey, LastKey
    <3>2. ~failed' => Wrote(saving)'
      BY <1>1, <2>1, <2>3, <3>1, WroteKey DEF UtilityInvariant, Wrote
    <3> QED
      BY <1>2, <2>1, <2>2, <3>1, <3>2 DEF UtilityInvariant
  <2>4. CASE saving = 3
    <3>1. saving' = 0 /\ status' = StatusAfter(failed')
      BY <1>7, <2>4, LenKeys DEF WritesKey, LastKey
    <3>2. status' = "saved" => ~failed'
      BY <3>1 DEF StatusAfter
    <3>3. status' = "saved" => file' = dialog'
      BY <1>1, <2>1, <2>4, <3>2, WroteKey DEF UtilityInvariant
    <3> QED
      BY <1>2, <2>1, <2>2, <3>1, <3>3 DEF UtilityInvariant
  <2> QED
    BY <2>1, <2>3, <2>4
<1>8. CASE UNCHANGED vars
  BY <1>4, <1>8 DEF vars
<1>9. CASE \E o \in Objects : CurrentSettings(o)
  BY <1>4, <1>9 DEF CurrentSettings, Enters, LoadsKey, FallsBack, InitEnds, Copies
<1> QED
  BY <1>5, <1>6, <1>7, <1>8, <1>9 DEF Next, Utility

\* What the utility shows after "Saved." is what will be spoken, if setup installed no
\* language without a voice.
THEOREM SavedVoiceIsSpoken == Spec => []SavedIsSpoken
<1>1. Init => UtilityInvariant
  BY InitTyped DEF Init, UtilityInvariant
<1>2. UtilityInvariant => SavedIsSpoken
  <2> SUFFICES ASSUME UtilityInvariant, status = "saved", saving = 0, EveryLanguageSpeaks
               PROVE  FallBack(file) = dialog
    BY DEF SavedIsSpoken
  <2>1. open /\ file = dialog /\ Usable(dialog) /\ dialog \in Voice
    BY DEF UtilityInvariant, Typed, TypeOK, UtilityTypes
  <2> QED
    BY <2>1, FallBackKeeps
<1> QED
  BY <1>1, <1>2, UtilityInvariantKept, PTL DEF Spec

-----------------------------------------------------------------------------
\* A rate that SetObjectToken fixed is one the language it saw has.
ToldSupported == \A o \in Objects : told[o] = 11025 => toldLanguage[o] \in Has11k

LEMMA ToldKept == Typed /\ ToldSupported /\ [Next]_vars => ToldSupported'
<1> SUFFICES ASSUME Typed, ToldSupported, [Next]_vars PROVE ToldSupported'
  OBVIOUS
<1>1. CASE UNCHANGED <<told, toldLanguage>>
  BY <1>1 DEF ToldSupported
<1>2. ASSUME NEW o \in Objects, Copies(o), purpose[o] = "token" PROVE ToldSupported'
  BY <1>2 DEF Copies, SetsToken, SupportedRate, ToldSupported, Typed, TypeOK, UseTypes
<1>3. CASE Utility
  BY <1>1, <1>3 DEF Utility, Opens, Ends, Edits, Restores, WritesKey, cacheVars, objectVars
<1>4. ASSUME NEW o \in Objects, CurrentSettings(o), ~(Copies(o) /\ purpose[o] = "token")
      PROVE  UNCHANGED <<told, toldLanguage>>
  BY <1>4 DEF CurrentSettings, Enters, LoadsKey, FallsBack, InitEnds, Copies, BuildsRequest
<1>5. CASE UNCHANGED vars
  BY <1>1, <1>5 DEF vars, objectVars
<1> QED
  BY <1>1, <1>2, <1>3, <1>4, <1>5 DEF Next

\* build_request never pairs a rate with a language that lacks it as long as the language is
\* the one SetObjectToken saw; the change in between is what settings_rate shows.
THEOREM KeptRateIsSupported == Spec => []RateSupportedIfKept
<1>1. Init => Typed /\ ToldSupported
  BY InitTyped DEF Init, ToldSupported
<1>2. Typed /\ ToldSupported => RateSupportedIfKept
  <2> SUFFICES ASSUME ToldSupported PROVE RateSupportedIfKept
    OBVIOUS
  <2>1. ASSUME NEW o \in Objects, AskedAsTold(o) PROVE RateFits(o)
    <3>1. request[o].language = toldLanguage[o] /\ request[o].rate = told[o]
      BY <2>1 DEF AskedAsTold
    <3>2. told[o] = 11025 => toldLanguage[o] \in Has11k
      BY DEF ToldSupported
    <3>3. request[o].rate = 11025 => request[o].language \in Has11k
      BY ONLY <3>1, <3>2
    <3> QED
      BY <3>3 DEF RateFits
  <2> QED
    BY <2>1 DEF RateSupportedIfKept
<1>3. Typed /\ [Next]_vars => Typed'
  <2>1. Typed /\ UNCHANGED vars => Typed'
    BY DEF Typed, TypeOK, FileTypes, UtilityTypes, CacheTypes, CallTypes, UseTypes,
           GoodManifest, vars, utilityVars, cacheVars, objectVars
  <2> QED
    BY <2>1, UtilityTyped, ObjectTyped DEF Next
<1> QED
  BY <1>1, <1>2, <1>3, ToldKept, PTL DEF Spec
=============================================================================
