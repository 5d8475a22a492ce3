-------------------------- MODULE SapiSpeakProofs --------------------------
(***************************************************************************)
(* One Speak after another, for any number of chunks, words, repair        *)
(* passes, packets and requests of the application: types, bookmarks in    *)
(* step with the stream, silence after a stop, no change of rate lost.     *)
(*                                                                         *)
(* The inductive invariant says for every place of the repair ladder what  *)
(* the audio written so far amounts to: the audio before the chunk, that   *)
(* of the words before this one, and what this call has been heard to say. *)
(***************************************************************************)
EXTENDS SapiSpeak, TLAPS

USE SapiAssumption, LadderAssumption
    DEF contractVars, ladderVars, siteVars, requestVars, chunkVars, sinkVars, packetVars,
        boundVars

-----------------------------------------------------------------------------
\* TypeOK in parts, one for each thing that keeps state.
ContractTypes ==
  /\ speaking \in BOOLEAN /\ heard \in Nat /\ mark \in Nat /\ refused \in BOOLEAN
  /\ how \in {"none", "done", "aborted", "failed"}
LadderTypes ==
  /\ at \in {"idle", "call", "in", "out", "pass"}
  /\ stage \in {"plain", "repair", "word", "wordRepair"} /\ pass \in 0..(Passes + 1)
  /\ words \in 0..MaxWords /\ word \in 0..MaxWords /\ base \in Nat
  /\ result \in {"none", "ok", "aborted", "failed"}
SiteTypes ==
  /\ acts \subseteq {"abort", "skip", "rate"} /\ siteRate \in Rates /\ lang \in Langs
  /\ engine \in BOOLEAN
SpeakTypes ==
  /\ pc \in {"idle", "text", "request", "chunk", "speak"}
  /\ rate \in Rates /\ reqRate \in Rates /\ reqLang \in Langs /\ textLang \in Langs
  /\ chunks \in 0..MaxChunks /\ chunk \in 0..(MaxChunks + 1)
  /\ chunkBase \in Nat /\ retried \in BOOLEAN
  /\ status \in {"none", "ok", "failed"}
PacketTypes ==
  /\ written \in Nat /\ ctxAborted \in BOOLEAN
  /\ size \in 0..MaxPacket /\ left \in 0..size /\ offset \in Nat
BoundTypes ==
  /\ fails \in 0..MaxFails /\ asked \in 0..MaxActs /\ changes \in 0..MaxChanges
  /\ speaks \in 0..MaxSpeaks
EventTyped == event \in Seq(Nat)
Types ==
  /\ ContractTypes /\ LadderTypes /\ SiteTypes /\ SpeakTypes /\ PacketTypes /\ BoundTypes
  /\ EventTyped

\* TypeOK is those parts.
LEMMA TypesSplit == (TypeOK <=> Types) /\ (TypeOK' <=> Types')
BY DEF TypeOK, Types, ContractTypes, LadderTypes, SiteTypes, SpeakTypes, PacketTypes,
   BoundTypes, EventTyped

-----------------------------------------------------------------------------
\* A packet is only in the sink while a call is under way, and a call only while a chunk
\* is spoken.
PlacesInv ==
  /\ left # 0 => at = "in"
  /\ left = 0 => size = 0
  /\ at # "idle" => pc = "speak"
  /\ pc = "speak" => chunk \in 1..chunks
  /\ pc = "chunk" => chunk \in 1..(chunks + 1)
  /\ at = "in" <=> speaking
  /\ at = "out" => how # "none"

\* The rungs of the ladder: words only if the text has any, repairs up to the last.
LadderInv ==
  /\ stage # "plain" => words > 0
  /\ stage \in {"word", "wordRepair"} => word \in 1..words
  /\ stage \in {"plain", "repair"} => base = 0
  /\ stage \in {"repair", "wordRepair"} =>
       pass \in 1..(IF at \in {"call", "in", "out"} THEN Passes ELSE Passes + 1)
  /\ at = "pass" => heard = 0 /\ stage \in {"repair", "wordRepair"}

\* The audio in the stream, at every place of the ladder.
SyncInv ==
  ~retried =>
    /\ at \in {"call", "pass"} => written = chunkBase + base
    /\ at = "in" /\ ~refused => written = chunkBase + base + heard + (size - left)
    /\ at = "out" /\ how = "done" => written = chunkBase + base + heard

\* A call whose sink has refused does not end well, and the sink is not called again.
RefusedInv ==
  /\ at = "in" /\ refused => left = 0
  /\ at = "out" /\ refused => how # "done"

\* After a stop the call under way is on its way out.
StoppedInv ==
  ctxAborted /\ pc # "idle" =>
    /\ pc = "speak"
    /\ ~retried =>
         /\ left = 0
         /\ \/ at = "in" /\ refused
            \/ at = "out" /\ how # "done"
            \/ at = "idle" /\ result \in {"aborted", "failed"}

\* What the application asked for last is known, or its flag is up.
RateInv ==
  /\ pc \in {"text", "request"} /\ siteRate # rate => "rate" \in acts
  /\ pc \in {"chunk", "speak"} /\ siteRate # reqRate => "rate" \in acts

SapiInv ==
  Types /\ PlacesInv /\ LadderInv /\ SyncInv /\ RefusedInv /\ StoppedInv /\ RateInv

\* The application asks only while Speak runs, and raises the flag with the new rate.
LEMMA AppAsksKeeps ==
  ASSUME SapiInv, AppAsks
  PROVE  SapiInv'
<1> USE DEF SapiInv, Types, AppAsks
<1>1. ContractTypes'
  BY DEF ContractTypes, LadderTypes
<1>2. LadderTypes'
  BY DEF LadderTypes
<1>3. SiteTypes'
  BY DEF SiteTypes
<1>4. SpeakTypes'
  BY DEF SpeakTypes, SiteTypes, PacketTypes, PlacesInv
<1>5. PacketTypes'
  BY DEF PacketTypes, SpeakTypes
<1>6. BoundTypes'
  BY DEF BoundTypes
<1>7. EventTyped'
  BY DEF EventTyped
<1>8. PlacesInv' /\ LadderInv'
  BY DEF ContractTypes, LadderTypes, SpeakTypes, PlacesInv, LadderInv
<1>9. SyncInv'
  BY DEF ContractTypes, LadderTypes, SpeakTypes, SiteTypes, PacketTypes, BoundTypes,
         PlacesInv, LadderInv, SyncInv
<1>10. RefusedInv' /\ StoppedInv' /\ RateInv'
  BY DEF ContractTypes, LadderTypes, SpeakTypes, PlacesInv, RefusedInv, StoppedInv,
         RateInv
<1> QED
  BY <1>1, <1>2, <1>3, <1>4, <1>5, <1>6, <1>7, <1>8, <1>9, <1>10

\* The language in settings.ini is nobody's business until the next request.
LEMMA LanguageChangesKeeps ==
  ASSUME SapiInv, LanguageChanges
  PROVE  SapiInv'
<1> USE DEF SapiInv, Types, LanguageChanges
<1>1. ContractTypes' /\ LadderTypes' /\ SpeakTypes'
  BY DEF ContractTypes, LadderTypes, SpeakTypes, PlacesInv, LadderInv
<1>2. SiteTypes' /\ PacketTypes' /\ BoundTypes'
  BY DEF SiteTypes, PacketTypes, BoundTypes, SpeakTypes
<1>3. EventTyped'
  BY DEF EventTyped
<1>4. PlacesInv' /\ LadderInv'
  BY DEF ContractTypes, LadderTypes, SpeakTypes, PlacesInv, LadderInv
<1>5. SyncInv'
  BY DEF ContractTypes, LadderTypes, SpeakTypes, PlacesInv, LadderInv, SyncInv
<1>6. RefusedInv' /\ StoppedInv' /\ RateInv'
  BY DEF ContractTypes, LadderTypes, SpeakTypes, PlacesInv, RefusedInv, StoppedInv,
         RateInv
<1> QED
  BY <1>1, <1>2, <1>3, <1>4, <1>5, <1>6

\* A call starts with the rate of the site and no stop.
LEMMA SpeakCalledKeeps ==
  ASSUME SapiInv, SpeakCalled
  PROVE  SapiInv'
<1> USE DEF SapiInv, Types, SpeakCalled
<1>1. ContractTypes'
  BY DEF ContractTypes, LadderTypes
<1>2. LadderTypes'
  BY DEF LadderTypes
<1>3. SiteTypes'
  BY DEF SiteTypes
<1>4. SpeakTypes'
  BY DEF SpeakTypes, SiteTypes, PacketTypes, PlacesInv
<1>5. PacketTypes'
  BY DEF PacketTypes, SpeakTypes
<1>6. BoundTypes'
  BY DEF BoundTypes
<1>7. EventTyped'
  BY DEF EventTyped
<1>8. PlacesInv' /\ LadderInv'
  BY DEF ContractTypes, LadderTypes, SpeakTypes, PlacesInv, LadderInv
<1>9. SyncInv'
  BY DEF ContractTypes, LadderTypes, SpeakTypes, SiteTypes, PacketTypes, BoundTypes,
         PlacesInv, LadderInv, SyncInv
<1>10. RefusedInv' /\ StoppedInv' /\ RateInv'
  BY DEF ContractTypes, LadderTypes, SpeakTypes, PlacesInv, RefusedInv, StoppedInv,
         RateInv
<1> QED
  BY <1>1, <1>2, <1>3, <1>4, <1>5, <1>6, <1>7, <1>8, <1>9, <1>10

\* A stop seen in the fragment loop ends the call.
LEMMA TextBuiltKeeps ==
  ASSUME SapiInv, TextBuilt
  PROVE  SapiInv'
<1> USE DEF SapiInv, Types, TextBuilt, Stops, MayGoOn, SpeakEndsWith
<1>1. ContractTypes' /\ LadderTypes' /\ SpeakTypes'
  BY DEF ContractTypes, LadderTypes, SpeakTypes, PlacesInv, LadderInv
<1>2. SiteTypes' /\ PacketTypes' /\ BoundTypes'
  BY DEF SiteTypes, PacketTypes, BoundTypes, SpeakTypes
<1>3. EventTyped'
  BY DEF EventTyped
<1>4. PlacesInv' /\ LadderInv'
  BY DEF ContractTypes, LadderTypes, SpeakTypes, PlacesInv, LadderInv
<1>5. SyncInv'
  BY DEF ContractTypes, LadderTypes, SpeakTypes, PlacesInv, LadderInv, SyncInv
<1>6. RefusedInv' /\ StoppedInv' /\ RateInv'
  BY DEF ContractTypes, LadderTypes, SpeakTypes, PlacesInv, RefusedInv, StoppedInv,
         RateInv
<1> QED
  BY <1>1, <1>2, <1>3, <1>4, <1>5, <1>6

\* The first request has the rate read last.
LEMMA RequestBuiltKeeps ==
  ASSUME SapiInv, RequestBuilt
  PROVE  SapiInv'
<1> USE DEF SapiInv, Types, RequestBuilt, BuildRequest, SpeakEndsWith
<1>1. ContractTypes'
  BY DEF ContractTypes, LadderTypes
<1>2. LadderTypes'
  BY DEF LadderTypes
<1>3. SiteTypes'
  BY DEF SiteTypes
<1>4. SpeakTypes'
  BY DEF SpeakTypes, SiteTypes, PacketTypes, PlacesInv
<1>5. PacketTypes'
  BY DEF PacketTypes, SpeakTypes
<1>6. BoundTypes'
  BY DEF BoundTypes
<1>7. EventTyped'
  BY DEF EventTyped
<1>8. PlacesInv' /\ LadderInv'
  BY DEF ContractTypes, LadderTypes, SpeakTypes, PlacesInv, LadderInv
<1>9. SyncInv'
  BY DEF ContractTypes, LadderTypes, SpeakTypes, SiteTypes, PacketTypes, BoundTypes,
         PlacesInv, LadderInv, SyncInv
<1>10. RefusedInv' /\ StoppedInv' /\ RateInv'
  BY DEF ContractTypes, LadderTypes, SpeakTypes, PlacesInv, RefusedInv, StoppedInv,
         RateInv
<1> QED
  BY <1>1, <1>2, <1>3, <1>4, <1>5, <1>6, <1>7, <1>8, <1>9, <1>10

\* A chunk counts its offsets from the audio written, at the rate asked for last.
LEMMA ChunkStartsKeeps ==
  ASSUME SapiInv, ChunkStarts
  PROVE  SapiInv'
<1> USE DEF SapiInv, Types, ChunkStarts, Stops, MayGoOn, SpeakEndsWith, AdjustRate,
            BuildRequest, SetChunkBase, LadderBegins
<1>1. ContractTypes'
  BY DEF ContractTypes, LadderTypes
<1>2. LadderTypes'
  BY DEF LadderTypes
<1>3. SiteTypes'
  BY DEF SiteTypes
<1>4. SpeakTypes'
  BY DEF SpeakTypes, SiteTypes, PacketTypes, PlacesInv
<1>5. PacketTypes'
  BY DEF PacketTypes, SpeakTypes
<1>6. BoundTypes'
  BY DEF BoundTypes
<1>7. EventTyped'
  BY DEF EventTyped
<1>8. PlacesInv' /\ LadderInv'
  BY DEF ContractTypes, LadderTypes, SpeakTypes, PlacesInv, LadderInv
<1>9. SyncInv'
  BY DEF ContractTypes, LadderTypes, SpeakTypes, SiteTypes, PacketTypes, BoundTypes,
         PlacesInv, LadderInv, SyncInv
<1>10. RefusedInv' /\ StoppedInv' /\ RateInv'
  BY DEF ContractTypes, LadderTypes, SpeakTypes, PlacesInv, RefusedInv, StoppedInv,
         RateInv
<1> QED
  BY <1>1, <1>2, <1>3, <1>4, <1>5, <1>6, <1>7, <1>8, <1>9, <1>10

\* The last chunk ends the call.
LEMMA ChunksDoneKeeps ==
  ASSUME SapiInv, ChunksDone
  PROVE  SapiInv'
<1> USE DEF SapiInv, Types, ChunksDone, SpeakEndsWith
<1>1. ContractTypes' /\ LadderTypes' /\ SpeakTypes'
  BY DEF ContractTypes, LadderTypes, SpeakTypes, PlacesInv, LadderInv
<1>2. SiteTypes' /\ PacketTypes' /\ BoundTypes'
  BY DEF SiteTypes, PacketTypes, BoundTypes, SpeakTypes
<1>3. EventTyped'
  BY DEF EventTyped
<1>4. PlacesInv' /\ LadderInv'
  BY DEF ContractTypes, LadderTypes, SpeakTypes, PlacesInv, LadderInv
<1>5. SyncInv'
  BY DEF ContractTypes, LadderTypes, SpeakTypes, PlacesInv, LadderInv, SyncInv
<1>6. RefusedInv' /\ StoppedInv' /\ RateInv'
  BY DEF ContractTypes, LadderTypes, SpeakTypes, PlacesInv, RefusedInv, StoppedInv,
         RateInv
<1> QED
  BY <1>1, <1>2, <1>3, <1>4, <1>5, <1>6

\* A chunk that failed is tried once more, any other is over.
LEMMA ChunkDoneKeeps == ASSUME SapiInv, ChunkDone PROVE SapiInv'
<1>0. Types BY DEF SapiInv
<1> USE <1>0 DEF SapiInv
<1>1. CASE result = "failed" /\ ~retried /\ LadderBegins(words)
  <2> USE <1>1 DEF ChunkDone, LadderBegins
  <2>1. Types'
    BY DEF Types, ContractTypes, LadderTypes, SiteTypes, SpeakTypes, PacketTypes,
       BoundTypes, EventTyped
  <2>2. PlacesInv' /\ LadderInv' /\ SyncInv' /\ RefusedInv' /\ StoppedInv' /\ RateInv'
    BY DEF PlacesInv, LadderInv, SyncInv, RefusedInv, StoppedInv, RateInv
  <2> QED
    BY <2>1, <2>2 DEF Types
<1>2. CASE UNCHANGED <<ladderVars, retried>>
  <2> USE <1>2 DEF ChunkDone, AfterChunk, SpeakEndsWith
  <2>0. chunk \in 1..chunks
    BY DEF PlacesInv
  <2>1. SpeakTypes'
    BY <2>0 DEF Types, SpeakTypes
  <2>2. Types'
    BY <2>1 DEF Types, ContractTypes, LadderTypes, SiteTypes, PacketTypes, BoundTypes,
       EventTyped
  <2>3. PlacesInv'
    BY <2>0 DEF Types, SpeakTypes, LadderTypes, PlacesInv
  <2>4. LadderInv' /\ SyncInv' /\ RefusedInv'
    BY DEF LadderInv, SyncInv, RefusedInv
  <2>5. StoppedInv' /\ RateInv'
    BY DEF StoppedInv, RateInv
  <2> QED
    BY <2>2, <2>3, <2>4, <2>5 DEF Types
<1> QED
  BY <1>1, <1>2 DEF ChunkDone

\* A packet begins only in a call whose sink has not refused.
LEMMA PacketComesKeeps == ASSUME SapiInv, PacketComes PROVE SapiInv'
<1>0. Types BY DEF SapiInv
<1>1. /\ pc = "speak" /\ at = "in" /\ left = 0 /\ size = 0 /\ ~refused /\ speaking
      /\ heard \in Nat /\ base \in Nat /\ chunkBase \in Nat /\ mark \in Nat
  BY <1>0 DEF PacketComes, Idle, SapiInv, PlacesInv, Types, ContractTypes,
     LadderTypes, SpeakTypes
<1>2. PICK n \in 0..MaxPacket :
        \/ n > 0 /\ UNCHANGED event /\ PacketBegins(n, mark)
        \/ \E m \in heard..(heard + n) : FireMarker(m) /\ PacketBegins(n, m)
  BY DEF PacketComes
<1>3. PICK m \in Nat : /\ PacketBegins(n, m)
                       /\ UNCHANGED event \/ event' = <<chunkBase + base + m>>
  BY <1>1, <1>2 DEF FireMarker
<1>4. /\ size' = n /\ left' = n /\ offset' \in Nat /\ mark' \in Nat
      /\ UNCHANGED <<ladderVars, speaking, heard, refused, how>>
  <2>1. CASE n = 0
    <3>1. CallFeeds(0, m, TRUE) /\ UNCHANGED packetVars
      BY <1>3, <2>1 DEF PacketBegins
    <3>2. /\ heard' = heard /\ mark' = m /\ refused' = refused /\ speaking' = speaking
          /\ how' = how /\ UNCHANGED ladderVars
      BY <1>0, <1>1, <3>1 DEF CallFeeds, Types, ContractTypes
    <3> QED
      BY <1>0, <1>1, <2>1, <3>1, <3>2 DEF Types, PacketTypes
  <2>2. CASE n # 0
    BY <1>1, <1>3, <2>2 DEF PacketBegins
  <2> QED
    BY <2>1, <2>2
<1>5. /\ UNCHANGED <<siteVars, lang, engine, pc, requestVars, chunkVars, sinkVars, status,
                     boundVars>>
  BY DEF PacketComes
<1>6. event' \in Seq(Nat)
  <2>1. chunkBase + base + m \in Nat
    BY <1>1
  <2>2. <<chunkBase + base + m>> \in Seq(Nat)
    BY <2>1
  <2> QED
    BY <1>0, <1>3, <2>2 DEF Types, EventTyped
<1>7. Types'
  BY <1>0, <1>4, <1>5, <1>6 DEF Types, ContractTypes, LadderTypes, SiteTypes,
     SpeakTypes, PacketTypes, BoundTypes, EventTyped
<1>8. PlacesInv' /\ LadderInv' /\ RateInv'
  BY <1>1, <1>4, <1>5 DEF SapiInv, PlacesInv, LadderInv, RateInv
<1>9. SyncInv'
  BY <1>1, <1>4, <1>5 DEF SapiInv, SyncInv
<1>10. RefusedInv' /\ StoppedInv'
  BY <1>1, <1>4, <1>5 DEF SapiInv, RefusedInv, StoppedInv
<1> QED
  BY <1>7, <1>8, <1>9, <1>10 DEF SapiInv, Types

\* A slice is written, or the sink refuses and the packet is over.
LEMMA WriteSliceKeeps == ASSUME SapiInv, WriteSlice PROVE SapiInv'
<1>0. Types BY DEF SapiInv
<1>1. /\ pc = "speak" /\ at = "in" /\ left \in 1..size
      /\ size \in 0..MaxPacket /\ size \in Nat /\ left \in Nat
      /\ refused = FALSE /\ speaking = TRUE /\ offset \in Nat
      /\ heard \in Nat /\ base \in Nat /\ chunkBase \in Nat /\ written \in Nat
      /\ (ctxAborted => retried)
  BY <1>0 DEF WriteSlice, Idle, SapiInv, PlacesInv, RefusedInv, StoppedInv, Types,
     ContractTypes, LadderTypes, SpeakTypes, PacketTypes
<1>2. /\ UNCHANGED <<lang, engine, pc, requestVars, chunkVars, status, boundVars>>
      /\ UNCHANGED <<ladderVars, siteRate, how, speaking>>
  BY <1>1 DEF WriteSlice, PacketDone, PacketGoesOn, CallFeeds, Stops
<1>3. /\ acts' \subseteq acts /\ ("rate" \in acts => "rate" \in acts')
  BY DEF WriteSlice, Stops
<1>4. LadderTypes' /\ SpeakTypes' /\ BoundTypes' /\ LadderInv'
  BY <1>0, <1>1, <1>2 DEF Types, LadderTypes, SpeakTypes, BoundTypes, SapiInv, LadderInv
<1>5. SiteTypes' /\ RateInv'
  BY <1>0, <1>1, <1>2, <1>3 DEF Types, SiteTypes, SapiInv, RateInv
<1>6. CASE written' = written + 1 /\ ctxAborted' = ctxAborted /\ left > 1 /\ PacketGoesOn
  <2> USE <1>0, <1>1, <1>2, <1>6 DEF PacketGoesOn
  <2>1. ContractTypes' /\ PacketTypes' /\ EventTyped'
    BY DEF Types, ContractTypes, PacketTypes, EventTyped
  <2>2. PlacesInv'
    BY DEF SapiInv, PlacesInv
  <2>3. SyncInv'
    BY DEF SapiInv, SyncInv
  <2>4. RefusedInv' /\ StoppedInv'
    BY DEF SapiInv, RefusedInv, StoppedInv
  <2> QED
    BY <1>4, <1>5, <2>1, <2>2, <2>3, <2>4 DEF SapiInv, Types
<1>7. CASE /\ left = 1 /\ written' = written + 1 /\ UNCHANGED <<ctxAborted, refused>>
           /\ heard' = heard + size /\ mark' = offset
           /\ left' = 0 /\ size' = 0 /\ offset' = 0 /\ event' = <<>>
  <2> USE <1>0, <1>1, <1>2, <1>7
  <2>1. ContractTypes' /\ PacketTypes' /\ EventTyped'
    BY DEF Types, ContractTypes, PacketTypes, EventTyped
  <2>2. PlacesInv' /\ RefusedInv' /\ StoppedInv'
    BY DEF SapiInv, PlacesInv, RefusedInv, StoppedInv
  <2>3. ~retried => written = chunkBase + base + heard + (size - 1)
    BY DEF SapiInv, SyncInv
  <2>4. /\ size' - left' = 0 /\ chunkBase' = chunkBase /\ base' = base
        /\ retried' = retried /\ at' = "in"
    OBVIOUS
  <2>5. ~retried => written' = chunkBase + base + heard' + 0
    BY ONLY <2>3, <1>1, <1>7
  <2>6. SyncInv'
    BY ONLY <2>4, <2>5 DEF SyncInv
  <2> QED
    BY <1>4, <1>5, <2>1, <2>2, <2>6 DEF SapiInv, Types
<1>8. CASE /\ written' = written /\ refused' = TRUE /\ ctxAborted' \in BOOLEAN
           /\ heard' = heard + size /\ mark' = offset
           /\ left' = 0 /\ size' = 0 /\ offset' = 0 /\ event' = <<>>
  <2> USE <1>0, <1>1, <1>2, <1>8
  <2>1. ContractTypes' /\ PacketTypes' /\ EventTyped'
    BY DEF Types, ContractTypes, PacketTypes, EventTyped
  <2>2. PlacesInv' /\ RefusedInv' /\ StoppedInv' /\ SyncInv'
    BY DEF SapiInv, PlacesInv, RefusedInv, StoppedInv, SyncInv
  <2> QED
    BY <1>4, <1>5, <2>1, <2>2 DEF SapiInv, Types
<1>9. CASE MayGoOn /\ written' = written + 1 /\ UNCHANGED <<siteVars, ctxAborted>>
           /\ IF left = 1 THEN PacketDone(TRUE) ELSE PacketGoesOn
  <2>1. CASE left = 1
    BY <1>1, <1>7, <1>9, <2>1 DEF PacketDone, CallFeeds
  <2>2. CASE left # 1
    BY <1>1, <1>6, <1>9, <2>2
  <2> QED
    BY <2>1, <2>2
<1>10. CASE /\ PacketDone(FALSE) /\ UNCHANGED written
            /\ Stops \/ UNCHANGED <<siteVars, sinkVars>>
  BY <1>0, <1>8, <1>10 DEF PacketDone, CallFeeds, Stops, Types, PacketTypes
<1> QED
  BY <1>9, <1>10 DEF WriteSlice

\* A call begins where the ladder is, and ends well only if nothing was refused.
LEMMA CallStepsKeeps == ASSUME SapiInv, CallSteps PROVE SapiInv'
<1>0. Types BY DEF SapiInv
<1>1. /\ pc = "speak" /\ left = 0 /\ size = 0
  BY DEF CallSteps, Idle, SapiInv, PlacesInv
<1>2. UNCHANGED <<siteVars, lang, engine, pc, requestVars, chunkVars, sinkVars, packetVars,
                 event, status, asked, changes, speaks>>
  BY DEF CallSteps
<1>3. CASE CallBegins /\ UNCHANGED fails
  <2> USE <1>0, <1>1, <1>2, <1>3 DEF CallBegins, SapiInv
  <2>1. ContractTypes' /\ LadderTypes'
    BY DEF Types, ContractTypes, LadderTypes
  <2>2. SiteTypes' /\ SpeakTypes' /\ PacketTypes' /\ BoundTypes' /\ EventTyped'
    BY DEF Types, SiteTypes, SpeakTypes, PacketTypes, BoundTypes, EventTyped
  <2>3. PlacesInv' /\ LadderInv'
    BY DEF PlacesInv, LadderInv
  <2>4. SyncInv'
    BY DEF SyncInv, Types, SpeakTypes, LadderTypes
  <2>5. RefusedInv' /\ StoppedInv' /\ RateInv'
    BY DEF RefusedInv, StoppedInv, RateInv
  <2> QED
    BY <2>1, <2>2, <2>3, <2>4, <2>5 DEF Types
<1>4. ASSUME NEW outcome \in {"done", "aborted", "failed"},
             outcome = "aborted" => refused,
             outcome = "failed" => fails < MaxFails,
             CallEnds(outcome),
             fails' = IF outcome = "failed" THEN fails + 1 ELSE fails
      PROVE  SapiInv'
  <2> USE <1>0, <1>1, <1>2, <1>4 DEF CallEnds, SapiInv
  <2>0. outcome = "done" => ~refused
    BY DEF End
  <2>1. ContractTypes' /\ LadderTypes'
    BY DEF Types, ContractTypes, LadderTypes
  <2>2. BoundTypes'
    BY DEF Types, BoundTypes
  <2>3. SiteTypes' /\ SpeakTypes' /\ PacketTypes' /\ EventTyped'
    BY DEF Types, SiteTypes, SpeakTypes, PacketTypes, EventTyped
  <2>4. PlacesInv' /\ LadderInv'
    BY DEF PlacesInv, LadderInv
  <2>5. SyncInv'
    BY <2>0 DEF SyncInv, Types, SpeakTypes, LadderTypes, ContractTypes
  <2>6. RefusedInv' /\ StoppedInv' /\ RateInv'
    BY <2>0 DEF RefusedInv, StoppedInv, RateInv
  <2> QED
    BY <2>1, <2>2, <2>3, <2>4, <2>5, <2>6 DEF Types
<1> QED
  BY <1>3, <1>4 DEF CallSteps

\* A text that was not heard had no audio: the repairs count from where it did.
LEMMA PlainDoneKeeps ==
  ASSUME SapiInv, pc = "speak", PlainDone,
         UNCHANGED <<siteVars, lang, engine, pc, requestVars, chunkVars, sinkVars,
                     packetVars, event, status, boundVars>>
  PROVE  SapiInv'
<1> USE DEF SapiInv, Types, PlainDone, Failed, Aborted, Heard, LadderReturns, Repairs
<1>1. ContractTypes' /\ LadderTypes' /\ SpeakTypes'
  BY DEF ContractTypes, LadderTypes, SpeakTypes, PlacesInv, LadderInv
<1>2. SiteTypes' /\ PacketTypes' /\ BoundTypes'
  BY DEF SiteTypes, PacketTypes, BoundTypes, SpeakTypes
<1>3. EventTyped'
  BY DEF EventTyped
<1>4. PlacesInv' /\ LadderInv'
  BY DEF ContractTypes, LadderTypes, SpeakTypes, PlacesInv, LadderInv
<1>5. SyncInv'
  BY DEF ContractTypes, LadderTypes, SpeakTypes, PlacesInv, LadderInv, SyncInv
<1>6. RefusedInv' /\ StoppedInv' /\ RateInv'
  BY DEF ContractTypes, LadderTypes, SpeakTypes, PlacesInv, RefusedInv, StoppedInv,
         RateInv
<1> QED
  BY <1>1, <1>2, <1>3, <1>4, <1>5, <1>6

\* A repair is spoken or passed over.
LEMMA RepairKeeps ==
  ASSUME SapiInv, pc = "speak", Repair,
         UNCHANGED <<siteVars, lang, engine, pc, requestVars, chunkVars, sinkVars,
                     packetVars, event, status, boundVars>>
  PROVE  SapiInv'
<1> USE DEF SapiInv, Types, Repair
<1>1. ContractTypes' /\ LadderTypes' /\ SpeakTypes'
  BY DEF ContractTypes, LadderTypes, SpeakTypes, PlacesInv, LadderInv
<1>2. SiteTypes' /\ PacketTypes' /\ BoundTypes'
  BY DEF SiteTypes, PacketTypes, BoundTypes, SpeakTypes
<1>3. EventTyped'
  BY DEF EventTyped
<1>4. PlacesInv' /\ LadderInv'
  BY DEF ContractTypes, LadderTypes, SpeakTypes, PlacesInv, LadderInv
<1>5. SyncInv'
  BY DEF ContractTypes, LadderTypes, SpeakTypes, PlacesInv, LadderInv, SyncInv
<1>6. RefusedInv' /\ StoppedInv' /\ RateInv'
  BY DEF ContractTypes, LadderTypes, SpeakTypes, PlacesInv, RefusedInv, StoppedInv,
         RateInv
<1> QED
  BY <1>1, <1>2, <1>3, <1>4, <1>5, <1>6

\* A silent repair leaves the stream where it was.
LEMMA RepairDoneKeeps ==
  ASSUME SapiInv, pc = "speak", RepairDone,
         UNCHANGED <<siteVars, lang, engine, pc, requestVars, chunkVars, sinkVars,
                     packetVars, event, status, boundVars>>
  PROVE  SapiInv'
<1> USE DEF SapiInv, Types, RepairDone, Failed, Aborted, Heard
<1>1. ContractTypes' /\ LadderTypes' /\ SpeakTypes'
  BY DEF ContractTypes, LadderTypes, SpeakTypes, PlacesInv, LadderInv
<1>2. SiteTypes' /\ PacketTypes' /\ BoundTypes'
  BY DEF SiteTypes, PacketTypes, BoundTypes, SpeakTypes
<1>3. EventTyped'
  BY DEF EventTyped
<1>4. PlacesInv' /\ LadderInv'
  BY DEF ContractTypes, LadderTypes, SpeakTypes, PlacesInv, LadderInv
<1>5. SyncInv'
  BY DEF ContractTypes, LadderTypes, SpeakTypes, PlacesInv, LadderInv, SyncInv
<1>6. RefusedInv' /\ StoppedInv' /\ RateInv'
  BY DEF ContractTypes, LadderTypes, SpeakTypes, PlacesInv, RefusedInv, StoppedInv,
         RateInv
<1> QED
  BY <1>1, <1>2, <1>3, <1>4, <1>5, <1>6

\* A heard or stopped repair ends the ladder.
LEMMA RepairHeardKeeps ==
  ASSUME SapiInv, pc = "speak", RepairHeard,
         UNCHANGED <<siteVars, lang, engine, pc, requestVars, chunkVars, sinkVars,
                     packetVars, event, status, boundVars>>
  PROVE  SapiInv'
<1> USE DEF SapiInv, Types, RepairHeard, Failed, Aborted, Heard, LadderReturns
<1>1. ContractTypes' /\ LadderTypes' /\ SpeakTypes'
  BY DEF ContractTypes, LadderTypes, SpeakTypes, PlacesInv, LadderInv
<1>2. SiteTypes' /\ PacketTypes' /\ BoundTypes'
  BY DEF SiteTypes, PacketTypes, BoundTypes, SpeakTypes
<1>3. EventTyped'
  BY DEF EventTyped
<1>4. PlacesInv' /\ LadderInv'
  BY DEF ContractTypes, LadderTypes, SpeakTypes, PlacesInv, LadderInv
<1>5. SyncInv'
  BY DEF ContractTypes, LadderTypes, SpeakTypes, PlacesInv, LadderInv, SyncInv
<1>6. RefusedInv' /\ StoppedInv' /\ RateInv'
  BY DEF ContractTypes, LadderTypes, SpeakTypes, PlacesInv, RefusedInv, StoppedInv,
         RateInv
<1> QED
  BY <1>1, <1>2, <1>3, <1>4, <1>5, <1>6

\* The first word counts from the start of the chunk.
LEMMA WordsBeginKeeps ==
  ASSUME SapiInv, pc = "speak", WordsBegin,
         UNCHANGED <<siteVars, lang, engine, pc, requestVars, chunkVars, sinkVars,
                     packetVars, event, status, boundVars>>
  PROVE  SapiInv'
<1> USE DEF SapiInv, Types, WordsBegin
<1>1. ContractTypes' /\ LadderTypes' /\ SpeakTypes'
  BY DEF ContractTypes, LadderTypes, SpeakTypes, PlacesInv, LadderInv
<1>2. SiteTypes' /\ PacketTypes' /\ BoundTypes'
  BY DEF SiteTypes, PacketTypes, BoundTypes, SpeakTypes
<1>3. EventTyped'
  BY DEF EventTyped
<1>4. PlacesInv' /\ LadderInv'
  BY DEF ContractTypes, LadderTypes, SpeakTypes, PlacesInv, LadderInv
<1>5. SyncInv'
  BY DEF ContractTypes, LadderTypes, SpeakTypes, PlacesInv, LadderInv, SyncInv
<1>6. RefusedInv' /\ StoppedInv' /\ RateInv'
  BY DEF ContractTypes, LadderTypes, SpeakTypes, PlacesInv, RefusedInv, StoppedInv,
         RateInv
<1> QED
  BY <1>1, <1>2, <1>3, <1>4, <1>5, <1>6

\* A word that was heard moves the base of the next.
LEMMA WordDoneKeeps ==
  ASSUME SapiInv, pc = "speak", WordDone,
         UNCHANGED <<siteVars, lang, engine, pc, requestVars, chunkVars, sinkVars,
                     packetVars, event, status, boundVars>>
  PROVE  SapiInv'
<1> USE DEF SapiInv, Types, WordDone, Failed, Aborted, Heard, LadderReturns, NextWord,
            Repairs
<1>1. ContractTypes' /\ LadderTypes' /\ SpeakTypes'
  BY DEF ContractTypes, LadderTypes, SpeakTypes, PlacesInv, LadderInv
<1>2. SiteTypes' /\ PacketTypes' /\ BoundTypes'
  BY DEF SiteTypes, PacketTypes, BoundTypes, SpeakTypes
<1>3. EventTyped'
  BY DEF EventTyped
<1>4. PlacesInv' /\ LadderInv'
  BY DEF ContractTypes, LadderTypes, SpeakTypes, PlacesInv, LadderInv
<1>5. SyncInv'
  BY DEF ContractTypes, LadderTypes, SpeakTypes, PlacesInv, LadderInv, SyncInv
<1>6. RefusedInv' /\ StoppedInv' /\ RateInv'
  BY DEF ContractTypes, LadderTypes, SpeakTypes, PlacesInv, RefusedInv, StoppedInv,
         RateInv
<1> QED
  BY <1>1, <1>2, <1>3, <1>4, <1>5, <1>6

\* A word that stays silent moves the base by nothing.
LEMMA WordSilentKeeps ==
  ASSUME SapiInv, pc = "speak", WordSilent,
         UNCHANGED <<siteVars, lang, engine, pc, requestVars, chunkVars, sinkVars,
                     packetVars, event, status, boundVars>>
  PROVE  SapiInv'
<1> USE DEF SapiInv, Types, WordSilent, NextWord, LadderReturns
<1>1. ContractTypes' /\ LadderTypes' /\ SpeakTypes'
  BY DEF ContractTypes, LadderTypes, SpeakTypes, PlacesInv, LadderInv
<1>2. SiteTypes' /\ PacketTypes' /\ BoundTypes'
  BY DEF SiteTypes, PacketTypes, BoundTypes, SpeakTypes
<1>3. EventTyped'
  BY DEF EventTyped
<1>4. PlacesInv' /\ LadderInv'
  BY DEF ContractTypes, LadderTypes, SpeakTypes, PlacesInv, LadderInv
<1>5. SyncInv'
  BY DEF ContractTypes, LadderTypes, SpeakTypes, PlacesInv, LadderInv, SyncInv
<1>6. RefusedInv' /\ StoppedInv' /\ RateInv'
  BY DEF ContractTypes, LadderTypes, SpeakTypes, PlacesInv, RefusedInv, StoppedInv,
         RateInv
<1> QED
  BY <1>1, <1>2, <1>3, <1>4, <1>5, <1>6

\* A transport failure ends the ladder.
LEMMA LadderFailsKeeps ==
  ASSUME SapiInv, pc = "speak", LadderFails,
         UNCHANGED <<siteVars, lang, engine, pc, requestVars, chunkVars, sinkVars,
                     packetVars, event, status, boundVars>>
  PROVE  SapiInv'
<1> USE DEF SapiInv, Types, LadderFails, Failed, LadderReturns
<1>1. ContractTypes' /\ LadderTypes' /\ SpeakTypes'
  BY DEF ContractTypes, LadderTypes, SpeakTypes, PlacesInv, LadderInv
<1>2. SiteTypes' /\ PacketTypes' /\ BoundTypes'
  BY DEF SiteTypes, PacketTypes, BoundTypes, SpeakTypes
<1>3. EventTyped'
  BY DEF EventTyped
<1>4. PlacesInv' /\ LadderInv'
  BY DEF ContractTypes, LadderTypes, SpeakTypes, PlacesInv, LadderInv
<1>5. SyncInv'
  BY DEF ContractTypes, LadderTypes, SpeakTypes, PlacesInv, LadderInv, SyncInv
<1>6. RefusedInv' /\ StoppedInv' /\ RateInv'
  BY DEF ContractTypes, LadderTypes, SpeakTypes, PlacesInv, RefusedInv, StoppedInv,
         RateInv
<1> QED
  BY <1>1, <1>2, <1>3, <1>4, <1>5, <1>6

-----------------------------------------------------------------------------
\* Nothing happens.
LEMMA StutterKeeps ==
  ASSUME SapiInv, UNCHANGED vars
  PROVE  SapiInv'
BY DEF vars, SapiInv, Types, ContractTypes, LadderTypes, SiteTypes, SpeakTypes,
   PacketTypes, BoundTypes, EventTyped, PlacesInv, LadderInv, SyncInv, RefusedInv,
   StoppedInv, RateInv

\* The invariant holds before the first Speak.
LEMMA SapiInvInit == SapiInit => SapiInv
<1> SUFFICES ASSUME SapiInit PROVE SapiInv
  OBVIOUS
<1> USE DEF SapiInit, LadderInit, ContractInit
<1>0. /\ MaxChunks \in Nat /\ MaxWords \in Nat /\ MaxPacket \in Nat /\ MaxFails \in Nat
      /\ MaxActs \in Nat /\ MaxChanges \in Nat /\ MaxSpeaks \in Nat
  OBVIOUS
<1>1. ContractTypes
  BY DEF ContractTypes
<1>2. LadderTypes
  BY <1>0 DEF LadderTypes
<1>3. SiteTypes
  BY DEF SiteTypes
<1>4. SpeakTypes
  <2>1. 0 \in 0..MaxChunks /\ 0 \in 0..(MaxChunks + 1) /\ 0 \in Nat
    BY <1>0
  <2>2. rate \in Rates /\ reqRate \in Rates /\ reqLang \in Langs /\ textLang \in Langs
    OBVIOUS
  <2> QED
    BY <2>1, <2>2 DEF SpeakTypes
<1>5. PacketTypes
  <2>1. 0 \in 0..MaxPacket /\ 0 \in 0..0
    BY <1>0
  <2> QED
    BY <2>1 DEF PacketTypes
<1>6. BoundTypes
  BY <1>0 DEF BoundTypes
<1>7. EventTyped
  <2>1. <<>> \in Seq(Nat)
    OBVIOUS
  <2> QED
    BY <2>1 DEF EventTyped
<1>8. PlacesInv /\ LadderInv /\ SyncInv /\ RefusedInv /\ StoppedInv /\ RateInv
  BY DEF PlacesInv, LadderInv, SyncInv, RefusedInv, StoppedInv, RateInv
<1> QED
  BY <1>1, <1>2, <1>3, <1>4, <1>5, <1>6, <1>7, <1>8 DEF SapiInv, Types

\* Every step keeps it.
LEMMA SapiInvStep == SapiInv /\ [Next]_vars => SapiInv'
<1> SUFFICES ASSUME SapiInv, [Next]_vars PROVE SapiInv'
  OBVIOUS
<1>1. CASE LadderSteps
  <2>1. /\ pc = "speak"
        /\ UNCHANGED <<siteVars, lang, engine, pc, requestVars, chunkVars, sinkVars,
                       packetVars, event, status, boundVars>>
    BY <1>1 DEF LadderSteps
  <2>2. \/ PlainDone \/ Repair \/ RepairDone \/ RepairHeard \/ WordsBegin \/ WordDone
        \/ WordSilent \/ LadderFails
    BY <1>1 DEF LadderSteps, Ladder
  <2> QED
    BY ONLY SapiInv, <2>1, <2>2, PlainDoneKeeps, RepairKeeps, RepairDoneKeeps,
       RepairHeardKeeps, WordsBeginKeeps, WordDoneKeeps, WordSilentKeeps,
       LadderFailsKeeps
<1>2. CASE SapiSteps /\ ~LadderSteps
  <2>1. \/ TextBuilt \/ RequestBuilt \/ ChunkStarts \/ ChunksDone \/ ChunkDone
        \/ PacketComes \/ WriteSlice \/ CallSteps
    BY <1>2 DEF SapiSteps
  <2> QED
    BY ONLY SapiInv, <2>1, TextBuiltKeeps, RequestBuiltKeeps, ChunkStartsKeeps,
       ChunksDoneKeeps, ChunkDoneKeeps, PacketComesKeeps, WriteSliceKeeps, CallStepsKeeps
<1>3. CASE AppAsks \/ LanguageChanges \/ SpeakCalled \/ UNCHANGED vars
  BY ONLY SapiInv, <1>3, AppAsksKeeps, LanguageChangesKeeps, SpeakCalledKeeps,
     StutterKeeps
<1> QED
  BY <1>1, <1>2, <1>3 DEF Next, Over

\* So it always holds.
LEMMA SapiInvHolds == Spec => []SapiInv
BY SapiInvInit, SapiInvStep, PTL DEF Spec

\* Every variable of Speak, the ladder and the sink keeps its type.
THEOREM SapiTypeCorrect == Spec => []TypeOK
<1>1. SapiInv => TypeOK
  BY TypesSplit DEF SapiInv
<1> QED
  BY <1>1, SapiInvHolds, PTL

\* Until a chunk is tried again after a transport failure, the engine's offsets count from
\* where its audio begins in the stream, through chunks, repairs and words.
THEOREM StaysInStep == Spec => []InStepUnlessRetried
<1>1. SapiInv => InStepUnlessRetried
  <2> SUFFICES ASSUME SapiInv, ~retried, at = "in", left = 0, ~refused
               PROVE  written = chunkBase + base + heard
    BY DEF InStepUnlessRetried, InStep, Idle
  <2>1. size = 0 /\ chunkBase \in Nat /\ base \in Nat /\ heard \in Nat
    BY DEF SapiInv, Types, PlacesInv, ContractTypes, LadderTypes, SpeakTypes
  <2> QED
    BY <2>1 DEF SapiInv, SyncInv
<1> QED
  BY <1>1, SapiInvHolds, PTL

\* No change of the rate is lost: while the request has an older rate the flag is up.
THEOREM RateIsNotLost == Spec => []RateNotLost
<1>1. SapiInv => RateNotLost
  BY DEF SapiInv, RateInv, RateNotLost
<1> QED
  BY <1>1, SapiInvHolds, PTL

\* Only the sink places events.
LEMMA OnlyPacketsPlace ==
  ASSUME [Next]_vars, event' # event, event' # <<>> PROVE PacketComes
<1>1. ~Ladder \/ UNCHANGED event \/ ~LadderSteps
  BY DEF LadderSteps
<1>2. WriteSlice => event' = event \/ event' = <<>>
  BY DEF WriteSlice, PacketDone, PacketGoesOn
<1> QED
  BY <1>2 DEF Next, AppAsks, LanguageChanges, SpeakCalled, SapiSteps, Over, vars,
     TextBuilt, RequestBuilt, ChunkStarts, ChunksDone, ChunkDone, CallSteps, LadderSteps

\* An event lies in the audio that is written next, where the stream has got to.
THEOREM EventsLieInTheAudio == Spec => EventsPlaced
<1>1. SapiInv /\ [Next]_vars =>
        [event' # event /\ event' # <<>> /\ ~retried =>
           event'[1] \in written..(written + size')]_vars
  <2> SUFFICES ASSUME SapiInv, [Next]_vars, event' # event, event' # <<>>, ~retried
               PROVE  event'[1] \in written..(written + size')
    OBVIOUS
  <2>1. PacketComes
    BY OnlyPacketsPlace
  <2>2. /\ at = "in" /\ left = 0 /\ size = 0 /\ heard \in Nat /\ base \in Nat
        /\ chunkBase \in Nat /\ written = chunkBase + base + heard
    BY <2>1 DEF PacketComes, Idle, SapiInv, Types, PlacesInv, SyncInv, ContractTypes,
       LadderTypes, SpeakTypes
  <2>3. PICK n \in 0..MaxPacket :
          \E m \in heard..(heard + n) : FireMarker(m) /\ PacketBegins(n, m)
    BY <2>1 DEF PacketComes
  <2>9. PICK m \in heard..(heard + n) : FireMarker(m) /\ PacketBegins(n, m)
    BY <2>3
  <2>4. size' = n
    BY <2>2, <2>9 DEF PacketBegins
  <2>5. event'[1] = chunkBase + base + m
    BY <2>9 DEF FireMarker
  <2>6. m \in Nat /\ n \in Nat /\ heard <= m /\ m <= heard + n
    BY <2>2, <2>9
  <2> QED
    BY <2>2, <2>4, <2>5, <2>6
<1> QED
  BY <1>1, SapiInvHolds, PTL DEF Spec, EventsPlaced

\* After a stop the site gets no audio and no event: the sink has refused, and the ladder,
\* which alone still moves, does not call it again.
THEOREM StopIsQuiet == Spec => QuietAfterStop
<1>1. SapiInv /\ [Next]_vars =>
        [ctxAborted /\ ~retried /\ pc # "idle" => UNCHANGED <<written, event>>]_vars
  <2> SUFFICES ASSUME SapiInv, [Next]_vars, ctxAborted, ~retried, pc # "idle"
               PROVE  UNCHANGED <<written, event>>
    OBVIOUS
  <2>1. pc = "speak" /\ left = 0 /\ ~(at = "in" /\ ~refused)
    BY DEF SapiInv, StoppedInv
  <2>2. ~PacketComes /\ ~WriteSlice
    BY <2>1 DEF PacketComes, WriteSlice, Idle
  <2> QED
    BY <2>1, <2>2 DEF Next, AppAsks, LanguageChanges, SpeakCalled, SapiSteps, Over,
       vars, TextBuilt, RequestBuilt, ChunkStarts, ChunksDone, ChunkDone, CallSteps,
       LadderSteps
<1> QED
  BY <1>1, SapiInvHolds, PTL DEF Spec, QuietAfterStop
=============================================================================
