------------------------------ MODULE SapiSpeak ------------------------------
(***************************************************************************)
(* ISpTTSEngineImpl::Speak (src/ISpTTSEngineImpl.cpp) for the custom voice *)
(* and the SAPI site it serves: a text is cut into chunks, each chunk goes *)
(* through LucentEngine::speak (SpeakLadder), audio goes to the site in    *)
(* slices, bookmarks become events at stream offsets.  Meanwhile the       *)
(* application may ask for an abort, a skip or another rate, and the       *)
(* configuration utility may change the language.                          *)
(*                                                                         *)
(* The lock g_engineCs is held while a text is rendered, so the engine has *)
(* one caller at a time: one Speak is modelled, called again and again.    *)
(* Audio is counted in slices of write_audio.                              *)
(***************************************************************************)
EXTENDS SpeakLadder, Sequences

CONSTANTS
  Langs,       \* languages settings.ini can name
  FirstLang,   \* the one it names at first
  Rates,       \* rates the application can ask for
  FirstRate,   \* the one it has asked for when Speak is first called
  MaxChunks,   \* chunks of a text
  MaxWords,    \* words of a chunk
  MaxPacket,   \* slices of an audio packet
  MaxHeard,    \* slices of a call of Speak
  MaxFails,    \* transport failures
  MaxActs,     \* requests of the application
  MaxChanges,  \* changes of the language
  MaxSpeaks    \* calls of Speak

ASSUME SapiAssumption ==
  /\ FirstRate \in Rates /\ FirstLang \in Langs
  /\ {MaxChunks, MaxWords, MaxPacket, MaxHeard, MaxFails, MaxActs, MaxChanges, MaxSpeaks}
       \subseteq Nat
  /\ MaxWords > 0

VARIABLES
  \* the site (external), and settings.ini
  acts,        \* the flags GetActions returns
  siteRate,    \* what GetRate returns (GetVolume and its flag work the same way)
  lang,        \* the language in settings.ini
  \* the process
  engine,      \* g_engine exists, and the DLL is pinned
  \* one call of Speak
  pc,          \* where it is
  rate,        \* sapi_rate
  reqRate, reqLang,   \* VoiceRequest: speed factor, language
  textLang,    \* the language whose code page the text was converted to
  chunks, chunk,
  written,     \* ctx.bytes_written
  chunkBase,   \* ctx.chunk_base
  ctxAborted,  \* ctx.aborted
  retried,     \* this chunk is on its second attempt
  left, size, offset,  \* the packet in the sink: slices to write, slices, its bookmark
  event,       \* ghost: <<where in the stream>> the event of that packet was placed
  status,      \* what Speak returned
  \* bounds
  fails, asked, changes, speaks

siteVars    == <<acts, siteRate>>
requestVars == <<rate, reqRate, reqLang, textLang>>
chunkVars   == <<chunks, chunk, chunkBase, retried>>
sinkVars    == <<written, ctxAborted>>
packetVars  == <<left, size, offset>>
boundVars   == <<fails, asked, changes, speaks>>
vars == <<contractVars, ladderVars, siteVars, lang, engine, pc, requestVars, chunkVars,
          sinkVars, packetVars, event, status, boundVars>>

SapiInit ==
  /\ LadderInit
  /\ acts = {} /\ siteRate = FirstRate /\ lang = FirstLang
  /\ engine = FALSE
  /\ pc = "idle" /\ rate = siteRate /\ reqRate = siteRate /\ reqLang = lang
  /\ textLang = lang
  /\ chunks = 0 /\ chunk = 0 /\ chunkBase = 0 /\ retried = FALSE
  /\ written = 0 /\ ctxAborted = FALSE
  /\ left = 0 /\ size = 0 /\ offset = 0
  /\ event = <<>>
  /\ status = "none"
  /\ fails = 0 /\ asked = 0 /\ changes = 0 /\ speaks = 0

-----------------------------------------------------------------------------
\* The application, through the site, and the configuration utility.

AppAsks ==
  /\ pc # "idle" /\ asked < MaxActs
  /\ asked' = asked + 1
  /\ \/ \E a \in {"abort", "skip"} : acts' = acts \cup {a} /\ UNCHANGED siteRate
     \/ \E r \in Rates \ {siteRate} : siteRate' = r /\ acts' = acts \cup {"rate"}
  /\ UNCHANGED <<contractVars, ladderVars, lang, engine, pc, requestVars, chunkVars,
                 sinkVars, packetVars, event, status, fails, changes, speaks>>

LanguageChanges ==
  /\ changes < MaxChanges
  /\ changes' = changes + 1
  /\ \E l \in Langs \ {lang} : lang' = l
  /\ UNCHANGED <<contractVars, ladderVars, siteVars, engine, pc, requestVars, chunkVars,
                 sinkVars, packetVars, event, status, fails, asked, speaks>>

\* check_actions: whether the call may go on, and what it does if not.
MayGoOn == acts \cap {"abort", "skip"} = {}
Stops ==
  /\ ~MayGoOn
  /\ ctxAborted' = TRUE
  /\ acts' = IF "abort" \in acts THEN acts ELSE acts \ {"skip"}
  /\ UNCHANGED siteRate

SpeakEndsWith(s) ==
  /\ pc' = "idle"
  /\ status' = s

-----------------------------------------------------------------------------
\* Speak up to the render loop.

\* GetRate clears the flag.
SpeakCalled ==
  /\ pc = "idle" /\ speaks < MaxSpeaks
  /\ speaks' = speaks + 1
  /\ rate' = siteRate
  /\ acts' = acts \ {"rate"}
  /\ written' = 0 /\ ctxAborted' = FALSE
  /\ event' = <<>>
  /\ pc' = "text"
  /\ UNCHANGED <<contractVars, ladderVars, siteRate, lang, engine, reqRate, reqLang,
                 textLang, chunkVars, packetVars, status, fails, asked, changes>>

\* The fragment loop, which checks for an abort at every fragment.
TextBuilt ==
  /\ pc = "text"
  /\ \/ Stops /\ SpeakEndsWith("ok") /\ UNCHANGED written
     \/ /\ MayGoOn
        /\ pc' = "request" \/ SpeakEndsWith("ok")      \* or nothing speakable
        /\ pc' = "request" => UNCHANGED status
        /\ UNCHANGED <<siteVars, sinkVars>>
  /\ UNCHANGED <<contractVars, ladderVars, lang, engine, requestVars, chunkVars,
                 packetVars, event, boundVars>>

\* build_request takes a snapshot of the settings.
BuildRequest(r) ==
  /\ reqRate' = r
  /\ reqLang' = lang

RequestBuilt ==
  /\ pc = "request"
  /\ BuildRequest(rate)
  /\ textLang' = reqLang'
  /\ \/ /\ engine' = TRUE
        /\ pc' = "chunk"
        /\ \E n \in 1..MaxChunks : chunks' = n
        /\ chunk' = 1
        /\ UNCHANGED status
     \/ /\ SpeakEndsWith("failed")            \* no engine directory, or no such speaker
        /\ UNCHANGED <<engine, chunks, chunk>>
  /\ UNCHANGED <<contractVars, ladderVars, siteVars, lang, rate, chunkBase, retried,
                 sinkVars, packetVars, event, boundVars>>

-----------------------------------------------------------------------------
\* The render loop.

\* Slip: the new rate is asked for, and the request is left as it was.
AdjustRateOnly ==
  IF "rate" \in acts
    THEN /\ rate' = siteRate /\ acts' = acts \ {"rate"}
         /\ UNCHANGED <<siteRate, reqRate, reqLang>>
    ELSE UNCHANGED <<siteVars, rate, reqRate, reqLang>>

\* A change of rate rebuilds the whole request.
AdjustRate ==
  IF "rate" \in acts
    THEN /\ rate' = siteRate /\ acts' = acts \ {"rate"} /\ UNCHANGED siteRate
         /\ BuildRequest(siteRate)
    ELSE UNCHANGED <<siteVars, rate, reqRate, reqLang>>

\* Slip: the offsets of a chunk count from the start of the text.
BaseKept == UNCHANGED chunkBase
\* Where the offsets of this chunk count from.
SetChunkBase == chunkBase' = written

ChunkStarts ==
  /\ pc = "chunk" /\ chunk <= chunks
  /\ \/ /\ Stops /\ SpeakEndsWith("ok")
        /\ UNCHANGED <<ladderVars, rate, reqRate, reqLang, written, chunkBase, retried>>
     \/ /\ MayGoOn
        /\ AdjustRate
        /\ SetChunkBase
        /\ retried' = FALSE
        /\ \E n \in 0..MaxWords : LadderBegins(n)
        /\ pc' = "speak"
        /\ UNCHANGED <<sinkVars, status>>
  /\ UNCHANGED <<contractVars, lang, engine, textLang, chunks, chunk, packetVars,
                 event, boundVars>>

ChunksDone ==
  /\ pc = "chunk" /\ chunk > chunks
  /\ SpeakEndsWith("ok")
  /\ UNCHANGED <<contractVars, ladderVars, siteVars, lang, engine, requestVars, chunkVars,
                 sinkVars, packetVars, event, boundVars>>

\* Slip: after a chunk the text goes on, aborted or not.
GoOnRegardless == chunk' = chunk + 1 /\ pc' = "chunk" /\ UNCHANGED status

\* What follows a chunk the engine has dealt with.
AfterChunk ==
  IF result = "aborted" \/ ctxAborted
    THEN SpeakEndsWith("ok") /\ UNCHANGED chunk
    ELSE chunk' = chunk + 1 /\ pc' = "chunk" /\ UNCHANGED status

\* speak() has returned; a transport failure is tried once more.
ChunkDone ==
  /\ pc = "speak" /\ at = "idle"
  /\ \/ /\ result = "failed" /\ ~retried
        /\ retried' = TRUE
        /\ LadderBegins(words)
        /\ UNCHANGED <<pc, chunk, status>>
     \/ /\ result = "failed" /\ retried
        /\ SpeakEndsWith("failed")
        /\ UNCHANGED <<ladderVars, chunk, retried>>
     \/ /\ result # "failed"
        /\ AfterChunk
        /\ UNCHANGED <<ladderVars, retried>>
  /\ UNCHANGED <<contractVars, siteVars, lang, engine, requestVars, chunks, chunkBase,
                 sinkVars, packetVars, event, boundVars>>

-----------------------------------------------------------------------------
\* The sink, inside speakOnce.

Idle == left = 0

\* fire_marker: the event of a bookmark at position m of the call.
FireMarker(m) == event' = <<chunkBase + base + m>>

\* The sink is not called for an empty packet.
PacketBegins(n, m) ==
  IF n = 0 THEN CallFeeds(0, m, TRUE) /\ UNCHANGED packetVars
           ELSE /\ size' = n /\ left' = n /\ offset' = m
                /\ UNCHANGED <<contractVars, ladderVars>>

\* A packet of audio comes, after its bookmark if it has one.  offset is where the last
\* bookmark of the call lies once the packet is heard.
PacketComes ==
  /\ pc = "speak" /\ at = "in" /\ Idle /\ ~refused
  /\ \E n \in 0..MaxPacket :
       /\ written + n <= MaxHeard
       /\ \/ n > 0 /\ UNCHANGED event /\ PacketBegins(n, mark)
          \/ \E m \in heard..(heard + n) : FireMarker(m) /\ PacketBegins(n, m)
  /\ UNCHANGED <<siteVars, lang, engine, pc, requestVars, chunkVars, sinkVars, status,
                 boundVars>>

PacketDone(accepted) ==
  /\ CallFeeds(size, offset, accepted)
  /\ left' = 0 /\ size' = 0 /\ offset' = 0 /\ event' = <<>>

PacketGoesOn ==
  /\ left' = left - 1
  /\ UNCHANGED <<size, offset, event, contractVars, ladderVars>>

\* write_audio: one slice.
WriteSlice ==
  /\ pc = "speak" /\ ~Idle
  /\ \/ /\ MayGoOn
        /\ written' = written + 1
        /\ IF left = 1 THEN PacketDone(TRUE) ELSE PacketGoesOn
        /\ UNCHANGED <<siteVars, ctxAborted>>
     \/ /\ Stops
        /\ PacketDone(FALSE)
        /\ UNCHANGED written
     \/ /\ MayGoOn                                     \* the site's Write fails
        /\ PacketDone(FALSE)
        /\ UNCHANGED <<siteVars, sinkVars>>
  /\ UNCHANGED <<lang, engine, pc, requestVars, chunkVars, status, boundVars>>

\* speakOnce begins and ends.  Nobody but the sink cancels here.
CallSteps ==
  /\ pc = "speak" /\ Idle
  /\ \/ CallBegins /\ UNCHANGED fails
     \/ \E outcome \in {"done", "aborted", "failed"} :
          /\ outcome = "aborted" => refused
          /\ outcome = "failed" => fails < MaxFails
          /\ CallEnds(outcome)
          /\ fails' = IF outcome = "failed" THEN fails + 1 ELSE fails
  /\ UNCHANGED <<siteVars, lang, engine, pc, requestVars, chunkVars, sinkVars, packetVars,
                 event, status, asked, changes, speaks>>

LadderSteps ==
  /\ pc = "speak" /\ Ladder
  /\ UNCHANGED <<siteVars, lang, engine, pc, requestVars, chunkVars, sinkVars, packetVars,
                 event, status, boundVars>>

-----------------------------------------------------------------------------
SapiSteps ==
  \/ TextBuilt \/ RequestBuilt \/ ChunkStarts \/ ChunksDone \/ ChunkDone
  \/ PacketComes \/ WriteSlice \/ CallSteps \/ LadderSteps

\* The application has nothing more to say.
Over == pc = "idle" /\ speaks = MaxSpeaks /\ UNCHANGED vars

Next == AppAsks \/ LanguageChanges \/ SpeakCalled \/ SapiSteps \/ Over

\* The thread that runs Speak is scheduled; that speakOnce ends is what LucentEngine
\* shows.
Spec == SapiInit /\ [][Next]_vars /\ WF_vars(SapiSteps)

-----------------------------------------------------------------------------
TypeOK ==
  /\ speaking \in BOOLEAN /\ heard \in Nat /\ mark \in Nat /\ refused \in BOOLEAN
  /\ how \in {"none", "done", "aborted", "failed"}
  /\ at \in {"idle", "call", "in", "out", "pass"}
  /\ stage \in {"plain", "repair", "word", "wordRepair"} /\ pass \in 0..(Passes + 1)
  /\ words \in 0..MaxWords /\ word \in 0..MaxWords /\ base \in Nat
  /\ result \in {"none", "ok", "aborted", "failed"}
  /\ acts \subseteq {"abort", "skip", "rate"} /\ siteRate \in Rates /\ lang \in Langs
  /\ engine \in BOOLEAN
  /\ pc \in {"idle", "text", "request", "chunk", "speak"}
  /\ rate \in Rates /\ reqRate \in Rates /\ reqLang \in Langs /\ textLang \in Langs
  /\ chunks \in 0..MaxChunks /\ chunk \in 0..(MaxChunks + 1)
  /\ chunkBase \in Nat /\ retried \in BOOLEAN
  /\ written \in Nat /\ ctxAborted \in BOOLEAN
  /\ size \in 0..MaxPacket /\ left \in 0..size /\ offset \in Nat
  /\ event \in Seq(Nat)
  /\ status \in {"none", "ok", "failed"}
  /\ fails \in 0..MaxFails /\ asked \in 0..MaxActs /\ changes \in 0..MaxChanges
  /\ speaks \in 0..MaxSpeaks

\* Bookmark offsets and the audio stream stay in step through chunks, repairs and words:
\* where the engine's offsets count from is where its audio begins in the stream.
InStep ==
  at = "in" /\ Idle /\ ~refused => written = chunkBase + base + heard

\* The same until a chunk has to be tried again after a transport failure.
InStepUnlessRetried == InStep \/ retried

\* An event is placed in the audio packet that is written next.
EventsPlaced ==
  [][event' # event /\ event' # <<>> /\ ~retried =>
       event'[1] \in written..(written + size')]_vars

\* Once Speak has seen an abort or a skip the site gets no audio and no event from it, as
\* long as the transport holds (README: "Cancellation [...] stops feeding SAPI").
QuietAfterStop ==
  [][ctxAborted /\ ~retried /\ pc # "idle" => UNCHANGED <<written, event>>]_vars

\* A change of rate is never lost: while a request still has an older rate the site's flag
\* is up, so the next chunk picks the change up.
RateNotLost ==
  pc \in {"request", "chunk", "speak"} /\ siteRate # (IF pc = "request" THEN rate ELSE reqRate)
    => "rate" \in acts

\* Speak returns, whatever the front end rejects and however often words are repaired.
SpeakEnds == (pc # "idle") ~> (pc = "idle")

\* The text a chunk is made of is in the code page of the language it is spoken in
\* (lucent_engine.h: "text (already converted to the language code page ...)").
EncodingMatches == pc = "speak" => textLang = reqLang
=============================================================================
