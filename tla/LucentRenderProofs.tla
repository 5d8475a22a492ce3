------------------------- MODULE LucentRenderProofs -------------------------
(***************************************************************************)
(* A text is rendered as its caller asked, and the child is never asked    *)
(* for a channel it would hang on.                                         *)
(*                                                                         *)
(* Both rest on the cache of channels: what it says of a channel's         *)
(* parameters is what the child will have once it has read its stdin       *)
(* (CacheInv), and it knows every channel the child has, except the one    *)
(* the call is waiting for (OpenInv).  A deadline that passes early breaks *)
(* the second: the answer then comes when nobody waits for it, which is    *)
(* why the theorems are about a prompt child (Prompt).  What the child     *)
(* says to an idle Discard, and who cancels, makes no difference to them.  *)
(***************************************************************************)
EXTENDS LucentStreamProofs

-----------------------------------------------------------------------------
\* Parameters on their way: packet m sets parameter t (Params or Volume) of channel c.
Sets(m, c, t) == m.type = t /\ m.chan = c
Asked(m) == IF m.type = "Params" THEN m.req.voice ELSE m.req.volume

\* Once the first n packets of q have been read, parameter t of channel c, which is b now,
\* will be v.
InForce(q, n, c, t, b, v) ==
  /\ \A i \in 1..n :
       Sets(q[i], c, t) /\ (\A j \in 1..n : j > i => ~Sets(q[j], c, t)) => Asked(q[i]) = v
  /\ (\A i \in 1..n : ~Sets(q[i], c, t)) => b = v

\* A packet added at the end changes nothing for what comes before it.
LEMMA ForceBefore ==
  ASSUME NEW q \in Seq(ToServer), NEW m \in ToServer, NEW r, r = Append(q, m),
         NEW n \in Nat, n <= Len(q), NEW c, NEW t, NEW b, NEW v
  PROVE  InForce(r, n, c, t, b, v) <=> InForce(q, n, c, t, b, v)
<1>1. \A i \in 1..n : r[i] = q[i]
  BY AddedAt
<1> QED
  BY <1>1 DEF InForce

\* A packet added at the end brings its own parameter into force, and nothing else.
LEMMA ForceAdded ==
  ASSUME NEW q \in Seq(ToServer), NEW m \in ToServer, NEW r, r = Append(q, m),
         NEW c, NEW t, NEW b, NEW v,
         IF Sets(m, c, t) THEN Asked(m) = v ELSE InForce(q, Len(q), c, t, b, v)
  PROVE  InForce(r, Len(r), c, t, b, v)
<1>1. /\ Len(q) \in Nat /\ Len(r) = Len(q) + 1 /\ r[Len(q) + 1] = m
      /\ \A i \in 1..Len(q) : r[i] = q[i]
  BY AppendAt
<1>2. \A i \in 1..(Len(q) + 1) : i \in 1..Len(q) \/ i = Len(q) + 1
  BY <1>1
<1>3. CASE Sets(m, c, t)
  <2>1. Len(q) + 1 \in 1..Len(r) /\ \A i \in 1..Len(q) : Len(q) + 1 > i
    BY <1>1
  <2>2. \A i \in 1..Len(r) : (\A j \in 1..Len(r) : j > i => ~Sets(r[j], c, t)) => i = Len(q) + 1
    BY <1>1, <1>2, <1>3, <2>1
  <2>3. ~(\A i \in 1..Len(r) : ~Sets(r[i], c, t))
    BY <1>1, <1>3, <2>1
  <2> QED
    BY <1>1, <1>3, <2>2, <2>3 DEF InForce
<1>4. CASE ~Sets(m, c, t)
  <2>1. InForce(q, Len(q), c, t, b, v)
    BY <1>4
  <2>2. ASSUME NEW i \in 1..Len(r), Sets(r[i], c, t),
               \A j \in 1..Len(r) : j > i => ~Sets(r[j], c, t)
        PROVE  Asked(r[i]) = v
    <3>1. i \in 1..Len(q) /\ r[i] = q[i]
      BY <1>1, <1>2, <1>4, <2>2
    <3>2. \A j \in 1..Len(q) : j > i => ~Sets(q[j], c, t)
      <4>1. \A j \in 1..Len(q) : j \in 1..Len(r) /\ r[j] = q[j]
        BY <1>1
      <4> QED
        BY <2>2, <4>1
    <3> QED
      BY <2>1, <2>2, <3>1, <3>2 DEF InForce
  <2>3. ASSUME \A i \in 1..Len(r) : ~Sets(r[i], c, t) PROVE b = v
    <3>1. \A j \in 1..Len(q) : j \in 1..Len(r) /\ r[j] = q[j]
      BY <1>1
    <3> QED
      BY <2>1, <2>3, <3>1 DEF InForce
  <2> QED
    BY <2>2, <2>3 DEF InForce
<1> QED
  BY <1>3, <1>4

\* The packet read first comes into force at once.
LEMMA ForceRead ==
  ASSUME NEW q \in Seq(ToServer), q # <<>>, NEW r, r = Tail(q),
         NEW n \in 1..Len(q), NEW c, NEW t, NEW b, NEW v, InForce(q, n, c, t, b, v),
         NEW d, d = IF Sets(q[1], c, t) THEN Asked(q[1]) ELSE b
  PROVE  InForce(r, n - 1, c, t, d, v)
<1>1. /\ Len(q) \in Nat /\ \A i \in 1..(Len(q) - 1) : r[i] = q[i + 1]
  BY TailAt
<1>2. n \in Nat /\ n >= 1 /\ n <= Len(q)
  BY <1>1
<1>3. \A i \in 1..(n - 1) : i + 1 \in 1..n /\ r[i] = q[i + 1] /\ i \in Nat
  BY <1>1, <1>2
<1>4. \A j \in 1..n : j = 1 \/ (j - 1 \in 1..(n - 1) /\ (j - 1) + 1 = j /\ j \in Nat)
  BY <1>2
<1>5. \A j \in 1..n : j = 1 \/ (j - 1 \in 1..(n - 1) /\ r[j - 1] = q[j] /\ j \in Nat)
  BY <1>3, <1>4
<1>6. ASSUME NEW i \in 1..(n - 1), Sets(r[i], c, t),
             \A j \in 1..(n - 1) : j > i => ~Sets(r[j], c, t)
      PROVE  Asked(r[i]) = v
  <2>1. i + 1 \in 1..n /\ r[i] = q[i + 1] /\ i \in Nat /\ i >= 1
    BY <1>3
  <2>2. ASSUME NEW j \in 1..n, j > i + 1 PROVE ~Sets(q[j], c, t)
    <3>1. j - 1 \in 1..(n - 1) /\ r[j - 1] = q[j] /\ j - 1 > i
      BY <1>5, <2>1, <2>2
    <3> QED
      BY <1>6, <3>1
  <2> QED
    BY <1>6, <2>1, <2>2 DEF InForce
<1>7. ASSUME \A i \in 1..(n - 1) : ~Sets(r[i], c, t) PROVE d = v
  <2>1. \A j \in 1..n : j # 1 => ~Sets(q[j], c, t)
    BY <1>5, <1>7
  <2>2. 1 \in 1..n
    BY <1>2
  <2>3. CASE Sets(q[1], c, t)
    <3>1. \A j \in 1..n : j > 1 => ~Sets(q[j], c, t)
      BY <2>1
    <3> QED
      BY <2>2, <2>3, <3>1 DEF InForce
  <2>4. CASE ~Sets(q[1], c, t)
    BY <2>1, <2>4 DEF InForce
  <2> QED
    BY <2>3, <2>4
<1> QED
  BY <1>6, <1>7 DEF InForce

-----------------------------------------------------------------------------
\* Where the caller is says what its channel is worth.
CallerInv ==
  /\ pc = "sendOpen" => ~MustRelaunch
  /\ pc \in {"arm", "activate", "drop", "params", "volume", "text"} => ch.id # 0
  /\ pc \in {"volume", "text"} => ch.voice = req.voice
  /\ pc = "text" => ch.volume = req.volume

\* The cache entry of the call, and the others.
LEMMA ChannelAt ==
  ASSUME TypeOK, NEW c \in CachedChannel, channels' = [channels EXCEPT ![Key(req)] = c],
         req' = req
  PROVE  /\ ch' = c
         /\ \A k \in Keys : k # Key(req) => channels'[k] = channels[k]
<1>1. Key(req) \in Keys /\ channels \in [Keys -> CachedChannel]
  BY ServerAssumption DEF TypeOK, EngineTypeOK, CallTypes, CacheTypes, Keys, Key
<1> QED
  BY <1>1 DEF ch

\* Every step keeps what the caller knows of its channel.
LEMMA CallerStep ==
  ASSUME TypeOK, CallInv, CallerInv, [Next]_vars PROVE CallerInv'
<1> USE DEF CallerInv, callVars, cacheVars, Closing, Waiting
<1>1. CASE \E r \in Requests : SpeakStarts(r)
  BY <1>1 DEF SpeakStarts
<1>2. CASE \/ EnsureRunning \/ CloseStdin \/ KillChild \/ JoinReader \/ ClearState \/ LoopTop
           \/ LoopTakes \/ LoopGivesUp \/ SinkCancel \/ SendText
  BY <1>2 DEF EnsureRunning, CloseStdin, KillChild, JoinReader, ClearState, LoopTop,
     LoopTakes, Audio, AudioTo, OtherPacket, LoopGivesUp, SinkCancel, StreamEnds,
     SendText, Return
<1>3. CASE Launch
  <2>1. channels = [k \in Keys |-> NoChannel] /\ channels' = channels /\ req' = req
    BY <1>3 DEF Launch, CallInv
  <2>2. ~MustRelaunch'
    BY <2>1 DEF MustRelaunch, NoChannel
  <2>3. pc' \in {"sendOpen", "lookup", "closeStdin", "idle"}
    BY <1>3 DEF Launch, Return
  <2> QED
    BY <2>2, <2>3
<1>4. CASE Lookup
  <2>1. UNCHANGED <<channels, req>>
    BY <1>4 DEF Lookup
  <2> QED
    BY <1>4, <2>1 DEF Lookup, MustRelaunch, ch
<1>5. CASE SendOpen
  BY <1>5 DEF SendOpen, Return
<1>6. CASE OpenChannelWaits
  <2>1. pc = "waitOpen" /\ pc' \in {"waitOpen", "arm", "idle"} /\ req' = req
    BY <1>6 DEF OpenChannelWaits, Return
  <2>2. ASSUME pc' = "arm" PROVE ch'.id # 0
    <3> DEFINE p == Head(queue)
               c == [NoChannel EXCEPT !.id = p.chan]
    <3>1. p.chan # 0 /\ channels' = [channels EXCEPT ![Key(req)] = c] /\ Pops
      BY <1>6, <2>2 DEF OpenChannelWaits, Return
    <3>2. p \in FromServer
      BY <3>1, PipesTyped, TailAt DEF Pops
    <3>3. c \in CachedChannel /\ c.id = p.chan
      BY <3>2, NoChannelTyped DEF FromServer, CachedChannel, NoChannel
    <3> HIDE DEF p, c
    <3> QED
      BY <2>1, <3>1, <3>3, ChannelAt
  <2> QED
    BY <2>1, <2>2
<1>7. CASE Arm \/ Activate \/ DropLeftovers
  <2>1. UNCHANGED <<channels, req>>
    BY <1>7 DEF Arm, Activate, DropLeftovers
  <2> QED
    BY <1>7, <2>1 DEF Arm, Activate, DropLeftovers, ch
<1>8. CASE SendParams
  <2>1. pc = "params" /\ pc' \in {"volume", "idle"} /\ req' = req
    BY <1>8 DEF SendParams, SendIf, Return
  <2>2. ASSUME pc' = "volume" PROVE ch'.id # 0 /\ ch'.voice = req'.voice
    <3>1. CASE ch.voice = req.voice
      BY <1>8, <2>1, <2>2, <3>1 DEF SendParams, SendIf, ch
    <3>2. CASE ch.voice # req.voice
      <4> DEFINE c == [ch EXCEPT !.voice = req.voice]
      <4>1. channels' = [channels EXCEPT ![Key(req)] = c]
        BY <1>8, <2>2, <3>2 DEF SendParams, SendIf, Return
      <4>2. ch \in CachedChannel /\ req \in Requests
        BY ChTyped DEF TypeOK, EngineTypeOK, CallTypes
      <4>3. c \in CachedChannel /\ c.id = ch.id /\ c.voice = req.voice
        BY <4>2, ServerAssumption DEF CachedChannel
      <4> HIDE DEF c
      <4> QED
        BY <2>1, <4>1, <4>3, ChannelAt
    <3> QED
      BY <3>1, <3>2
  <2> QED
    BY <2>1, <2>2
<1>9. CASE SendVolume
  <2>1. pc = "volume" /\ pc' \in {"text", "idle"} /\ req' = req
    BY <1>9 DEF SendVolume, SendIf, Return
  <2>2. ASSUME pc' = "text" PROVE ch'.id # 0 /\ ch'.voice = req'.voice /\ ch'.volume = req'.volume
    <3>1. CASE ch.volume = req.volume
      BY <1>9, <2>1, <2>2, <3>1 DEF SendVolume, SendIf, ch
    <3>2. CASE ch.volume # req.volume
      <4> DEFINE c == [ch EXCEPT !.volume = req.volume]
      <4>1. channels' = [channels EXCEPT ![Key(req)] = c]
        BY <1>9, <2>2, <3>2 DEF SendVolume, SendIf, Return
      <4>2. ch \in CachedChannel /\ req \in Requests
        BY ChTyped DEF TypeOK, EngineTypeOK, CallTypes
      <4>3. /\ c \in CachedChannel /\ c.id = ch.id /\ c.voice = ch.voice
            /\ c.volume = req.volume
        BY <4>2, ServerAssumption DEF CachedChannel
      <4> HIDE DEF c
      <4> QED
        BY <2>1, <4>1, <4>3, ChannelAt
    <3> QED
      BY <3>1, <3>2
  <2> QED
    BY <2>1, <2>2
<1>10. CASE Wait \/ Reader \/ Canceller \/ ServerSteps \/ UNCHANGED vars
  <2>1. UNCHANGED <<pc, req, channels>>
    BY <1>10 DEF Wait, WaitBlocks, WaitWakes, WaitExpires, Reader, ReaderReads,
       ReaderPushes, ReaderFails, ReaderSignals, Canceller, CancelStarts, CancelReads,
       CancelSends, CancelSignals, ServerSteps, vars
  <2> QED
    BY <2>1 DEF MustRelaunch, ch
<1> QED
  BY <1>1, <1>2, <1>3, <1>4, <1>5, <1>6, <1>7, <1>8, <1>9, <1>10 DEF Next, Speak, Over

-----------------------------------------------------------------------------
\* The cache and the child.

\* What the cache says of a channel is what the child will have, once it has read what is
\* in its stdin.
Known ==
  \A k \in Keys : channels[k].id # 0 =>
    /\ channels[k].id \in DOMAIN chans /\ chans[channels[k].id].key = k
    /\ channels[k].voice # Unset =>
         InForce(inPipe, Len(inPipe), channels[k].id, "Params",
                 chans[channels[k].id].voice, channels[k].voice)
    /\ channels[k].volume # Unset =>
         InForce(inPipe, Len(inPipe), channels[k].id, "Volume",
                 chans[channels[k].id].volume, channels[k].volume)

\* A text in stdin will find its channel as its caller wanted it.
TextServed ==
  \A i \in DOMAIN inPipe : inPipe[i].type = "Text" =>
    /\ inPipe[i].chan \in DOMAIN chans /\ chans[inPipe[i].chan].key = Key(inPipe[i].req)
    /\ InForce(inPipe, i - 1, inPipe[i].chan, "Params",
               chans[inPipe[i].chan].voice, inPipe[i].req.voice)
    /\ InForce(inPipe, i - 1, inPipe[i].chan, "Volume",
               chans[inPipe[i].chan].volume, inPipe[i].req.volume)

Served(j) ==
  /\ j.chan \in DOMAIN chans /\ chans[j.chan].key = Key(j.req)
  /\ j.voice = j.req.voice /\ j.volume = j.req.volume
JobsServed == \A i \in DOMAIN jobs : Served(jobs[i])

CacheInv == up = "up" => Known /\ TextServed /\ JobsServed

\* Channels change only by what is read, and none is lost.
Kept == \A c \in DOMAIN chans : c \in DOMAIN chans' /\ chans'[c].key = chans[c].key
Adapted ==
  \A c \in DOMAIN chans :
    /\ chans'[c].voice = IF Sets(inPipe[1], c, "Params") THEN Asked(inPipe[1])
                                                       ELSE chans[c].voice
    /\ chans'[c].volume = IF Sets(inPipe[1], c, "Volume") THEN Asked(inPipe[1])
                                                         ELSE chans[c].volume
JobsFrom ==
  \A i \in DOMAIN jobs' : \E k \in DOMAIN jobs :
    /\ jobs'[i].chan = jobs[k].chan /\ jobs'[i].req = jobs[k].req
    /\ jobs'[i].voice = jobs[k].voice /\ jobs'[i].volume = jobs[k].volume

\* Texts stay served while their channels stay.
LEMMA JobsStay ==
  ASSUME JobsServed, Kept, JobsFrom PROVE JobsServed'
<1> SUFFICES ASSUME NEW i \in DOMAIN jobs' PROVE Served(jobs[i])'
  BY DEF JobsServed
<1>1. PICK k \in DOMAIN jobs :
        /\ jobs'[i].chan = jobs[k].chan /\ jobs'[i].req = jobs[k].req
        /\ jobs'[i].voice = jobs[k].voice /\ jobs'[i].volume = jobs[k].volume
  BY DEF JobsFrom
<1>2. Served(jobs[k])
  BY DEF JobsServed
<1> QED
  BY <1>1, <1>2 DEF Served, Kept

\* The child reads a packet: what the cache says is still what will be in force.
LEMMA KnownRead ==
  ASSUME TypeOK, Known, inPipe # <<>>, inPipe' = Tail(inPipe), channels' = channels,
         Kept, Adapted
  PROVE  Known'
<1>0. /\ inPipe \in Seq(ToServer) /\ Len(inPipe) \in 1..Len(inPipe)
      /\ Len(inPipe') = Len(inPipe) - 1
  BY PipesTyped, TailAt
<1> SUFFICES ASSUME NEW k \in Keys, channels[k].id # 0
             PROVE  /\ channels[k].id \in DOMAIN chans' /\ chans'[channels[k].id].key = k
                    /\ channels[k].voice # Unset =>
                         InForce(inPipe', Len(inPipe'), channels[k].id, "Params",
                                 chans'[channels[k].id].voice, channels[k].voice)
                    /\ channels[k].volume # Unset =>
                         InForce(inPipe', Len(inPipe'), channels[k].id, "Volume",
                                 chans'[channels[k].id].volume, channels[k].volume)
  BY DEF Known
<1> DEFINE c == channels[k].id
<1>1. c \in DOMAIN chans /\ chans[c].key = k
  BY DEF Known
<1>2. c \in DOMAIN chans' /\ chans'[c].key = k
  BY <1>1 DEF Kept
<1>3. ASSUME channels[k].voice # Unset
      PROVE  InForce(inPipe', Len(inPipe'), c, "Params", chans'[c].voice, channels[k].voice)
  <2>1. InForce(inPipe, Len(inPipe), c, "Params", chans[c].voice, channels[k].voice)
    BY <1>3 DEF Known
  <2>2. chans'[c].voice = IF Sets(inPipe[1], c, "Params") THEN Asked(inPipe[1])
              ELSE chans[c].voice
    BY <1>1 DEF Adapted
  <2> HIDE DEF c
  <2>3. InForce(inPipe', Len(inPipe) - 1, c, "Params", chans'[c].voice, channels[k].voice)
    BY <1>0, <2>1, <2>2, ForceRead
  <2> QED
    BY <1>0, <2>3
<1>4. ASSUME channels[k].volume # Unset
      PROVE  InForce(inPipe', Len(inPipe'), c, "Volume", chans'[c].volume, channels[k].volume)
  <2>1. InForce(inPipe, Len(inPipe), c, "Volume", chans[c].volume, channels[k].volume)
    BY <1>4 DEF Known
  <2>2. chans'[c].volume = IF Sets(inPipe[1], c, "Volume") THEN Asked(inPipe[1])
              ELSE chans[c].volume
    BY <1>1 DEF Adapted
  <2> HIDE DEF c
  <2>3. InForce(inPipe', Len(inPipe) - 1, c, "Volume", chans'[c].volume, channels[k].volume)
    BY <1>0, <2>1, <2>2, ForceRead
  <2> QED
    BY <1>0, <2>3
<1> QED
  BY <1>2, <1>3, <1>4

\* So it is for the texts behind that packet.
LEMMA TextRead ==
  ASSUME TypeOK, TextServed, inPipe # <<>>, inPipe' = Tail(inPipe), Kept, Adapted
  PROVE  TextServed'
<1>0. /\ inPipe \in Seq(ToServer)
      /\ \A i \in DOMAIN inPipe' :
             i \in Nat /\ i + 1 \in DOMAIN inPipe /\ inPipe'[i] = inPipe[i + 1]
      /\ DOMAIN inPipe = 1..Len(inPipe) /\ Len(inPipe) \in Nat
      /\ DOMAIN inPipe' = 1..(Len(inPipe) - 1)
  BY PipesTyped, TakenAt
<1> SUFFICES ASSUME NEW i \in DOMAIN inPipe', inPipe'[i].type = "Text"
             PROVE  /\ inPipe'[i].chan \in DOMAIN chans'
                    /\ chans'[inPipe'[i].chan].key = Key(inPipe'[i].req)
                    /\ InForce(inPipe', i - 1, inPipe'[i].chan, "Params",
                               chans'[inPipe'[i].chan].voice, inPipe'[i].req.voice)
                    /\ InForce(inPipe', i - 1, inPipe'[i].chan, "Volume",
                               chans'[inPipe'[i].chan].volume, inPipe'[i].req.volume)
  BY DEF TextServed
<1> DEFINE m == inPipe[i + 1]
           c == m.chan
<1>1. i \in 1..Len(inPipe) /\ i + 1 \in DOMAIN inPipe /\ inPipe'[i] = m /\ (i + 1) - 1 = i
  BY <1>0
<1>2. /\ c \in DOMAIN chans /\ chans[c].key = Key(m.req)
      /\ InForce(inPipe, (i + 1) - 1, c, "Params", chans[c].voice, m.req.voice)
      /\ InForce(inPipe, (i + 1) - 1, c, "Volume", chans[c].volume, m.req.volume)
  BY <1>1 DEF TextServed
<1>3. c \in DOMAIN chans' /\ chans'[c].key = Key(m.req)
  BY <1>2 DEF Kept
<1>4. /\ chans'[c].voice = IF Sets(inPipe[1], c, "Params") THEN Asked(inPipe[1])
               ELSE chans[c].voice
      /\ chans'[c].volume = IF Sets(inPipe[1], c, "Volume") THEN Asked(inPipe[1])
               ELSE chans[c].volume
  BY <1>2 DEF Adapted
<1>5. /\ InForce(inPipe, i, c, "Params", chans[c].voice, m.req.voice)
      /\ InForce(inPipe, i, c, "Volume", chans[c].volume, m.req.volume)
  BY <1>1, <1>2
<1> HIDE DEF m, c
<1>6. InForce(inPipe', i - 1, c, "Params", chans'[c].voice, m.req.voice)
  BY <1>0, <1>1, <1>4, <1>5, ForceRead
<1>7. InForce(inPipe', i - 1, c, "Volume", chans'[c].volume, m.req.volume)
  BY <1>0, <1>1, <1>4, <1>5, ForceRead
<1> QED
  BY <1>1, <1>3, <1>6, <1>7 DEF c

\* What each of the child's steps does to its channels and its texts.
LEMMA ReadingAdapts ==
  ASSUME TypeOK, ServerReads, up' = "up"
  PROVE  /\ inPipe # <<>> /\ inPipe' = Tail(inPipe) /\ Kept /\ Adapted
         /\ ~ServerAccepts => JobsFrom
<1>0. /\ chans \in Seq(ServerChannel) /\ jobs \in Seq(Job) /\ inPipe \in Seq(ToServer)
      /\ ServerTypeOK
  BY PipesTyped DEF TypeOK
<1>1. CASE ServerOpens
  <2>1. /\ inPipe # <<>> /\ inPipe' = Tail(inPipe) /\ jobs' = jobs
        /\ inPipe[1].type = "Open"
        /\ Head(inPipe) = inPipe[1]
    BY <1>1, Reading DEF ServerOpens
  <2>2. \A c : ~Sets(inPipe[1], c, "Params") /\ ~Sets(inPipe[1], c, "Volume")
    BY <2>1 DEF Sets
  <2>3. \A c \in DOMAIN chans : c \in DOMAIN chans' /\ chans'[c] = chans[c]
    <3>1. CASE chans' = chans
      BY <3>1
    <3>2. CASE chans' # chans
      <4>1. PICK voice \in Voices : \E volume \in Volumes :
              chans' = Append(chans, [key |-> Key(Head(inPipe).req), voice |-> voice,
                    volume |-> volume])
        BY <1>1, <3>2 DEF ServerOpens
      <4>2. PICK volume \in Volumes :
              chans' = Append(chans, [key |-> Key(Head(inPipe).req), voice |-> voice,
                    volume |-> volume])
        BY <4>1
      <4>3. Key(Head(inPipe).req) \in Keys
        BY <1>0, <1>1, HeadTyped DEF ServerOpens, Key, Keys
      <4>4. [key |-> Key(Head(inPipe).req), voice |-> voice, volume |-> volume] \in ServerChannel
        BY <4>3 DEF ServerChannel
      <4> QED
        BY <1>0, <4>2, <4>4, AddedAt
    <3> QED
      BY <3>1, <3>2
  <2> QED
    BY <2>1, <2>2, <2>3 DEF Kept, Adapted, JobsFrom
<1>2. CASE ServerStuck
  BY <1>2 DEF ServerStuck
<1>3. ASSUME NEW type \in {"Params", "Volume"}, ServerAdjusts(type)
      PROVE  inPipe # <<>> /\ inPipe' = Tail(inPipe) /\ Kept /\ Adapted /\ JobsFrom
  <2> DEFINE m == inPipe[1]
  <2>1. /\ inPipe # <<>> /\ inPipe' = Tail(inPipe) /\ jobs' = jobs /\ m.type = type
        /\ Head(inPipe) = m
    BY <1>3, Reading DEF ServerAdjusts
  <2>2. chans' = [c \in DOMAIN chans |-> IF c = m.chan THEN Adjusted(chans[c], m) ELSE chans[c]]
    BY <1>3, <2>1 DEF ServerAdjusts
  <2>3. \A c \in DOMAIN chans : chans[c] \in ServerChannel
    BY <1>0
  <2>4. ASSUME NEW c \in DOMAIN chans
        PROVE  /\ c \in DOMAIN chans' /\ chans'[c].key = chans[c].key
               /\ chans'[c].voice = IF Sets(m, c, "Params") THEN Asked(m) ELSE chans[c].voice
               /\ chans'[c].volume = IF Sets(m, c, "Volume") THEN Asked(m) ELSE chans[c].volume
    <3> HIDE DEF m
    <3>1. chans[c] \in ServerChannel
      BY <2>3
    <3>2. CASE c # m.chan
      BY <2>2, <3>2 DEF Sets
    <3>3. CASE c = m.chan
      <4>1. c \in DOMAIN chans' /\ chans'[c] = Adjusted(chans[c], m)
        BY <2>2, <3>3
      <4>2. CASE m.type = "Params"
        BY <3>1, <3>3, <4>1, <4>2 DEF Adjusted, Sets, Asked, ServerChannel
      <4>3. CASE m.type = "Volume"
        BY <3>1, <3>3, <4>1, <4>3 DEF Adjusted, Sets, Asked, ServerChannel
      <4> QED
        BY <1>3, <2>1, <4>2, <4>3
    <3> QED
      BY <3>2, <3>3
  <2> QED
    BY <2>1, <2>4 DEF Kept, Adapted, JobsFrom
<1>4. CASE ServerAccepts
  <2>1. inPipe # <<>> /\ inPipe' = Tail(inPipe) /\ chans' = chans /\ inPipe[1].type = "Text"
    BY <1>4, Reading DEF ServerAccepts
  <2> QED
    BY <1>4, <2>1 DEF Kept, Adapted, Sets
<1>5. CASE ServerDiscards
  <2>1. /\ inPipe # <<>> /\ inPipe' = Tail(inPipe) /\ chans' = chans
        /\ inPipe[1].type = "Discard"
    BY <1>5, Reading DEF ServerDiscards
  <2>2. jobs' = [i \in DOMAIN jobs |->
                   IF jobs[i].chan = Head(inPipe).chan THEN Cut(jobs[i]) ELSE jobs[i]]
    BY <1>5 DEF ServerDiscards
  <2>3. \A i \in DOMAIN jobs : jobs[i] \in Job
    BY <1>0
  <2>4. \A i \in DOMAIN jobs' :
          /\ i \in DOMAIN jobs
          /\ jobs'[i].chan = jobs[i].chan /\ jobs'[i].req = jobs[i].req
          /\ jobs'[i].voice = jobs[i].voice /\ jobs'[i].volume = jobs[i].volume
    BY <2>2, <2>3 DEF Cut, Job
  <2> QED
    BY <2>1, <2>4 DEF Kept, Adapted, Sets, JobsFrom
<1> QED
  BY <1>1, <1>2, <1>3, <1>4, <1>5 DEF ServerReads

\* The child at work on a text.
LEMMA WorkingKeeps ==
  ASSUME TypeOK, ServerWorks PROVE UNCHANGED <<inPipe, chans, up>> /\ JobsFrom
<1>1. UNCHANGED <<inPipe, chans, up>> /\ jobs # <<>>
  BY DEF ServerWorks, SaysBookMark, SaysSound, SaysRange, Finishes, Works
<1>2. jobs \in Seq(Job) /\ 1 \in DOMAIN jobs /\ Head(jobs) = jobs[1] /\ jobs[1] \in Job
  BY <1>1, HeadJob
<1>3. CASE Finishes
  <2>1. \A i \in DOMAIN jobs' : i + 1 \in DOMAIN jobs /\ jobs'[i] = jobs[i + 1]
    BY <1>1, <1>2, <1>3, TakenAt DEF Finishes
  <2> QED
    BY <1>1, <2>1 DEF JobsFrom
<1>4. CASE ~Finishes
  <2>1. \E k : \/ jobs' = [jobs EXCEPT ![1].marks = k]
               \/ jobs' = [jobs EXCEPT ![1].left = k]
               \/ jobs' = [jobs EXCEPT ![1].told = k]
    BY <1>4 DEF ServerWorks, SaysBookMark, SaysSound, SaysRange
  <2>2. PICK k : \/ jobs' = [jobs EXCEPT ![1].marks = k]
                 \/ jobs' = [jobs EXCEPT ![1].left = k]
                 \/ jobs' = [jobs EXCEPT ![1].told = k]
    BY <2>1
  <2>3. DOMAIN jobs' = DOMAIN jobs
    BY <1>2, <2>2
  <2>4. \A i \in DOMAIN jobs : i # 1 => jobs'[i] = jobs[i]
    BY <1>2, <2>2
  <2>5. /\ jobs'[1].chan = jobs[1].chan /\ jobs'[1].req = jobs[1].req
        /\ jobs'[1].voice = jobs[1].voice /\ jobs'[1].volume = jobs[1].volume
    BY <1>2, <2>2 DEF Job
  <2> QED
    BY <1>1, <2>3, <2>4, <2>5 DEF JobsFrom
<1> QED
  BY <1>3, <1>4

\* A text the child accepts is served as its caller asked.
LEMMA AcceptServes ==
  ASSUME TypeOK, TextServed, JobsServed, ServerAccepts PROVE JobsServed'
<1> DEFINE m == inPipe[1]
<1>1. /\ chans' = chans /\ m.type = "Text" /\ 1 \in DOMAIN inPipe /\ Head(inPipe) = m
      /\ jobs \in Seq(Job) /\ ServerTypeOK /\ Reads("Text")
  BY Reading, PipesTyped DEF ServerAccepts, TypeOK
<1>2. /\ m.chan \in DOMAIN chans /\ chans[m.chan].key = Key(m.req)
      /\ InForce(inPipe, 0, m.chan, "Params", chans[m.chan].voice, m.req.voice)
      /\ InForce(inPipe, 0, m.chan, "Volume", chans[m.chan].volume, m.req.volume)
  BY <1>1 DEF TextServed
<1>3. chans[m.chan].voice = m.req.voice /\ chans[m.chan].volume = m.req.volume
  BY <1>2 DEF InForce
<1> HIDE DEF m
<1> DEFINE new(n, marks, ends) ==
             [chan |-> m.chan, utt |-> m.utt, req |-> m.req,
              voice |-> chans[m.chan].voice, volume |-> chans[m.chan].volume,
              left |-> n, marks |-> marks, ends |-> ends, told |-> FALSE,
              cut |-> FALSE]
<1>4. PICK n \in 0..MaxSound : \E marks \in 0..MaxMarks, ends \in BOOLEAN :
        jobs' = Append(jobs, new(n, marks, ends))
  BY <1>1, <1>2 DEF ServerAccepts
<1>5. PICK marks \in 0..MaxMarks : \E ends \in BOOLEAN : jobs' = Append(jobs, new(n, marks, ends))
  BY <1>4
<1>6. PICK ends \in BOOLEAN : jobs' = Append(jobs, new(n, marks, ends))
  BY <1>5
<1> DEFINE j == new(n, marks, ends)
<1>7. j \in Job
  <2>1. m.req \in Requests /\ m.chan \in Nat /\ m.utt \in Nat
    BY <1>1, HeadTyped
  <2>2. chans[m.chan] \in ServerChannel
    BY <1>1, <1>2 DEF ServerTypeOK
  <2>3. n \in Nat /\ marks \in Nat
    BY ServerAssumption
  <2> QED
    BY <2>1, <2>2, <2>3 DEF Job, ServerChannel
<1>8. Served(j)
  BY <1>2, <1>3 DEF Served
<1>9. jobs' = Append(jobs, j)
  BY <1>6
<1> HIDE DEF j
<1>10. \A i \in DOMAIN jobs' : (i \in DOMAIN jobs /\ jobs'[i] = jobs[i]) \/ jobs'[i] = j
  BY <1>1, <1>7, <1>9, AddedAt
<1> QED
  BY <1>1, <1>8, <1>10 DEF JobsServed, Served

\* The child's steps keep the cache right.
LEMMA CacheServer ==
  ASSUME TypeOK, CacheInv, ServerSteps PROVE CacheInv'
<1>0. channels' = channels /\ Server
  BY DEF ServerSteps, cacheVars
<1> SUFFICES ASSUME up' = "up" PROVE Known' /\ TextServed' /\ JobsServed'
  BY DEF CacheInv
<1>1. CASE ServerReads
  <2>1. up = "up"
    BY <1>1 DEF ServerReads, ServerOpens, ServerStuck, ServerAdjusts, ServerAccepts,
       ServerDiscards, Reads
  <2>2. Known' /\ TextServed'
    BY <1>0, <1>1, <2>1, ReadingAdapts, KnownRead, TextRead DEF CacheInv
  <2>3. JobsServed'
    <3>1. CASE ServerAccepts
      BY <2>1, <3>1, AcceptServes DEF CacheInv
    <3>2. CASE ~ServerAccepts
      BY <1>1, <2>1, <3>2, ReadingAdapts, JobsStay DEF CacheInv
    <3> QED
      BY <3>1, <3>2
  <2> QED
    BY <2>2, <2>3
<1>2. CASE ServerWorks
  <2>1. UNCHANGED <<inPipe, chans, up>> /\ JobsFrom /\ Kept
    BY <1>2, WorkingKeeps DEF Kept
  <2>2. Known' /\ TextServed'
    BY <1>0, <2>1 DEF CacheInv, Known, TextServed
  <2>3. JobsServed'
    BY <2>1, JobsStay DEF CacheInv
  <2> QED
    BY <2>2, <2>3
<1>3. CASE ServerHangs \/ ServerDies
  BY <1>3 DEF ServerHangs, ServerDies, Kill
<1> QED
  BY <1>0, <1>1, <1>2, <1>3 DEF Server

-----------------------------------------------------------------------------
\* The wrapper writes, and the cache with it.

\* The wrapper writes a packet: the texts before it are served as before, and so is a text
\* for which everything is in force by then.
LEMMA TextAdded ==
  ASSUME TypeOK, TextServed, NEW m \in ToServer, inPipe' = Append(inPipe, m), chans' = chans,
         m.type = "Text" =>
           /\ m.chan \in DOMAIN chans /\ chans[m.chan].key = Key(m.req)
           /\ InForce(inPipe, Len(inPipe), m.chan, "Params", chans[m.chan].voice, m.req.voice)
           /\ InForce(inPipe, Len(inPipe), m.chan, "Volume", chans[m.chan].volume, m.req.volume)
  PROVE  TextServed'
<1>0. /\ inPipe \in Seq(ToServer) /\ Len(inPipe) \in Nat /\ DOMAIN inPipe = 1..Len(inPipe)
      /\ \A i \in DOMAIN inPipe' : (i \in DOMAIN inPipe /\ inPipe'[i] = inPipe[i])
                                   \/ (i = Len(inPipe) + 1 /\ inPipe'[i] = m)
  BY PipesTyped, AddedAt
<1> SUFFICES ASSUME NEW i \in DOMAIN inPipe', inPipe'[i].type = "Text"
             PROVE  /\ inPipe'[i].chan \in DOMAIN chans
                    /\ chans[inPipe'[i].chan].key = Key(inPipe'[i].req)
                    /\ InForce(inPipe', i - 1, inPipe'[i].chan, "Params",
                               chans[inPipe'[i].chan].voice, inPipe'[i].req.voice)
                    /\ InForce(inPipe', i - 1, inPipe'[i].chan, "Volume",
                               chans[inPipe'[i].chan].volume, inPipe'[i].req.volume)
  BY DEF TextServed
<1> DEFINE p == inPipe'[i]
<1>1. i \in Nat /\ i - 1 \in Nat /\ i - 1 <= Len(inPipe)
  BY <1>0
<1>2. /\ p.chan \in DOMAIN chans /\ chans[p.chan].key = Key(p.req)
      /\ InForce(inPipe, i - 1, p.chan, "Params", chans[p.chan].voice, p.req.voice)
      /\ InForce(inPipe, i - 1, p.chan, "Volume", chans[p.chan].volume, p.req.volume)
  <2>1. CASE i \in DOMAIN inPipe /\ inPipe'[i] = inPipe[i]
    BY <2>1 DEF TextServed
  <2>2. CASE i = Len(inPipe) + 1 /\ inPipe'[i] = m
    <3>1. i - 1 = Len(inPipe)
      BY <1>0, <2>2
    <3> QED
      BY <2>2, <3>1
  <2> QED
    BY <1>0, <2>1, <2>2
<1> HIDE DEF p
<1>3. /\ InForce(inPipe', i - 1, p.chan, "Params", chans[p.chan].voice, p.req.voice)
      /\ InForce(inPipe', i - 1, p.chan, "Volume", chans[p.chan].volume, p.req.volume)
  BY <1>0, <1>1, <1>2, ForceBefore
<1> QED
  BY <1>2, <1>3 DEF p

\* What was in force stays so behind a packet that does not set it anew.
LEMMA KnownAdded ==
  ASSUME TypeOK, NEW m \in ToServer, inPipe' = Append(inPipe, m), chans' = chans,
         NEW k \in Keys, NEW c, NEW t, NEW b, NEW v,
         IF Sets(m, c, t) THEN Asked(m) = v ELSE InForce(inPipe, Len(inPipe), c, t, b, v)
  PROVE  InForce(inPipe', Len(inPipe'), c, t, b, v)
BY PipesTyped, ForceAdded

\* A packet that sets no parameter keeps the cache right.
LEMMA SendingCache ==
  ASSUME TypeOK, Known, TextServed, JobsServed, NEW m \in ToServer, inPipe' = Append(inPipe, m),
         UNCHANGED <<chans, jobs, channels>>, m.type \notin {"Params", "Volume"},
         m.type = "Text" =>
           /\ m.chan \in DOMAIN chans /\ chans[m.chan].key = Key(m.req)
           /\ InForce(inPipe, Len(inPipe), m.chan, "Params", chans[m.chan].voice, m.req.voice)
           /\ InForce(inPipe, Len(inPipe), m.chan, "Volume", chans[m.chan].volume, m.req.volume)
  PROVE  Known' /\ TextServed' /\ JobsServed'
<1>1. \A c : ~Sets(m, c, "Params") /\ ~Sets(m, c, "Volume")
  BY DEF Sets
<1>2. Known'
  <2> SUFFICES ASSUME NEW k \in Keys, channels[k].id # 0
               PROVE  /\ channels[k].id \in DOMAIN chans /\ chans[channels[k].id].key = k
                      /\ channels[k].voice # Unset =>
                           InForce(inPipe', Len(inPipe'), channels[k].id, "Params",
                                   chans[channels[k].id].voice, channels[k].voice)
                      /\ channels[k].volume # Unset =>
                           InForce(inPipe', Len(inPipe'), channels[k].id, "Volume",
                                   chans[channels[k].id].volume, channels[k].volume)
    BY DEF Known
  <2>1. /\ channels[k].id \in DOMAIN chans /\ chans[channels[k].id].key = k
        /\ channels[k].voice # Unset =>
             InForce(inPipe, Len(inPipe), channels[k].id, "Params",
                     chans[channels[k].id].voice, channels[k].voice)
        /\ channels[k].volume # Unset =>
             InForce(inPipe, Len(inPipe), channels[k].id, "Volume",
                     chans[channels[k].id].volume, channels[k].volume)
    BY DEF Known
  <2> QED
    BY <1>1, <2>1, KnownAdded
<1>3. TextServed'
  BY TextAdded
<1>4. JobsServed'
  BY DEF JobsServed, Served
<1> QED
  BY <1>2, <1>3, <1>4

\* A parameter is sent and cached.
LEMMA AdjustingCache ==
  ASSUME TypeOK, Known, TextServed, JobsServed, ch.id # 0,
         NEW m \in ToServer, inPipe' = Append(inPipe, m), UNCHANGED <<chans, jobs, req>>,
         m.chan = ch.id, m.req = req,
         NEW c \in CachedChannel, channels' = [channels EXCEPT ![Key(req)] = c], c.id = ch.id,
         \/ m.type = "Params" /\ c.voice = req.voice /\ c.volume = ch.volume
         \/ m.type = "Volume" /\ c.voice = ch.voice /\ c.volume = req.volume
  PROVE  Known' /\ TextServed' /\ JobsServed'
<1>0. /\ channels'[Key(req)] = c /\ Key(req) \in Keys
      /\ \A k \in Keys : k # Key(req) => channels'[k] = channels[k]
  BY ChannelAt, ChTyped DEF ch, TypeOK
<1>1. ch.id \in DOMAIN chans /\ chans[ch.id].key = Key(req) /\ ch = channels[Key(req)]
  BY <1>0 DEF Known, ch
<1>2. Known'
  <2> SUFFICES ASSUME NEW k \in Keys, channels'[k].id # 0
               PROVE  /\ channels'[k].id \in DOMAIN chans /\ chans[channels'[k].id].key = k
                      /\ channels'[k].voice # Unset =>
                           InForce(inPipe', Len(inPipe'), channels'[k].id, "Params",
                                   chans[channels'[k].id].voice, channels'[k].voice)
                      /\ channels'[k].volume # Unset =>
                           InForce(inPipe', Len(inPipe'), channels'[k].id, "Volume",
                                   chans[channels'[k].id].volume, channels'[k].volume)
    BY DEF Known
  <2>1. channels[k].id # 0 /\ channels'[k].id = channels[k].id
    BY <1>0, <1>1
  <2> DEFINE n == channels[k].id
  <2>2. /\ n \in DOMAIN chans /\ chans[n].key = k
        /\ channels[k].voice # Unset =>
             InForce(inPipe, Len(inPipe), n, "Params", chans[n].voice, channels[k].voice)
        /\ channels[k].volume # Unset =>
             InForce(inPipe, Len(inPipe), n, "Volume", chans[n].volume, channels[k].volume)
    BY <2>1 DEF Known
  <2> HIDE DEF n
  <2>3. CASE k # Key(req)
    <3>1. channels'[k] = channels[k] /\ n # ch.id
      BY <1>0, <1>1, <2>2, <2>3
    <3>2. ~Sets(m, n, "Params") /\ ~Sets(m, n, "Volume")
      BY <3>1 DEF Sets
    <3>3. /\ channels[k].voice # Unset =>
               InForce(inPipe', Len(inPipe'), n, "Params", chans[n].voice, channels[k].voice)
          /\ channels[k].volume # Unset =>
               InForce(inPipe', Len(inPipe'), n, "Volume", chans[n].volume, channels[k].volume)
      BY <2>2, <3>2, KnownAdded
    <3> QED
      BY <2>1, <2>2, <3>1, <3>3 DEF n
  <2>4. CASE k = Key(req)
    <3>1. channels'[k] = c /\ channels[k] = ch /\ n = ch.id
      BY <1>0, <1>1, <2>4 DEF n
    <3>2. c.voice # Unset => InForce(inPipe', Len(inPipe'), n, "Params", chans[n].voice, c.voice)
      <4>1. CASE m.type = "Params" /\ c.voice = req.voice
        <5>1. Sets(m, n, "Params") /\ Asked(m) = c.voice
          BY <3>1, <4>1 DEF Sets, Asked
        <5> QED
          BY <5>1, KnownAdded
      <4>2. CASE m.type = "Volume" /\ c.voice = ch.voice
        <5>1. ~Sets(m, n, "Params")
          BY <4>2 DEF Sets
        <5> QED
          BY <2>2, <3>1, <4>2, <5>1, KnownAdded
      <4> QED
        BY <4>1, <4>2
    <3>3. c.volume # Unset => InForce(inPipe', Len(inPipe'), n, "Volume",
                chans[n].volume, c.volume)
      <4>1. CASE m.type = "Volume" /\ c.volume = req.volume
        <5>1. Sets(m, n, "Volume") /\ Asked(m) = c.volume
          BY <3>1, <4>1 DEF Sets, Asked
        <5> QED
          BY <5>1, KnownAdded
      <4>2. CASE m.type = "Params" /\ c.volume = ch.volume
        <5>1. ~Sets(m, n, "Volume")
          BY <4>2 DEF Sets
        <5> QED
          BY <2>2, <3>1, <4>2, <5>1, KnownAdded
      <4> QED
        BY <4>1, <4>2
    <3> QED
      BY <2>1, <2>2, <3>1, <3>2, <3>3 DEF n
  <2> QED
    BY <2>3, <2>4
<1>3. TextServed'
  BY TextAdded
<1>4. JobsServed'
  BY DEF JobsServed, Served
<1> QED
  BY <1>2, <1>3, <1>4

\* Which steps touch what CacheInv is about.
OffThePipe ==
  \/ \E r \in Requests : SpeakStarts(r)
  \/ EnsureRunning \/ CloseStdin \/ JoinReader \/ Lookup \/ Arm \/ Activate \/ DropLeftovers
  \/ LoopTop \/ LoopTakes \/ LoopGivesUp \/ Wait \/ Reader
  \/ CancelStarts \/ CancelReads \/ CancelSignals \/ UNCHANGED vars

\* They leave it alone.
LEMMA OffThePipeStill ==
  ASSUME OffThePipe PROVE UNCHANGED <<up, inPipe, chans, jobs, channels>>
<1>1. CASE \/ \E r \in Requests : SpeakStarts(r)
           \/ EnsureRunning \/ CloseStdin \/ JoinReader \/ Lookup \/ Arm \/ Activate
           \/ DropLeftovers \/ LoopTop
  BY <1>1 DEF SpeakStarts, EnsureRunning, CloseStdin, JoinReader, Lookup, Arm,
     Activate, DropLeftovers, LoopTop, serverVars, cacheVars
<1>2. CASE \/ LoopTakes \/ LoopGivesUp \/ Wait \/ Reader
           \/ CancelStarts \/ CancelReads \/ CancelSignals \/ UNCHANGED vars
  BY <1>2 DEF LoopTakes, LoopGivesUp, Wait, WaitBlocks, WaitWakes, WaitExpires, Reader,
     ReaderReads, ReaderPushes, ReaderFails, ReaderSignals, CancelStarts, CancelReads,
     CancelSignals, vars, serverVars, cacheVars
<1> QED
  BY <1>1, <1>2 DEF OffThePipe

\* Sent changes stdin and nothing else of the child; a packet that cannot be sent, nothing.
LEMMA SentAll ==
  ASSUME NEW m, Sent(m) PROVE inPipe' = Append(inPipe, m) /\ UNCHANGED <<up, chans, jobs>>
BY DEF Sent, Accepts

\* Sending a channel's opening, a text or a Discard keeps the cache right.
LEMMA CacheSends ==
  ASSUME TypeOK, CallerInv, CacheInv,
         SendOpen \/ SendText \/ SinkCancel \/ CancelSends
  PROVE  CacheInv'
<1>0. channels' = channels
  BY DEF SendOpen, SendText, SinkCancel, CancelSends, cacheVars
<1>1. CASE UNCHANGED serverVars
  BY <1>0, <1>1 DEF serverVars, CacheInv, Known, TextServed, JobsServed, Served
<1>2. CASE ~UNCHANGED serverVars
  <2> DEFINE o == Packet("Open", 0, req, 0)
             t == Packet("Text", ch.id, req, utt)
             a == Packet("Discard", activeChannel, NoRequest, 0)
             x == Packet("Discard", target, NoRequest, 0)
  <2>1. \/ Sent(o) \/ Sent(a) \/ Sent(x)
        \/ Sent(t) /\ pc = "text"
    BY <1>2 DEF SendOpen, SendText, SinkCancel, CancelSends, SendFails
  <2>2. /\ o \in ToServer /\ t \in ToServer /\ a \in ToServer /\ x \in ToServer
        /\ o.type = "Open" /\ t.type = "Text" /\ a.type = "Discard" /\ x.type = "Discard"
        /\ t.chan = ch.id /\ t.req = req
    <3>1. /\ EngineTypeOK /\ ch.id \in Nat /\ utt \in Nat /\ activeChannel \in Nat
          /\ target \in Nat /\ 0 \in Nat
      BY ChTyped DEF TypeOK, EngineTypeOK, CallTypes, CacheTypes, CancelTypes
    <3> QED
      BY <3>1, PacketTyped DEF Packet
  <2> HIDE DEF o, t, a, x
  <2> SUFFICES ASSUME up' = "up" PROVE Known' /\ TextServed' /\ JobsServed'
    BY DEF CacheInv
  <2>3. CASE Sent(o) \/ Sent(a) \/ Sent(x)
    <3>1. PICK m \in ToServer : Sent(m) /\ m.type \in {"Open", "Discard"}
      BY <2>2, <2>3
    <3>2. inPipe' = Append(inPipe, m) /\ UNCHANGED <<up, chans, jobs>>
      BY <3>1, SentAll
    <3> QED
      BY <1>0, <3>1, <3>2, SendingCache DEF CacheInv
  <2>4. CASE Sent(t) /\ pc = "text"
    <3>1. inPipe' = Append(inPipe, t) /\ UNCHANGED <<up, chans, jobs>>
      BY <2>4, SentAll
    <3>2. /\ ch.id # 0 /\ ch.voice = req.voice /\ ch.volume = req.volume
          /\ ch = channels[Key(req)] /\ Key(req) \in Keys
          /\ ch.voice # Unset /\ ch.volume # Unset
      BY <2>4, ChTyped, EngineAssumption DEF CallerInv, TypeOK, ch
    <3>3. /\ ch.id \in DOMAIN chans /\ chans[ch.id].key = Key(req)
          /\ InForce(inPipe, Len(inPipe), ch.id, "Params", chans[ch.id].voice, req.voice)
          /\ InForce(inPipe, Len(inPipe), ch.id, "Volume", chans[ch.id].volume, req.volume)
      BY <3>1, <3>2 DEF CacheInv, Known
    <3> QED
      BY <1>0, <2>2, <3>1, <3>3, SendingCache DEF CacheInv
  <2> QED
    BY <2>1, <2>3, <2>4
<1> QED
  BY <1>1, <1>2

\* So does sending a parameter, and caching it.
LEMMA CacheAdjusts ==
  ASSUME TypeOK, CallerInv, CacheInv, SendParams \/ SendVolume PROVE CacheInv'
<1> DEFINE p == Packet("Params", ch.id, req, 0)
           v == Packet("Volume", ch.id, req, 0)
           cp == [ch EXCEPT !.voice = req.voice]
           cv == [ch EXCEPT !.volume = req.volume]
<1>0. /\ ch \in CachedChannel /\ req' = req /\ ch.id # 0
      /\ req.voice \in Voices /\ req.volume \in Volumes /\ ch.id \in Nat
  BY ChTyped DEF TypeOK, CallerInv, SendParams, SendVolume, SendIf, callVars
<1>1. /\ cp \in CachedChannel /\ cp.id = ch.id /\ cp.voice = req.voice
      /\ cp.volume = ch.volume
      /\ cv \in CachedChannel /\ cv.id = ch.id /\ cv.voice = ch.voice
      /\ cv.volume = req.volume
  BY <1>0 DEF CachedChannel
<1>2. /\ p \in ToServer /\ p.type = "Params" /\ p.chan = ch.id /\ p.req = req
      /\ v \in ToServer /\ v.type = "Volume" /\ v.chan = ch.id /\ v.req = req
  BY <1>0, PacketTyped DEF Packet, TypeOK
<1>3. \/ UNCHANGED serverVars /\ channels' = channels
      \/ Sent(p) /\ channels' = [channels EXCEPT ![Key(req)] = cp]
      \/ Sent(v) /\ channels' = [channels EXCEPT ![Key(req)] = cv]
  BY DEF SendParams, SendVolume, SendIf, SendFails
<1> HIDE DEF p, v, cp, cv
<1>4. CASE UNCHANGED serverVars /\ channels' = channels
  BY <1>4 DEF serverVars, CacheInv, Known, TextServed, JobsServed, Served
<1>5. ASSUME up' = "up", Sent(p), channels' = [channels EXCEPT ![Key(req)] = cp]
      PROVE  CacheInv'
  <2>1. inPipe' = Append(inPipe, p) /\ UNCHANGED <<up, chans, jobs>>
    BY <1>5, SentAll
  <2> QED
    BY <1>0, <1>1, <1>2, <1>5, <2>1, AdjustingCache DEF CacheInv
<1>6. ASSUME up' = "up", Sent(v), channels' = [channels EXCEPT ![Key(req)] = cv]
      PROVE  CacheInv'
  <2>1. inPipe' = Append(inPipe, v) /\ UNCHANGED <<up, chans, jobs>>
    BY <1>6, SentAll
  <2> QED
    BY <1>0, <1>1, <1>2, <1>6, <2>1, AdjustingCache DEF CacheInv
<1> QED
  BY <1>3, <1>4, <1>5, <1>6 DEF CacheInv

-----------------------------------------------------------------------------
\* Channels asked for, and channels the cache knows.

\* The call is about to restart the child: what that child has open does not matter.
Excused == pc \in Closing \/ (readerFailed /\ pc \in {"idle", "ensure"})

NoOpen == \A i \in DOMAIN inPipe : inPipe[i].type # "Open"
NoReply == \A i \in DOMAIN Stream : Stream[i].type # "OpenNotify"
Cached(c) == channels[chans[c].key].id # 0
Grants(p) == p.type = "OpenNotify" /\ p.ok = TRUE /\ p.chan # 0

\* There is one OpenChannel under way at most, and the child can serve it.
OneOpen ==
  \A i \in DOMAIN inPipe : inPipe[i].type = "Open" =>
    /\ \A j \in DOMAIN inPipe : inPipe[j].type = "Open" => i = j
    /\ inPipe[i].req.lang \in Exclusive => ~Hosts(inPipe[i].req.lang)

\* No OpenChannel is under way, and the cache knows every channel the child has.
Settled == NoOpen /\ NoReply /\ \A c \in DOMAIN chans : Cached(c)

\* The OpenChannel under way, or its answer, is that of the call; the one channel the
\* cache may not know yet is the one the answer names.
Asking ==
  /\ \A i \in DOMAIN inPipe : inPipe[i].type = "Open" =>
       inPipe[i].pid = openPid /\ Key(inPipe[i].req) = Key(req) /\ NoReply
  /\ \A i \in DOMAIN Stream : Stream[i].type = "OpenNotify" =>
       /\ Stream[i].pid = openPid
       /\ \A j \in DOMAIN Stream : Stream[j].type = "OpenNotify" => i = j
       /\ Stream[i].chan # 0 =>
            Stream[i].chan \in DOMAIN chans /\ chans[Stream[i].chan].key = Key(req)
  /\ \A c \in DOMAIN chans :
       Cached(c) \/ (chans[c].key = Key(req) /\ \E i \in DOMAIN Stream : Grants(Stream[i]))

\* A caller whose deadline has passed waits for no answer that might still come.
OpenInv ==
  up = "up" =>
    /\ OneOpen
    /\ pc # "waitOpen" /\ ~Excused => Settled
    /\ pc = "waitOpen" => Asking
    /\ late => NoOpen /\ NoReply

\* A step that opens nothing and answers no OpenChannel.
Calm ==
  /\ up' = up
  /\ \E d \in {0, 1} : \A i \in DOMAIN inPipe' : inPipe'[i].type = "Open" =>
       i \in Nat /\ i + d \in DOMAIN inPipe /\ inPipe'[i] = inPipe[i + d]
  /\ NoReply => NoReply'
  /\ \A c \in DOMAIN chans' : c \in DOMAIN chans /\ chans'[c].key = chans[c].key
  /\ \A k \in Keys : channels[k].id # 0 => channels'[k].id # 0

\* A channel's key is one.
LEMMA KeysTyped ==
  ASSUME TypeOK PROVE \A c \in DOMAIN chans : chans[c].key \in Keys
<1>1. chans \in Seq(ServerChannel)
  BY PipesTyped
<1>2. \A c \in DOMAIN chans : chans[c] \in ServerChannel
  BY <1>1
<1> QED
  BY <1>2 DEF ServerChannel

\* It keeps what is settled settled.
LEMMA CalmKeeps ==
  ASSUME TypeOK, OneOpen, Calm PROVE OneOpen' /\ (Settled => Settled')
<1>0. PICK d \in {0, 1} : \A i \in DOMAIN inPipe' : inPipe'[i].type = "Open" =>
        i \in Nat /\ i + d \in DOMAIN inPipe /\ inPipe'[i] = inPipe[i + d]
  BY DEF Calm
<1>1. ASSUME NEW l, Hosts(l)' PROVE Hosts(l)
  BY <1>1 DEF Hosts, Calm
<1>2. OneOpen'
  <2> SUFFICES ASSUME NEW i \in DOMAIN inPipe', inPipe'[i].type = "Open"
               PROVE  /\ \A j \in DOMAIN inPipe' : inPipe'[j].type = "Open" => i = j
                      /\ inPipe'[i].req.lang \in Exclusive => ~Hosts(inPipe[i].req.lang)'
    BY DEF OneOpen, Hosts
  <2>1. i \in Nat /\ i + d \in DOMAIN inPipe /\ inPipe'[i] = inPipe[i + d] /\ d \in Nat
    BY <1>0
  <2>2. ASSUME NEW j \in DOMAIN inPipe', inPipe'[j].type = "Open" PROVE i = j
    <3>1. j \in Nat /\ j + d \in DOMAIN inPipe /\ inPipe'[j] = inPipe[j + d]
      BY <1>0, <2>2
    <3>2. i + d = j + d
      BY <2>1, <2>2, <3>1 DEF OneOpen
    <3> QED
      BY <2>1, <3>1, <3>2
  <2>3. inPipe'[i].req.lang \in Exclusive => ~Hosts(inPipe'[i].req.lang)
    BY <2>1 DEF OneOpen
  <2> QED
    BY <1>1, <2>2, <2>3
<1>3. ASSUME Settled PROVE Settled'
  <2>1. NoOpen' /\ NoReply'
    BY <1>0, <1>3 DEF Settled, NoOpen, Calm
  <2>2. \A c \in DOMAIN chans' : Cached(c)'
    BY <1>3, KeysTyped DEF Settled, Cached, Calm
  <2> QED
    BY <2>1, <2>2 DEF Settled
<1> QED
  BY <1>2, <1>3

\* The child says nothing, or nothing of a channel.
Hears ==
  \/ Stream' = Stream
  \/ \E p \in FromServer : Stream' = Append(Stream, p) /\ p.type # "OpenNotify"

\* What the stream has of channels stays as it is.
LEMMA HearsAt ==
  ASSUME TypeOK, Hears
  PROVE  /\ \A i \in DOMAIN Stream : i \in DOMAIN Stream' /\ Stream'[i] = Stream[i]
         /\ \A i \in DOMAIN Stream' : Stream'[i].type = "OpenNotify" =>
              i \in DOMAIN Stream /\ Stream'[i] = Stream[i]
         /\ NoReply => NoReply'
<1>0. Stream \in Seq(FromServer)
  BY PipesTyped
<1>1. CASE Stream' = Stream
  BY <1>1 DEF NoReply
<1>2. CASE Stream' # Stream
  <2>1. PICK p \in FromServer : Stream' = Append(Stream, p) /\ p.type # "OpenNotify"
    BY <1>2 DEF Hears
  <2>2. /\ \A i \in DOMAIN Stream' : i \in DOMAIN Stream \/ Stream'[i] = p
        /\ \A i \in DOMAIN Stream : i \in DOMAIN Stream' /\ Stream'[i] = Stream[i]
    BY <1>0, <2>1, AddedAt
  <2> QED
    BY <2>1, <2>2 DEF NoReply
<1> QED
  BY <1>1, <1>2

\* It keeps a call's question its own.
LEMMA CalmAsks ==
  ASSUME TypeOK, Asking, Calm, Hears, UNCHANGED <<channels, openPid, req>>,
         \A c \in DOMAIN chans : c \in DOMAIN chans' /\ chans'[c].key = chans[c].key
  PROVE  Asking'
<1>0. PICK d \in {0, 1} : \A i \in DOMAIN inPipe' : inPipe'[i].type = "Open" =>
        i \in Nat /\ i + d \in DOMAIN inPipe /\ inPipe'[i] = inPipe[i + d]
  BY DEF Calm
<1>1. \A i \in DOMAIN inPipe' : inPipe'[i].type = "Open" =>
        inPipe'[i].pid = openPid /\ Key(inPipe'[i].req) = Key(req) /\ NoReply'
  BY <1>0 DEF Asking, Calm
<1>2. /\ \A i \in DOMAIN Stream : i \in DOMAIN Stream' /\ Stream'[i] = Stream[i]
      /\ \A i \in DOMAIN Stream' : Stream'[i].type = "OpenNotify" =>
           i \in DOMAIN Stream /\ Stream'[i] = Stream[i]
  BY HearsAt
<1>3. \A i \in DOMAIN Stream' : Stream'[i].type = "OpenNotify" =>
        /\ Stream'[i].pid = openPid
        /\ \A j \in DOMAIN Stream' : Stream'[j].type = "OpenNotify" => i = j
        /\ Stream'[i].chan # 0 =>
             Stream'[i].chan \in DOMAIN chans' /\ chans'[Stream'[i].chan].key = Key(req)
  BY <1>2 DEF Asking
<1>4. \A c \in DOMAIN chans' :
     Cached(c)' \/ (chans'[c].key = Key(req) /\ \E i \in DOMAIN Stream' : Grants(Stream'[i]))
  <2> SUFFICES ASSUME NEW c \in DOMAIN chans', ~Cached(c)'
               PROVE  chans'[c].key = Key(req) /\ \E i \in DOMAIN Stream' : Grants(Stream'[i])
    OBVIOUS
  <2>1. chans'[c].key = Key(req) /\ \E i \in DOMAIN Stream : Grants(Stream[i])
    BY DEF Asking, Calm, Cached
  <2> QED
    BY <1>2, <2>1
<1> QED
  BY <1>1, <1>3, <1>4 DEF Asking, Grants, Key

\* So it keeps OpenInv, where nobody begins to wait for an answer or gives up on one.
LEMMA CalmStep ==
  ASSUME TypeOK, OpenInv, Calm,
         pc' # "waitOpen" /\ ~Excused' => pc # "waitOpen" /\ ~Excused,
         pc' = "waitOpen" =>
           /\ pc = "waitOpen" /\ Hears /\ UNCHANGED <<channels, openPid, req>>
           /\ \A c \in DOMAIN chans : c \in DOMAIN chans' /\ chans'[c].key = chans[c].key,
         late' => late \/ (up = "up" => NoOpen /\ NoReply)
  PROVE  OpenInv'
<1>1. NoOpen => NoOpen'
  BY DEF NoOpen, Calm
<1> QED
  BY <1>1, CalmKeeps, CalmAsks DEF OpenInv, Calm

-----------------------------------------------------------------------------
\* Steps that leave the child alone.
LEMMA StillCalm ==
  ASSUME TypeOK, UNCHANGED <<up, inPipe, chans, channels>>, NoReply => NoReply' PROVE Calm
<1>1. \A i \in DOMAIN inPipe : i \in Nat /\ i + 0 \in DOMAIN inPipe /\ i + 0 = i
  <2>1. inPipe \in Seq(ToServer)
    BY PipesTyped
  <2>2. DOMAIN inPipe = 1..Len(inPipe) /\ Len(inPipe) \in Nat
    BY <2>1, LenProperties
  <2> QED
    BY <2>2
<1>2. \A i \in DOMAIN inPipe' : inPipe'[i].type = "Open" =>
        i \in Nat /\ i + 0 \in DOMAIN inPipe /\ inPipe'[i] = inPipe[i + 0]
  BY <1>1
<1> QED
  BY <1>2 DEF Calm

\* The steps that touch neither pipe keep OpenInv.
LEMMA OpenMoves ==
  ASSUME TypeOK, NoLostWakeup, OpenInv, Prompt, Moves PROVE OpenInv'
<1>1. Stream' = Stream /\ UNCHANGED <<up, inPipe, chans, channels>>
  BY MovesSame, OffThePipeStill DEF Moves, OffThePipe, Same
<1>2. Calm
  BY <1>1, StillCalm DEF NoReply
<1>3. CASE \/ \E r \in Requests : SpeakStarts(r)
           \/ EnsureRunning \/ CloseStdin \/ Lookup \/ Arm \/ Activate \/ LoopTop
  <2>1. /\ pc' # "waitOpen" /\ pc # "waitOpen"
        /\ UNCHANGED <<readerFailed, late>>
        /\ ~Excused' => ~Excused
    BY <1>3 DEF SpeakStarts, EnsureRunning, IsRunning, CloseStdin, Lookup, Arm,
       Activate, LoopTop, queueVars, waitVars, Excused, Closing
  <2> QED
    BY <1>2, <2>1, CalmStep
<1>4. CASE LoopGivesUp
  <2>1. pc = "wait" /\ pc' # "waitOpen" /\ late' = FALSE
    BY <1>4 DEF LoopGivesUp, StreamEnds, Return, GivesUp
  <2> QED
    BY <1>2, <2>1, CalmStep DEF Excused, Closing
<1>5. CASE Wait \/ Reader \/ UNCHANGED vars \/ CancelStarts \/ CancelReads \/ CancelSignals
  <2>1. UNCHANGED <<pc, openPid, req>> /\ (readerFailed' = readerFailed \/ readerFailed' = TRUE)
    BY <1>5 DEF Wait, WaitBlocks, WaitWakes, WaitExpires, Reader, ReaderReads,
       ReaderPushes, ReaderFails, ReaderSignals, CancelStarts, CancelReads,
       CancelSignals, vars, callVars, queueVars
  <2>2. ~Excused' => ~Excused
    BY <2>1 DEF Excused
  <2>3. late' => late \/ (up = "up" => NoOpen /\ NoReply)
    <3>1. CASE WaitExpires
      <4>1. held = <<>> /\ outPipe = <<>> /\ queue = <<>> /\ (up = "up" => inPipe = <<>>)
        BY <3>1 DEF WaitExpires, Quiet, NoLostWakeup
      <4>2. Stream = <<>>
        BY <4>1, EmptyStream
      <4> QED
        BY <4>1, <4>2 DEF NoOpen, NoReply
    <3>2. CASE ~WaitExpires
      BY <1>5, <3>2 DEF Wait, WaitBlocks, WaitWakes, Reader, ReaderReads, ReaderPushes,
         ReaderFails, ReaderSignals, CancelStarts, CancelReads, CancelSignals, vars, waitVars
    <3> QED
      BY <3>1, <3>2
  <2> QED
    BY <1>1, <1>2, <2>1, <2>2, <2>3, CalmStep DEF Hears
<1> QED
  BY <1>3, <1>4, <1>5 DEF Moves

\* So do the steps that send anything but an OpenChannel.
LEMMA OpenSends ==
  ASSUME TypeOK, OpenInv, SendParams \/ SendVolume \/ SendText \/ SinkCancel \/ CancelSends
  PROVE  OpenInv'
<1>1. Same \/ \E m \in ToServer : Sends(m) /\ m.type # "Open"
  <2>1. CASE SendParams \/ SendVolume
    BY <2>1, AdjustSends
  <2>2. CASE SendText
    BY <2>2, TextSends
  <2>3. CASE SinkCancel \/ CancelSends
    BY <2>3, DiscardSends
  <2> QED
    BY <2>1, <2>2, <2>3
<1>2. chans' = chans
  BY DEF SendParams, SendVolume, SendText, SinkCancel, CancelSends, SendIf, Sent,
     Accepts, SendFails, serverVars
<1>3. \A k \in Keys : channels[k].id # 0 => channels'[k].id # 0
  <2>1. CASE channels' = channels
    BY <2>1
  <2>2. CASE channels' # channels
    <3> DEFINE cp == [ch EXCEPT !.voice = req.voice]
               cv == [ch EXCEPT !.volume = req.volume]
    <3>1. \/ channels' = [channels EXCEPT ![Key(req)] = cp]
          \/ channels' = [channels EXCEPT ![Key(req)] = cv]
      BY <2>2 DEF SendParams, SendVolume, SendText, SinkCancel, CancelSends, SendIf,
         cacheVars
    <3>2. /\ req' = req /\ ch = channels[Key(req)] /\ ch \in CachedChannel
          /\ req.voice \in Voices /\ req.volume \in Volumes
      BY ChTyped DEF TypeOK, ch, SendParams, SendVolume, SendText, SinkCancel,
         CancelSends, SendIf, callVars
    <3>3. cp \in CachedChannel /\ cp.id = ch.id /\ cv \in CachedChannel /\ cv.id = ch.id
      BY <3>2 DEF CachedChannel
    <3> HIDE DEF cp, cv
    <3>4. PICK c \in CachedChannel : /\ c.id = ch.id
                                     /\ channels' = [channels EXCEPT ![Key(req)] = c]
      BY <3>1, <3>3
    <3>5. /\ ch' = c /\ Key(req) = Key(req')
          /\ \A k \in Keys : k # Key(req) => channels'[k] = channels[k]
      BY <3>2, <3>4, ChannelAt
    <3> QED
      BY <3>2, <3>4, <3>5 DEF ch
  <2> QED
    BY <2>1, <2>2
<1>4. inPipe \in Seq(ToServer) /\ UNCHANGED <<up>> /\ Stream' = Stream
  BY <1>1, PipesTyped DEF Same, Sends
<1>5. \A i \in DOMAIN inPipe' : inPipe'[i].type = "Open" =>
        i \in DOMAIN inPipe /\ inPipe'[i] = inPipe[i]
  <2>1. CASE Same
    BY <2>1 DEF Same
  <2>2. CASE ~Same
    <3>1. PICK m \in ToServer : inPipe' = Append(inPipe, m) /\ m.type # "Open"
      BY <1>1, <2>2 DEF Sends
    <3>2. \A i \in DOMAIN inPipe' :
              (i \in DOMAIN inPipe /\ inPipe'[i] = inPipe[i]) \/ inPipe'[i] = m
      <4>1. \A i \in DOMAIN inPipe : inPipe'[i] = inPipe[i]
        BY <1>4, <3>1, AddedAt
      <4>2. \A i \in DOMAIN inPipe' : i \in DOMAIN inPipe \/ (inPipe'[i] = m)
        BY <1>4, <3>1, AddedAt
      <4> QED
        BY <4>1, <4>2
    <3> QED
      BY <3>1, <3>2
  <2> QED
    BY <2>1, <2>2
<1>6. \A i \in DOMAIN inPipe : i \in Nat /\ i + 0 = i
  <2>1. DOMAIN inPipe = 1..Len(inPipe) /\ Len(inPipe) \in Nat
    BY <1>4, LenProperties
  <2> QED
    BY <2>1
<1>7. \A i \in DOMAIN inPipe' : inPipe'[i].type = "Open" =>
        i \in Nat /\ i + 0 \in DOMAIN inPipe /\ inPipe'[i] = inPipe[i + 0]
  BY <1>5, <1>6
<1>8. NoReply => NoReply'
  BY <1>4 DEF NoReply
<1>9. Calm
  BY <1>2, <1>3, <1>4, <1>7, <1>8 DEF Calm
<1>10. CASE SendParams \/ SendVolume \/ SendText \/ SinkCancel
  <2>1. /\ pc \in {"params", "volume", "text", "sinkCancel"} /\ pc' # "waitOpen"
        /\ late' = late
    BY <1>10 DEF SendParams, SendVolume, SendText, SinkCancel, SendIf, StreamEnds,
       Return, waitVars
  <2> QED
    BY <1>9, <2>1, CalmStep DEF Excused, Closing
<1>11. CASE CancelSends
  <2>1. UNCHANGED <<pc, readerFailed, channels, openPid, req, late>>
    BY <1>11 DEF CancelSends, queueVars, cacheVars, callVars, waitVars
  <2>2. Excused' = Excused
    BY <2>1 DEF Excused
  <2> QED
    BY <1>2, <1>4, <1>9, <2>1, <2>2, CalmStep DEF Hears
<1> QED
  BY <1>10, <1>11

-----------------------------------------------------------------------------
\* The wrapper's steps, one by one.

\* openChannel asks for a channel.
LEMMA OpenAsks ==
  ASSUME TypeOK, CallInv, CallerInv, OpenInv, SendOpen PROVE OpenInv'
<1>0. /\ pc = "sendOpen" /\ ~late /\ late' = late
      /\ UNCHANGED <<queue, held, outPipe, chans, channels, req, readerFailed>>
      /\ EngineTypeOK
  BY DEF SendOpen, Sent, Accepts, SendFails, serverVars, queueVars, cacheVars,
     readerVars, callVars, waitVars, TypeOK, CallInv, Waiting
<1>1. Stream' = Stream
  BY <1>0, StillStream
<1>2. pc' = "idle" \/ pc' = "waitOpen"
  BY DEF SendOpen, Return
<1>3. CASE pc' = "idle"
  <2>1. UNCHANGED <<up, inPipe>>
    BY <1>3 DEF SendOpen, SendFails, serverVars
  <2>2. Calm
    BY <1>0, <1>1, <2>1, StillCalm DEF NoReply
  <2> QED
    BY <1>0, <1>3, <2>2, CalmStep DEF Excused, Closing
<1>4. CASE pc' = "waitOpen"
  <2> DEFINE m == Packet("Open", 0, req, 0)
  <2>1. /\ Sent(m) /\ openPid' = nextPacketId
    BY <1>4 DEF SendOpen, Return
  <2>2. inPipe' = Append(inPipe, m) /\ UNCHANGED <<up, chans, jobs>>
    BY <2>1, SentAll
  <2>3. m \in ToServer /\ m.type = "Open" /\ m.pid = nextPacketId /\ m.req = req
    BY <1>0, PacketTyped DEF Packet
  <2> HIDE DEF m
  <2>4. inPipe \in Seq(ToServer)
    BY PipesTyped
  <2>5. \A i \in DOMAIN inPipe' : (i \in DOMAIN inPipe /\ inPipe'[i] = inPipe[i])
                                  \/ (i = Len(inPipe) + 1 /\ inPipe'[i] = m)
    <3>1. /\ \A i \in DOMAIN inPipe : inPipe'[i] = inPipe[i]
          /\ \A i \in DOMAIN inPipe' :
                 i \in DOMAIN inPipe \/ (i = Len(inPipe) + 1 /\ inPipe'[i] = m)
      BY <2>2, <2>3, <2>4, AddedAt
    <3> QED
      BY <3>1
  <2> SUFFICES ASSUME up = "up" PROVE OneOpen' /\ Asking'
    BY <1>0, <1>4, <2>2 DEF OpenInv
  <2>6. Settled
    BY <1>0 DEF OpenInv, Excused, Closing
  <2>7. \A i \in DOMAIN inPipe' :
            inPipe'[i].type = "Open" => i = Len(inPipe) + 1 /\ inPipe'[i] = m
    BY <2>5, <2>6 DEF Settled, NoOpen
  <2>8. req.lang \in Exclusive => ~Hosts(req.lang)
    <3> SUFFICES ASSUME req.lang \in Exclusive, Hosts(req.lang) PROVE FALSE
      OBVIOUS
    <3>1. PICK c \in DOMAIN chans : chans[c].key[1] = req.lang
      BY DEF Hosts
    <3>2. channels[chans[c].key].id # 0 /\ chans[c].key \in Keys
      BY <2>6, <3>1, KeysTyped DEF Settled, Cached
    <3> QED
      BY <1>0, <3>1, <3>2 DEF CallerInv, MustRelaunch
  <2>9. OneOpen'
    <3>1. \A i \in DOMAIN inPipe' :
            inPipe'[i].type = "Open" /\ inPipe'[i].req.lang \in Exclusive
              => ~Hosts(inPipe[i].req.lang)'
      BY <2>2, <2>3, <2>7, <2>8 DEF Hosts
    <3> QED
      BY <2>7, <3>1 DEF OneOpen
  <2>10. Asking'
    <3>1. NoReply' /\ \A c \in DOMAIN chans' : Cached(c)'
      BY <1>0, <1>1, <2>6 DEF Settled, NoReply, Cached
    <3>2. \A i \in DOMAIN inPipe' : inPipe'[i].type = "Open" =>
            inPipe'[i].pid = openPid' /\ Key(inPipe'[i].req) = Key(req)
      BY <2>1, <2>3, <2>7
    <3> QED
      BY <1>0, <3>1, <3>2 DEF Asking, NoReply, Key
  <2> QED
    BY <2>9, <2>10
<1> QED
  BY <1>2, <1>3, <1>4

\* openChannel takes the answer, or gives up.
LEMMA OpenWaits ==
  ASSUME TypeOK, OpenInv, OpenChannelWaits PROVE OpenInv'
<1>0. /\ pc = "waitOpen" /\ late' = FALSE
      /\ UNCHANGED <<up, inPipe, chans, jobs, held, outPipe, req, openPid, readerFailed>>
      /\ Stream \in Seq(FromServer) /\ EngineTypeOK
      /\ pc' \in {"waitOpen", "arm", "idle"}
  BY PipesTyped DEF OpenChannelWaits, serverVars, readerVars, callVars, Pops, GivesUp,
     queueVars, TypeOK, Return
<1> SUFFICES ASSUME up = "up"
             PROVE  /\ OneOpen' /\ (pc' # "waitOpen" /\ ~Excused' => Settled')
                    /\ (pc' = "waitOpen" => Asking')
  BY <1>0 DEF OpenInv
<1>1. OneOpen /\ Asking
  BY <1>0 DEF OpenInv
<1>2. OneOpen'
  BY <1>0, <1>1 DEF OneOpen, Hosts
<1>3. CASE Pops /\ Head(queue).type = "OpenNotify"
  <2> DEFINE p == Head(queue)
  <2>1. Stream # <<>> /\ p = Stream[1] /\ Stream' = Tail(Stream)
    BY <1>0, <1>3, PopsStream
  <2>2. 1 \in DOMAIN Stream /\ p \in FromServer
    BY <1>0, <2>1, TailAt
  <2>3. p.type = "OpenNotify"
    BY <1>3
  <2>4. /\ p.pid = openPid /\ \A j \in DOMAIN Stream : Stream[j].type = "OpenNotify" => j = 1
        /\ p.chan # 0 => p.chan \in DOMAIN chans /\ chans[p.chan].key = Key(req)
    BY <1>1, <2>1, <2>2, <2>3 DEF Asking
  <2>5. NoReply'
    <3>1. \A i \in DOMAIN Stream' : /\ i \in Nat /\ i + 1 \in DOMAIN Stream
                                    /\ Stream'[i] = Stream[i + 1] /\ i + 1 > 1
      BY <1>0, <2>1, TakenAt
    <3>2. \A i \in DOMAIN Stream' : Stream'[i].type # "OpenNotify"
      BY <2>4, <3>1
    <3> QED
      BY <3>2 DEF NoReply
  <2>6. NoOpen'
    BY <1>0, <1>1, <2>1, <2>2, <2>3 DEF Asking, NoReply, NoOpen
  <2>7. IsOpenReply(p)
    BY <2>3, <2>4 DEF IsOpenReply
  <2>8. \A c \in DOMAIN chans : Cached(c) \/ (chans[c].key = Key(req) /\ Grants(p))
    BY <1>1, <2>1, <2>4 DEF Asking, Grants
  <2> HIDE DEF p
  <2>9. CASE p.ok /\ p.chan # 0
    <3> DEFINE n == [NoChannel EXCEPT !.id = p.chan]
    <3>1. pc' = "arm" /\ channels' = [channels EXCEPT ![Key(req)] = n]
      BY <1>3, <2>7, <2>9 DEF OpenChannelWaits, GivesUp, Pops, p
    <3>2. n \in CachedChannel /\ n.id = p.chan
      BY <2>2, NoChannelTyped DEF FromServer, CachedChannel, NoChannel
    <3> HIDE DEF n
    <3>3. /\ channels'[Key(req)] = n
          /\ \A k \in Keys : k # Key(req) => channels'[k] = channels[k]
      BY <1>0, <3>1, <3>2, ChannelAt DEF ch
    <3>4. \A c \in DOMAIN chans : chans[c].key \in Keys
      BY KeysTyped
    <3>5. \A c \in DOMAIN chans' : Cached(c)'
      BY <1>0, <2>8, <2>9, <3>2, <3>3, <3>4 DEF Cached
    <3> QED
      BY <1>2, <2>5, <2>6, <3>1, <3>5 DEF Settled
  <2>10. CASE ~(p.ok /\ p.chan # 0)
    <3>1. channels' = channels /\ pc' = "idle"
      BY <1>3, <2>7, <2>10 DEF OpenChannelWaits, GivesUp, Pops, Return, p
    <3>2. ~Grants(p)
      BY <2>10 DEF Grants
    <3>3. \A c \in DOMAIN chans' : Cached(c)'
      BY <1>0, <2>8, <3>1, <3>2 DEF Cached
    <3> QED
      BY <1>2, <2>5, <2>6, <3>1, <3>3 DEF Settled
  <2> QED
    BY <2>9, <2>10
<1>4. CASE ~Pops
  <2>1. GivesUp /\ pc' = "idle" /\ channels' = channels /\ UNCHANGED queue
    BY <1>4 DEF OpenChannelWaits, Return, GivesUp, queueVars
  <2>2. Stream' = Stream
    BY <1>0, <2>1, StillStream
  <2>3. CASE readerFailed
    BY <1>0, <1>2, <2>1, <2>3 DEF Excused
  <2>4. CASE late
    <3>1. NoOpen /\ NoReply
      BY <1>0, <2>4 DEF OpenInv
    <3>2. NoOpen' /\ NoReply'
      BY <1>0, <2>2, <3>1 DEF NoOpen, NoReply
    <3>3. \A c \in DOMAIN chans' : Cached(c)'
      BY <1>0, <1>1, <2>1, <3>1 DEF Asking, Cached, NoReply, Grants
    <3> QED
      BY <1>2, <2>1, <3>2, <3>3 DEF Settled
  <2> QED
    BY <2>1, <2>3, <2>4 DEF GivesUp
<1>5. CASE Pops /\ Head(queue).type # "OpenNotify"
  <2>1. Stream # <<>> /\ Head(queue) = Stream[1] /\ Stream' = Tail(Stream)
    BY <1>0, <1>5, PopsStream
  <2>2. pc' = "waitOpen" /\ channels' = channels
    BY <1>0, <1>5 DEF OpenChannelWaits, IsOpenReply, Pops, GivesUp
  <2>3. \A i \in DOMAIN Stream' : /\ i \in Nat /\ i + 1 \in DOMAIN Stream
                                  /\ Stream'[i] = Stream[i + 1]
    BY <1>0, <2>1, TakenAt
  <2>4. \A k \in DOMAIN Stream : k # 1 => k - 1 \in DOMAIN Stream' /\ Stream'[k - 1] = Stream[k]
    <3>1. /\ Len(Stream) \in Nat /\ DOMAIN Stream = 1..Len(Stream)
          /\ DOMAIN Stream' = 1..(Len(Stream) - 1)
      BY <1>0, <2>1, TailAt
    <3> QED
      BY <2>3, <3>1
  <2>5. NoReply => NoReply'
    BY <2>3 DEF NoReply
  <2>6. \A i \in DOMAIN Stream' : Stream'[i].type = "OpenNotify" =>
          /\ Stream'[i].pid = openPid
          /\ \A j \in DOMAIN Stream' : Stream'[j].type = "OpenNotify" => i = j
          /\ Stream'[i].chan # 0 =>
               Stream'[i].chan \in DOMAIN chans /\ chans[Stream'[i].chan].key = Key(req)
    <3> SUFFICES ASSUME NEW i \in DOMAIN Stream', Stream'[i].type = "OpenNotify"
                 PROVE  /\ Stream'[i].pid = openPid
                        /\ \A j \in DOMAIN Stream' : Stream'[j].type = "OpenNotify" => i = j
                        /\ Stream'[i].chan # 0 => /\ Stream'[i].chan \in DOMAIN chans
                                                 /\ chans[Stream'[i].chan].key = Key(req)
      OBVIOUS
    <3>1. /\ i + 1 \in DOMAIN Stream /\ Stream[i + 1].type = "OpenNotify" /\ i \in Nat
          /\ Stream'[i] = Stream[i + 1]
      BY <2>3
    <3>2. ASSUME NEW j \in DOMAIN Stream', Stream'[j].type = "OpenNotify" PROVE i = j
      <4>1. j + 1 \in DOMAIN Stream /\ Stream[j + 1].type = "OpenNotify" /\ j \in Nat
        BY <2>3, <3>2
      <4>2. i + 1 = j + 1
        BY <1>1, <3>1, <4>1 DEF Asking
      <4> QED
        BY <3>1, <4>1, <4>2
    <3> QED
      BY <1>1, <3>1, <3>2 DEF Asking
  <2>7. \A c \in DOMAIN chans :
          Cached(c) \/ (chans[c].key = Key(req) /\ \E i \in DOMAIN Stream' : Grants(Stream'[i]))
    <3>1. \A k \in DOMAIN Stream : Grants(Stream[k]) => \E i \in DOMAIN Stream' : Grants(Stream'[i])
      BY <1>5, <2>1, <2>4 DEF Grants
    <3> QED
      BY <1>1, <3>1 DEF Asking
  <2>8. Asking'
    BY <1>0, <1>1, <2>2, <2>5, <2>6, <2>7 DEF Asking, Cached, Grants, Key
  <2> QED
    BY <1>2, <2>2, <2>8
<1> QED
  BY <1>3, <1>4, <1>5

\* The loop takes a packet; what is left of earlier calls is dropped.
LEMMA OpenTakes ==
  ASSUME TypeOK, ThreadInv, ChildInv, OpenInv, LoopTakes \/ DropLeftovers PROVE OpenInv'
<1>0. UNCHANGED <<up, inPipe, chans, channels>>
  BY DEF LoopTakes, DropLeftovers, serverVars, cacheVars
<1>1. NoReply => NoReply'
  <2>1. CASE LoopTakes
    <3>1. Stream \in Seq(FromServer) /\ Stream # <<>> /\ Stream' = Tail(Stream)
      BY <2>1, CallerTakesOne, PipesTyped, PopsStream DEF LoopTakes, serverVars,
         readerVars
    <3>2. \A i \in DOMAIN Stream' : i + 1 \in DOMAIN Stream /\ Stream'[i] = Stream[i + 1]
      BY <3>1, TakenAt
    <3> QED
      BY <3>2 DEF NoReply
  <2>2. CASE DropLeftovers
    <3>1. \A i \in DOMAIN Stream' : \E k \in DOMAIN Stream : Stream'[i] = Stream[k]
      BY <2>2, Emptied
    <3> QED
      BY <3>1 DEF NoReply
  <2> QED
    BY <2>1, <2>2
<1>2. Calm
  BY <1>0, <1>1, StillCalm
<1>3. pc \in {"wait", "drop"} /\ pc' # "waitOpen"
  BY DEF LoopTakes, DropLeftovers, Audio, AudioTo, OtherPacket, StreamEnds, Return
<1>4. late' => late
  BY DEF LoopTakes, DropLeftovers, Pops, waitVars
<1> QED
  BY <1>2, <1>3, <1>4, CalmStep DEF Excused, Closing

\* closeHandles and launch.
LEMMA OpenCloses ==
  ASSUME TypeOK, ThreadInv, ChildInv, OpenInv, JoinReader \/ ClearState \/ KillChild \/ Launch
  PROVE  OpenInv'
<1>1. CASE JoinReader \/ ClearState
  <2>1. up = "dead" /\ up' = up
    BY <1>1 DEF JoinReader, ClearState, ChildInv, serverVars
  <2> QED
    BY <2>1 DEF OpenInv
<1>2. CASE KillChild
  <2>1. CASE Kill
    BY <2>1 DEF Kill, OpenInv
  <2>2. CASE ~Kill
    BY <1>2, <2>2 DEF KillChild, ChildInv, serverVars, OpenInv
  <2> QED
    BY <2>1, <2>2
<1>3. CASE Launch
  <2>1. Stream' = <<>> /\ inPipe' = <<>> /\ pc' # "waitOpen"
    BY <1>3, Emptied DEF Launch, Return
  <2>2. up' = "up" => chans' = <<>>
    BY <1>3 DEF Launch, LaunchStarts, Spawn, ChildInv, serverVars
  <2>3. OneOpen' /\ (up' = "up" => Settled')
    BY <2>1, <2>2 DEF OneOpen, Settled, NoOpen, NoReply
  <2>4. NoOpen' /\ NoReply'
    BY <2>1 DEF NoOpen, NoReply
  <2> QED
    BY <2>1, <2>3, <2>4 DEF OpenInv
<1> QED
  BY <1>1, <1>2, <1>3

-----------------------------------------------------------------------------
\* The child's steps.

\* The child opens the channel, or refuses it.
LEMMA OpenServes ==
  ASSUME TypeOK, OpenInv, ServerOpens,
         UNCHANGED <<pc, req, openPid, channels, readerFailed, queue, held, late>>
  PROVE  OpenInv'
<1> DEFINE m == inPipe[1]
<1>0. /\ chans \in Seq(ServerChannel) /\ inPipe \in Seq(ToServer)
      /\ Stream \in Seq(FromServer)
      /\ ServerTypeOK
  BY PipesTyped DEF TypeOK
<1>1. /\ inPipe # <<>> /\ inPipe' = Tail(inPipe) /\ m.type = "Open" /\ Head(inPipe) = m
      /\ 1 \in DOMAIN inPipe /\ up = "up" /\ up' = up
  BY Reading DEF ServerOpens
<1>2. /\ m.req \in Requests /\ m.pid \in Nat
  BY <1>0, <1>1, HeadTyped DEF ServerOpens
<1>3. OneOpen /\ ~NoOpen
  BY <1>1 DEF OpenInv, NoOpen
<1>4. Excused' = Excused /\ (pc # "waitOpen" => Excused) /\ ~late'
  BY <1>1, <1>3 DEF OpenInv, Settled, Excused
<1>5. NoOpen' /\ OneOpen'
  <2>1. \A i \in DOMAIN inPipe' : /\ i \in Nat /\ i + 1 \in DOMAIN inPipe
                                  /\ inPipe'[i] = inPipe[i + 1] /\ i + 1 > 1
    BY <1>0, <1>1, TakenAt
  <2>2. \A j \in DOMAIN inPipe : inPipe[j].type = "Open" => 1 = j
    BY <1>1, <1>3 DEF OneOpen
  <2>3. \A i \in DOMAIN inPipe' : inPipe'[i].type # "Open"
    BY <2>1, <2>2
  <2> QED
    BY <2>3 DEF NoOpen, OneOpen
<1>6. ASSUME pc = "waitOpen" PROVE Asking'
  <2>1. Asking /\ m.pid = openPid /\ Key(m.req) = Key(req) /\ NoReply
    BY <1>1, <1>6 DEF OpenInv, Asking
  <2> DEFINE yes == OpenNotify(m.pid, Len(chans) + 1, TRUE)
             no == OpenNotify(m.pid, 0, FALSE)
  <2>2. /\ yes \in FromServer /\ yes.type = "OpenNotify" /\ yes.pid = m.pid
        /\ yes.chan = Len(chans) + 1 /\ yes.ok = TRUE
        /\ no \in FromServer /\ no.type = "OpenNotify" /\ no.pid = m.pid /\ no.chan = 0
    <3>1. m.pid \in Nat /\ Len(chans) + 1 \in Nat /\ gen \in Nat
      BY <1>0, <1>2 DEF ServerTypeOK
    <3> HIDE DEF m
    <3> QED
      BY <3>1 DEF OpenNotify, Blank, FromServer
  <2>3. \/ Says(yes) /\ \E voice \in Voices : \E volume \in Volumes :
                chans' = Append(chans, [key |-> Key(m.req), voice |-> voice, volume |-> volume])
        \/ Says(no) /\ chans' = chans
    BY <1>1 DEF ServerOpens
  <2>4. \A c \in DOMAIN chans : Cached(c)
    BY <2>1 DEF Asking, NoReply, Grants
  <2> HIDE DEF yes, no
  <2>5. CASE Says(yes)
    <3>1. Stream' = Append(Stream, yes)
      BY <2>2, <2>5, SaysStream
    <3>2. /\ Len(chans) + 1 \in DOMAIN chans' /\ chans'[Len(chans) + 1].key = Key(req)
          /\ \A c \in DOMAIN chans' :
                 (c \in DOMAIN chans /\ chans'[c] = chans[c]) \/ chans'[c].key = Key(req)
      <4>1. ~Says(no)
        <5>1. CASE Says(no)
          <6>1. Stream' = Append(Stream, no)
            BY <2>2, <5>1, SaysStream
          <6>2. Len(Stream) + 1 \in DOMAIN Stream' /\ Stream'[Len(Stream) + 1] = yes
            BY <1>0, <2>2, <3>1, AddedAt
          <6>3. Stream'[Len(Stream) + 1] = no
            BY <1>0, <2>2, <6>1, AddedAt
          <6> QED
            BY <1>0, <2>2, <6>2, <6>3
        <5> QED
          BY <5>1
      <4>2. PICK voice \in Voices : \E volume \in Volumes :
              chans' = Append(chans, [key |-> Key(m.req), voice |-> voice, volume |-> volume])
        BY <2>3, <4>1
      <4>3. PICK volume \in Volumes :
              chans' = Append(chans, [key |-> Key(m.req), voice |-> voice, volume |-> volume])
        BY <4>2
      <4> DEFINE new == [key |-> Key(m.req), voice |-> voice, volume |-> volume]
      <4>4. new \in ServerChannel /\ new.key = Key(req)
        <5>1. Key(m.req) \in Keys
          BY <1>2, ServerAssumption DEF Key, Keys
        <5> QED
          BY <2>1, <5>1 DEF ServerChannel
      <4>5. chans' = Append(chans, new)
        BY <4>3
      <4> HIDE DEF new
      <4>6. /\ Len(chans) + 1 \in DOMAIN chans' /\ chans'[Len(chans) + 1] = new
            /\ \A c \in DOMAIN chans' : c \in DOMAIN chans \/ chans'[c] = new
            /\ \A c \in DOMAIN chans : chans'[c] = chans[c]
        BY <1>0, <4>4, <4>5, AddedAt
      <4> QED
        BY <4>4, <4>6
    <3>3. \A i \in DOMAIN Stream' :
              Stream'[i].type = "OpenNotify" => i = Len(Stream) + 1 /\ Stream'[i] = yes
      <4>1. /\ \A i \in DOMAIN Stream' :
                   i \in DOMAIN Stream \/ (i = Len(Stream) + 1 /\ Stream'[i] = yes)
            /\ \A i \in DOMAIN Stream : Stream'[i] = Stream[i]
        BY <1>0, <2>2, <3>1, AddedAt
      <4> QED
        BY <2>1, <4>1 DEF NoReply
    <3>4. Len(Stream) + 1 \in DOMAIN Stream' /\ Stream'[Len(Stream) + 1] = yes
      BY <1>0, <2>2, <3>1, AddedAt
    <3>5. Grants(yes) /\ yes.pid = openPid
      <4>1. Len(chans) + 1 # 0
        BY <1>0, LenProperties
      <4> QED
        BY <2>1, <2>2, <4>1 DEF Grants
    <3>6. \A i \in DOMAIN Stream' : Stream'[i].type = "OpenNotify" =>
           /\ Stream'[i].pid = openPid
           /\ \A j \in DOMAIN Stream' : Stream'[j].type = "OpenNotify" => i = j
           /\ Stream'[i].chan # 0 =>
                Stream'[i].chan \in DOMAIN chans' /\ chans'[Stream'[i].chan].key = Key(req)
      BY <2>2, <3>2, <3>3, <3>5
    <3>7. \A c \in DOMAIN chans' :
       Cached(c)' \/ (chans'[c].key = Key(req) /\ \E i \in DOMAIN Stream' : Grants(Stream'[i]))
      BY <2>4, <3>2, <3>4, <3>5 DEF Cached
    <3> QED
      BY <1>5, <3>6, <3>7 DEF Asking, NoOpen, Grants, Key
  <2>6. CASE ~Says(yes)
    <3>0. Says(no) /\ chans' = chans
      BY <2>3, <2>6
    <3>1. Stream' = Append(Stream, no)
      BY <2>2, <3>0, SaysStream
    <3>3. \A i \in DOMAIN Stream' :
              Stream'[i].type = "OpenNotify" => i = Len(Stream) + 1 /\ Stream'[i] = no
      <4>1. /\ \A i \in DOMAIN Stream' :
                   i \in DOMAIN Stream \/ (i = Len(Stream) + 1 /\ Stream'[i] = no)
            /\ \A i \in DOMAIN Stream : Stream'[i] = Stream[i]
        BY <1>0, <2>2, <3>1, AddedAt
      <4> QED
        BY <2>1, <4>1 DEF NoReply
    <3>6. \A i \in DOMAIN Stream' : Stream'[i].type = "OpenNotify" =>
           /\ Stream'[i].pid = openPid
           /\ \A j \in DOMAIN Stream' : Stream'[j].type = "OpenNotify" => i = j
           /\ Stream'[i].chan = 0
      BY <2>1, <2>2, <3>3
    <3>7. \A c \in DOMAIN chans' : Cached(c)'
      BY <2>4, <3>0 DEF Cached
    <3> QED
      BY <1>5, <3>6, <3>7 DEF Asking, NoOpen, Key
  <2> QED
    BY <2>5, <2>6
<1> QED
  BY <1>4, <1>5, <1>6 DEF OpenInv

\* The child's other steps answer no OpenChannel, whatever it says to an idle Discard.
LEMMA OtherHears ==
  ASSUME TypeOK, ServerSteps, ServerReads \/ ServerWorks, ~ServerOpens, up' = "up"
  PROVE  Hears
<1>0. UNCHANGED <<queue, held>> /\ inPipe \in Seq(ToServer)
  BY PipesTyped DEF ServerSteps, queueVars, readerVars
<1>1. CASE ServerDiscards
  <2> DEFINE c == Head(inPipe).chan
             p == EndOfStream(c, 0, 0, TRUE)
  <2>1. Says(p) \/ outPipe' = outPipe
    BY <1>1 DEF ServerDiscards
  <2>2. c \in Nat /\ gen \in Nat
    <3>1. ServerTypeOK /\ Reads("Discard")
      BY <1>1 DEF TypeOK, ServerDiscards
    <3> QED
      BY <3>1, HeadTyped DEF ServerTypeOK
  <2> HIDE DEF c
  <2>3. p \in FromServer /\ p.type = "Audio"
    BY <2>2 DEF EndOfStream, Blank, FromServer
  <2> HIDE DEF p
  <2> QED
    BY <1>0, <2>1, <2>3, SaysStream, StillStream DEF Hears
<1>2. CASE ~ServerDiscards
  <2>1. CASE Opened
    <3>1. /\ Reads("Open") /\ inPipe # <<>> /\ inPipe' = Tail(inPipe)
          /\ Head(inPipe).type = "Open"
      BY <2>1 DEF Opened, Reads
    <3>2. CASE ServerReads
      <4>1. ServerStuck
        BY <3>1, <3>2 DEF ServerReads, ServerAdjusts, ServerAccepts, ServerDiscards, Reads
      <4> QED
        BY <4>1 DEF ServerStuck
    <3>3. CASE ServerWorks
      <4>1. inPipe' = inPipe
        BY <3>3, WorkingKeeps
      <4>2. Len(Tail(inPipe)) = Len(inPipe) - 1 /\ Len(inPipe) \in Nat
        BY <1>0, <3>1, TailAt
      <4> QED
        BY <3>1, <4>1, <4>2
    <3> QED
      BY <3>2, <3>3
  <2>2. CASE Adjusts \/ TookText \/ Cuts
    BY <2>2 DEF Adjusts, TookText, Cuts, Hears
  <2>3. CASE Renders
    BY <2>3 DEF Renders, Packets, Hears
  <2>4. CASE Ends
    BY <2>4 DEF Ends, Hears
  <2>5. CASE Falls
    BY <2>5 DEF Falls
  <2> QED
    BY <1>2, <2>1, <2>2, <2>3, <2>4, <2>5, ServerKinds
<1> QED
  BY <1>1, <1>2

\* They open nothing.
LEMMA OpenServer ==
  ASSUME TypeOK, OpenInv, ServerSteps PROVE OpenInv'
<1>0. /\ UNCHANGED <<pc, req, openPid, channels, readerFailed, queue, held, late>> /\ Server
      /\ inPipe \in Seq(ToServer)
      /\ Excused' = Excused
  BY PipesTyped DEF ServerSteps, callVars, cacheVars, queueVars, readerVars, waitVars,
     Excused
<1>1. CASE ServerOpens
  BY <1>0, <1>1, OpenServes
<1>2. CASE ~ServerOpens /\ up' = "up"
  <2>0. ServerReads \/ ServerWorks
    BY <1>0, <1>2 DEF Server, ServerHangs, ServerDies, Kill
  <2>1. /\ \E d \in {0, 1} : \A i \in DOMAIN inPipe' :
              i \in Nat /\ i + d \in DOMAIN inPipe /\ inPipe'[i] = inPipe[i + d]
        /\ \A c \in DOMAIN chans' : c \in DOMAIN chans /\ chans'[c].key = chans[c].key
        /\ \A c \in DOMAIN chans : c \in DOMAIN chans' /\ chans'[c].key = chans[c].key
    <3>1. CASE ServerReads
      <4>1. inPipe # <<>> /\ inPipe' = Tail(inPipe) /\ Kept
        BY <1>2, <3>1, ReadingAdapts
      <4>2. DOMAIN chans' = DOMAIN chans
        BY <1>2, <3>1 DEF ServerReads, ServerStuck, ServerAdjusts, ServerAccepts,
           ServerDiscards
      <4>3. \A i \in DOMAIN inPipe' : /\ i \in Nat /\ i + 1 \in DOMAIN inPipe
                                      /\ inPipe'[i] = inPipe[i + 1]
        BY <1>0, <4>1, TakenAt
      <4> QED
        BY <4>1, <4>2, <4>3 DEF Kept
    <3>2. CASE ServerWorks
      <4>1. UNCHANGED <<inPipe, chans>>
        BY <3>2, WorkingKeeps
      <4>2. \A i \in DOMAIN inPipe : i \in Nat /\ i + 0 = i
        <5>1. DOMAIN inPipe = 1..Len(inPipe) /\ Len(inPipe) \in Nat
          BY <1>0, LenProperties
        <5> QED
          BY <5>1
      <4> QED
        BY <4>1, <4>2
    <3> QED
      BY <2>0, <3>1, <3>2
  <2>2. up = "up" /\ up' = up
    BY <1>2, <2>0, WorkingKeeps DEF ServerReads, ServerOpens, ServerStuck,
       ServerAdjusts, ServerAccepts, ServerDiscards, Reads
  <2>3. Hears /\ (NoReply => NoReply')
    BY <1>2, <2>0, OtherHears, HearsAt
  <2>4. Calm
    BY <1>0, <2>1, <2>2, <2>3 DEF Calm
  <2> QED
    BY <1>0, <2>1, <2>3, <2>4, CalmStep
<1> QED
  BY <1>1, <1>2 DEF OpenInv

\* The threads, the child and the call, whatever the child says and when.
PaceInv == ThreadInv /\ NoLostWakeup /\ ChildInv /\ CallInv

\* OpenInv is inductive; Prompt is what keeps a deadline from passing early.
LEMMA OpenStep ==
  ASSUME TypeOK, PaceInv, CallerInv, OpenInv, Prompt, [Next]_vars PROVE OpenInv'
<1>1. CASE Moves
  BY <1>1, OpenMoves DEF PaceInv
<1>2. CASE SendOpen
  BY <1>2, OpenAsks DEF PaceInv
<1>3. CASE SendParams \/ SendVolume \/ SendText \/ SinkCancel \/ CancelSends
  BY <1>3, OpenSends
<1>4. CASE OpenChannelWaits
  BY <1>4, OpenWaits
<1>5. CASE LoopTakes \/ DropLeftovers
  BY <1>5, OpenTakes DEF PaceInv
<1>6. CASE JoinReader \/ ClearState \/ KillChild \/ Launch
  BY <1>6, OpenCloses DEF PaceInv
<1>7. CASE ServerSteps
  BY <1>7, OpenServer
<1> QED
  BY <1>1, <1>2, <1>3, <1>4, <1>5, <1>6, <1>7 DEF Next, Speak, Moves, Canceller, Over

-----------------------------------------------------------------------------
\* The invariant, and what follows from it.

\* A channel the cache learns of is the one the child has opened; nothing is known of its
\* parameters.
LEMMA CacheOpens ==
  ASSUME TypeOK, OpenInv, CacheInv, OpenChannelWaits PROVE CacheInv'
<1>0. /\ pc = "waitOpen" /\ UNCHANGED <<up, inPipe, chans, jobs, held, outPipe, req>>
      /\ Stream \in Seq(FromServer)
  BY PipesTyped DEF OpenChannelWaits, serverVars, readerVars, callVars
<1> SUFFICES ASSUME up = "up" PROVE Known' /\ TextServed' /\ JobsServed'
  BY <1>0 DEF CacheInv
<1>1. TextServed' /\ JobsServed'
  BY <1>0 DEF CacheInv, TextServed, JobsServed, Served
<1>2. CASE channels' = channels
  BY <1>0, <1>1, <1>2 DEF CacheInv, Known
<1>3. CASE channels' # channels
  <2> DEFINE p == Head(queue)
             n == [NoChannel EXCEPT !.id = p.chan]
  <2>1. /\ Pops /\ channels' = [channels EXCEPT ![Key(req)] = n] /\ IsOpenReply(p)
        /\ p.chan # 0
    BY <1>3 DEF OpenChannelWaits
  <2>2. Stream # <<>> /\ p = Stream[1] /\ 1 \in DOMAIN Stream /\ p \in FromServer
    BY <1>0, <2>1, PopsStream, TailAt
  <2>3. p.chan \in DOMAIN chans /\ chans[p.chan].key = Key(req)
    BY <1>0, <2>1, <2>2 DEF OpenInv, Asking, IsOpenReply
  <2>4. n \in CachedChannel /\ n.id = p.chan /\ n.voice = Unset /\ n.volume = Unset
    BY <2>2, NoChannelTyped DEF FromServer, CachedChannel, NoChannel
  <2> HIDE DEF p, n
  <2>5. channels'[Key(req)] = n /\ \A k \in Keys : k # Key(req) => channels'[k] = channels[k]
    BY <1>0, <2>1, <2>4, ChannelAt DEF ch
  <2>6. Known'
    BY <1>0, <2>3, <2>4, <2>5 DEF CacheInv, Known
  <2> QED
    BY <1>1, <2>6
<1> QED
  BY <1>2, <1>3

\* A new child knows nothing, and neither does the cache.
LEMMA CacheCloses ==
  ASSUME TypeOK, ChildInv, CallInv, CacheInv, KillChild \/ ClearState \/ Launch
  PROVE  CacheInv'
<1>1. CASE KillChild
  <2>1. CASE Kill
    BY <2>1 DEF Kill, CacheInv
  <2>2. CASE ~Kill
    BY <1>1, <2>2 DEF KillChild, ChildInv, serverVars, CacheInv
  <2> QED
    BY <2>1, <2>2
<1>2. CASE ClearState
  BY <1>2 DEF ClearState, ChildInv, serverVars, CacheInv
<1>3. CASE Launch
  <2> SUFFICES ASSUME up' = "up" PROVE Known' /\ TextServed' /\ JobsServed'
    BY DEF CacheInv
  <2>1. inPipe' = <<>> /\ jobs' = <<>>
    BY <1>3 DEF Launch, LaunchStarts, Spawn, ChildInv, serverVars
  <2>2. channels' = [k \in Keys |-> NoChannel]
    BY <1>3 DEF Launch, CallInv, cacheVars
  <2>3. \A k \in Keys : channels'[k].id = 0
    BY <2>2 DEF NoChannel
  <2> QED
    BY <2>1, <2>3 DEF Known, TextServed, JobsServed
<1> QED
  BY <1>1, <1>2, <1>3

\* CacheInv is inductive.
LEMMA CacheStep ==
  ASSUME TypeOK, PaceInv, CallerInv, OpenInv, CacheInv, [Next]_vars
  PROVE  CacheInv'
<1>1. CASE OffThePipe
  <2>1. UNCHANGED <<up, inPipe, chans, jobs, channels>>
    BY <1>1, OffThePipeStill
  <2> QED
    BY <2>1 DEF CacheInv, Known, TextServed, JobsServed, Served
<1>2. CASE SendOpen \/ SendText \/ SinkCancel \/ CancelSends
  BY <1>2, CacheSends
<1>3. CASE SendParams \/ SendVolume
  BY <1>3, CacheAdjusts
<1>4. CASE OpenChannelWaits
  BY <1>4, CacheOpens
<1>5. CASE KillChild \/ ClearState \/ Launch
  BY <1>5, CacheCloses DEF PaceInv
<1>6. CASE ServerSteps
  BY <1>6, CacheServer
<1> QED
  BY <1>1, <1>2, <1>3, <1>4, <1>5, <1>6 DEF Next, Speak, OffThePipe, Canceller, Over

-----------------------------------------------------------------------------
RenderInv == CallerInv /\ OpenInv /\ CacheInv

\* The invariant holds at the start.
LEMMA RenderInit == Init => PaceInv /\ RenderInv
<1>1. Init => PaceInv
  BY LifeInit DEF LifeInv, PaceInv
<1>2. Init => RenderInv
  <2> SUFFICES ASSUME Init PROVE RenderInv
    OBVIOUS
  <2>1. pc = "idle" /\ up = "dead"
    BY DEF Init, ServerInit
  <2> QED
    BY <2>1 DEF RenderInv, CallerInv, OpenInv, CacheInv
<1> QED
  BY <1>1, <1>2

\* The invariant holds of a prompt child.
LEMMA RenderSafe ==
  ASSUME Prompt PROVE Safety => [](TypeOK /\ PaceInv /\ RenderInv)
<1>1. Init => PaceInv /\ RenderInv
  BY RenderInit
<1>2. TypeOK /\ PaceInv /\ [Next]_vars => PaceInv'
  BY ThreadStep, WakeupStep, ChildStep, CallStep DEF PaceInv
<1>3. TypeOK /\ PaceInv /\ RenderInv /\ [Next]_vars => RenderInv'
  BY CallerStep, OpenStep, CacheStep DEF PaceInv, RenderInv
<1> QED
  BY <1>1, <1>2, <1>3, TypeCorrect, PTL DEF Safety

\* Every text is rendered on a channel of the language and rate, with the voice and at the
\* volume its caller asked for (speakOnce, Channel::last, Channel::lastVolume).
THEOREM RendersWhatIsAsked ==
  ASSUME Prompt PROVE Safety => []RendersAsAsked
<1>1. TypeOK /\ PaceInv /\ RenderInv => RendersAsAsked
  <2> SUFFICES ASSUME PaceInv, RenderInv PROVE RendersAsAsked
    OBVIOUS
  <2>1. CASE up = "up"
    BY <2>1 DEF RenderInv, CacheInv, JobsServed, Served, RendersAsAsked
  <2>2. CASE up # "up"
    BY <2>2 DEF PaceInv, ChildInv, RendersAsAsked
  <2> QED
    BY <2>1, <2>2
<1> QED
  BY <1>1, RenderSafe, PTL

\* The child is never asked for a second channel of a language that cannot host two: the
\* cache knows every channel it has, and openChannel relaunches it first.
THEOREM ChildIsNeverStuck ==
  ASSUME Prompt PROVE Safety => []NeverStuck
<1>1. TypeOK /\ PaceInv /\ RenderInv => NeverStuck
  <2> SUFFICES ASSUME TypeOK, RenderInv, up = "up", inPipe # <<>>, Head(inPipe).type = "Open",
                      Head(inPipe).req.lang \in Exclusive, Hosts(Head(inPipe).req.lang)
               PROVE  FALSE
    BY DEF NeverStuck
  <2>1. 1 \in DOMAIN inPipe /\ Head(inPipe) = inPipe[1]
    BY PipesTyped, TailAt
  <2> QED
    BY <2>1 DEF RenderInv, OpenInv, OneOpen
<1> QED
  BY <1>1, RenderSafe, PTL
=============================================================================
