------------------------- MODULE LucentEngineProofs -------------------------
(***************************************************************************)
(* Theorems about LucentEngine, for every value of its constants: the      *)
(* types of its child and its own, that everything in flight belongs to    *)
(* the child that is running now, and that no wake-up of the caller is     *)
(* lost.                                                                   *)
(***************************************************************************)
EXTENDS LucentEngine, SequenceTheorems, TLAPS

-----------------------------------------------------------------------------
(* The child: what its steps leave of its state.                            *)

\* A packet the child writes is a packet.
LEMMA PacketsTyped ==
  ASSUME gen \in Nat, NEW j \in Job, NEW n \in Nat, NEW c \in Nat, NEW u \in Nat,
         NEW b \in BOOLEAN
  PROVE  /\ OpenNotify(n, c, b) \in FromServer
         /\ TextRange(j) \in FromServer
         /\ BookMark(j, n) \in FromServer
         /\ Sound(j) \in FromServer
         /\ EndOfStream(c, u, n, b) \in FromServer
  BY DEF OpenNotify, TextRange, BookMark, Sound, EndOfStream, Blank, FromServer, Job

\* The packet at the head of stdin is a packet, and its request is one unless it is a
\* Discard.
LEMMA HeadTyped ==
  ASSUME ServerTypeOK, NEW type, Reads(type)
  PROVE  /\ Head(inPipe) \in ToServer
         /\ Tail(inPipe) \in Seq(ToServer)
         /\ inPipe' = Tail(inPipe) /\ gen' = gen
         /\ Head(inPipe).type = type
         /\ Head(inPipe).chan \in Nat /\ Head(inPipe).pid \in Nat /\ Head(inPipe).utt \in Nat
         /\ type # "Discard" =>
              /\ Head(inPipe).req \in Requests
              /\ Head(inPipe).req.lang \in Langs /\ Head(inPipe).req.rate \in Rates
              /\ Head(inPipe).req.voice \in Voices /\ Head(inPipe).req.volume \in Volumes
<1>1. Head(inPipe) \in ToServer /\ Tail(inPipe) \in Seq(ToServer)
  BY DEF ServerTypeOK, Reads
<1>2. type # "Discard" => Head(inPipe).req \in Requests
  BY <1>1 DEF Reads, ToServer
<1> QED
  BY <1>1, <1>2, ServerAssumption DEF Reads, ToServer

LEMMA SaysTyped ==
  ASSUME ServerTypeOK, NEW p \in FromServer, Says(p)
  PROVE  outPipe' \in Seq(FromServer)
  BY DEF ServerTypeOK, Says

LEMMA OpensTyped ==
  ASSUME ServerTypeOK, ServerOpens PROVE ServerTypeOK'
<1> DEFINE m == Head(inPipe)
<1>1. Reads("Open") /\ UNCHANGED <<up, jobs>>
  BY DEF ServerOpens
<1>2. m \in ToServer /\ m.pid \in Nat /\ m.req.lang \in Langs /\ m.req.rate \in Rates
      /\ inPipe' \in Seq(ToServer) /\ gen' = gen
  BY <1>1, HeadTyped
<1>3. Key(m.req) \in Keys
  BY <1>2 DEF Key, Keys
<1>4. Len(chans) + 1 \in Nat
  BY DEF ServerTypeOK
<1>5. /\ OpenNotify(m.pid, Len(chans) + 1, TRUE) \in FromServer
      /\ OpenNotify(m.pid, 0, FALSE) \in FromServer
  BY <1>2, <1>4 DEF ServerTypeOK, OpenNotify, Blank, FromServer
<1>6. outPipe' \in Seq(FromServer)
  BY <1>5, SaysTyped DEF ServerOpens
<1>7. chans' \in Seq(ServerChannel)
  <2>1. CASE UNCHANGED chans
    BY <2>1 DEF ServerTypeOK
  <2>2. CASE ~UNCHANGED chans
    <3>1. PICK voice \in Voices, volume \in Volumes :
            chans' = Append(chans, [key |-> Key(m.req), voice |-> voice, volume |-> volume])
      BY <2>2 DEF ServerOpens
    <3>2. [key |-> Key(m.req), voice |-> voice, volume |-> volume] \in ServerChannel
      BY <1>3 DEF ServerChannel
    <3> QED
      BY <3>1, <3>2, AppendProperties DEF ServerTypeOK
  <2> QED
    BY <2>1, <2>2
<1> QED
  BY <1>1, <1>2, <1>6, <1>7 DEF ServerTypeOK

LEMMA AdjustsTyped ==
  ASSUME ServerTypeOK, NEW type \in {"Params", "Volume"}, ServerAdjusts(type)
  PROVE  ServerTypeOK'
<1> DEFINE m == Head(inPipe)
<1>1. Reads(type)
  BY DEF ServerAdjusts
<1>2. /\ m.req.voice \in Voices /\ m.req.volume \in Volumes
      /\ inPipe' \in Seq(ToServer) /\ gen' = gen
  BY <1>1, HeadTyped
<1>3. \A c \in DOMAIN chans : chans[c] \in ServerChannel
  BY DEF ServerTypeOK
<1>4. \A c \in DOMAIN chans : Adjusted(chans[c], m) \in ServerChannel
  BY <1>2, <1>3 DEF Adjusted, ServerChannel
<1>5. chans' \in Seq(ServerChannel)
  <2>1. DOMAIN chans = 1..Len(chans) /\ Len(chans) \in Nat
    BY DEF ServerTypeOK
  <2>2. chans' \in [1..Len(chans) -> ServerChannel]
    BY <1>3, <1>4, <2>1 DEF ServerAdjusts
  <2> QED
    BY <2>1, <2>2, SeqDef
<1> QED
  BY <1>2, <1>5 DEF ServerAdjusts, ServerTypeOK

LEMMA AcceptsTextTyped ==
  ASSUME ServerTypeOK, ServerAccepts PROVE ServerTypeOK'
<1> DEFINE m == Head(inPipe)
<1>1. Reads("Text")
  BY DEF ServerAccepts
<1>2. /\ m.req \in Requests /\ m.chan \in Nat /\ m.utt \in Nat
      /\ inPipe' \in Seq(ToServer) /\ gen' = gen
  BY <1>1, HeadTyped
<1>3. \A c \in DOMAIN chans : chans[c].voice \in Voices /\ chans[c].volume \in Volumes
  <2>1. \A c \in DOMAIN chans : chans[c] \in ServerChannel
    BY DEF ServerTypeOK
  <2> QED
    BY <2>1 DEF ServerChannel
<1>4. 0..MaxSound \subseteq Nat /\ 0..MaxMarks \subseteq Nat
  BY ServerAssumption
<1>5. jobs' \in Seq(Job)
  <2>1. CASE m.chan \in DOMAIN chans
    <3>1. PICK n \in 0..MaxSound, marks \in 0..MaxMarks, ends \in BOOLEAN :
            jobs' = Append(jobs,
                   [chan |-> m.chan, utt |-> m.utt, req |-> m.req,
                    voice |-> chans[m.chan].voice, volume |-> chans[m.chan].volume,
                    left |-> n, marks |-> marks, ends |-> ends, told |-> FALSE,
                    cut |-> FALSE])
      BY <2>1 DEF ServerAccepts
    <3>2. n \in Nat /\ marks \in Nat
      BY <1>4
    <3>3. [chan |-> m.chan, utt |-> m.utt, req |-> m.req,
           voice |-> chans[m.chan].voice, volume |-> chans[m.chan].volume,
           left |-> n, marks |-> marks, ends |-> ends, told |-> FALSE,
           cut |-> FALSE] \in Job
      BY <1>2, <1>3, <2>1, <3>2 DEF Job
    <3> QED
      BY <3>1, <3>3, AppendProperties DEF ServerTypeOK
  <2>2. CASE m.chan \notin DOMAIN chans
    BY <2>2 DEF ServerAccepts, ServerTypeOK
  <2> QED
    BY <2>1, <2>2
<1> QED
  BY <1>2, <1>5 DEF ServerAccepts, ServerTypeOK

LEMMA DiscardsTyped ==
  ASSUME ServerTypeOK, ServerDiscards PROVE ServerTypeOK'
<1> DEFINE m == Head(inPipe)
<1>1. Reads("Discard")
  BY DEF ServerDiscards
<1>2. m.chan \in Nat /\ inPipe' \in Seq(ToServer) /\ gen' = gen
  BY <1>1, HeadTyped
<1>3. \A i \in DOMAIN jobs : jobs[i] \in Job
  BY DEF ServerTypeOK
<1>4. \A i \in DOMAIN jobs : Cut(jobs[i]) \in Job
  BY <1>3 DEF Cut, Job
<1>5. jobs' \in Seq(Job)
  <2>1. DOMAIN jobs = 1..Len(jobs) /\ Len(jobs) \in Nat
    BY DEF ServerTypeOK
  <2>2. jobs' \in [1..Len(jobs) -> Job]
    BY <1>3, <1>4, <2>1 DEF ServerDiscards
  <2> QED
    BY <2>1, <2>2, SeqDef
<1>6. EndOfStream(m.chan, 0, 0, TRUE) \in FromServer
  BY <1>2 DEF ServerTypeOK, EndOfStream, Blank, FromServer
<1>7. outPipe' \in Seq(FromServer)
  BY <1>6, SaysTyped DEF ServerDiscards, ServerTypeOK
<1> QED
  BY <1>2, <1>5, <1>7 DEF ServerDiscards, ServerTypeOK

\* What the child changes in a text it is working on.
LEMMA JobUpdates ==
  ASSUME NEW j \in Job
  PROVE  /\ j.marks > 0 => [j EXCEPT !.marks = @ - 1] \in Job
         /\ j.left > 0 => [j EXCEPT !.left = @ - 1] \in Job
         /\ [j EXCEPT !.told = TRUE] \in Job
<1>1. j.marks \in Nat /\ j.left \in Nat
  BY DEF Job
<1>2. j.marks > 0 => j.marks - 1 \in Nat
  BY <1>1
<1>3. j.left > 0 => j.left - 1 \in Nat
  BY <1>1
<1>4. \A n \in Nat : [j EXCEPT !.marks = n] \in Job /\ [j EXCEPT !.left = n] \in Job
  BY DEF Job
<1>5. [j EXCEPT !.told = TRUE] \in Job
  BY DEF Job
<1> QED
  BY <1>2, <1>3, <1>4, <1>5

LEMMA WorksTyped ==
  ASSUME ServerTypeOK, ServerWorks PROVE ServerTypeOK'
<1> DEFINE j == Head(jobs)
<1>0. Works
  BY DEF ServerWorks, SaysBookMark, SaysSound, SaysRange, Finishes
<1>1. j \in Job /\ jobs \in Seq(Job) /\ jobs # <<>>
  BY <1>0 DEF ServerTypeOK, Works
<1>2. Tail(jobs) \in Seq(Job) /\ 1 \in DOMAIN jobs /\ jobs[1] = j
  BY <1>1
<1>3. \A k \in Job : [jobs EXCEPT ![1] = k] \in Seq(Job)
  BY <1>1, <1>2
<1>4. /\ j.chan \in Nat /\ j.utt \in Nat /\ j.left \in Nat /\ j.marks \in Nat
      /\ j.cut \in BOOLEAN
  BY <1>1 DEF Job
<1>5. /\ \A n \in Nat : BookMark(j, n) \in FromServer
      /\ Sound(j) \in FromServer /\ TextRange(j) \in FromServer
      /\ EndOfStream(j.chan, j.utt, j.left, j.cut) \in FromServer
  <2> HIDE DEF j
  <2> QED
    BY <1>1, <1>4, PacketsTyped DEF ServerTypeOK
<1>6. outPipe' \in Seq(FromServer)
  <2>1. CASE SaysBookMark
    <3>1. PICK n \in Nat : Says(BookMark(j, n))
      BY <2>1 DEF SaysBookMark
    <3> QED
      BY <1>5, <3>1, SaysTyped
  <2>2. CASE SaysSound \/ SaysRange \/ Finishes
    BY <1>5, <2>2, SaysTyped DEF SaysSound, SaysRange, Finishes, ServerTypeOK
  <2> QED
    BY <2>1, <2>2 DEF ServerWorks
<1>7. jobs' \in Seq(Job)
  <2>1. CASE SaysBookMark
    <3>1. [j EXCEPT !.marks = @ - 1] \in Job
      BY <1>1, <2>1, JobUpdates DEF SaysBookMark
    <3> QED
      BY <1>2, <1>3, <2>1, <3>1 DEF SaysBookMark
  <2>2. CASE SaysSound
    <3>1. [j EXCEPT !.left = @ - 1] \in Job
      BY <1>1, <2>2, JobUpdates DEF SaysSound
    <3> QED
      BY <1>2, <1>3, <2>2, <3>1 DEF SaysSound
  <2>3. CASE SaysRange
    <3>1. [j EXCEPT !.told = TRUE] \in Job
      BY <1>1, JobUpdates
    <3> QED
      BY <1>2, <1>3, <2>3, <3>1 DEF SaysRange
  <2>4. CASE Finishes
    BY <1>2, <2>4 DEF Finishes
  <2> QED
    BY <2>1, <2>2, <2>3, <2>4 DEF ServerWorks
<1> QED
  BY <1>0, <1>6, <1>7 DEF Works, ServerTypeOK

LEMMA EmptySeqs ==
  /\ <<>> \in Seq(ToServer) /\ <<>> \in Seq(FromServer)
  /\ <<>> \in Seq(ServerChannel) /\ <<>> \in Seq(Job)
  OBVIOUS

LEMMA StuckTyped ==
  ASSUME ServerTypeOK, ServerStuck \/ ServerHangs \/ ServerDies PROVE ServerTypeOK'
<1>1. CASE ServerStuck
  <2>1. inPipe' \in Seq(ToServer) /\ gen' = gen
    BY <1>1, HeadTyped DEF ServerStuck
  <2> QED
    BY <1>1, <2>1 DEF ServerStuck, ServerTypeOK
<1>2. CASE ServerHangs \/ ServerDies
  BY <1>2, EmptySeqs DEF ServerHangs, ServerDies, Kill, ServerTypeOK
<1> QED
  BY <1>1, <1>2

\* Every step of the child keeps the types of its state.
THEOREM ServerTyped ==
  ASSUME ServerTypeOK, Server PROVE ServerTypeOK'
  BY OpensTyped, AdjustsTyped, AcceptsTextTyped, DiscardsTyped, WorksTyped, StuckTyped
  DEF Server, ServerReads

\* So do the wrapper's.
LEMMA WrapperTyped ==
  ASSUME ServerTypeOK, NEW m \in ToServer, Spawn \/ Kill \/ Accepts(m) \/ UNCHANGED serverVars
  PROVE  ServerTypeOK'
<1>1. CASE Spawn
  BY <1>1, EmptySeqs DEF Spawn, ServerTypeOK
<1>2. CASE Kill
  BY <1>2, EmptySeqs DEF Kill, ServerTypeOK
<1>3. CASE Accepts(m)
  BY <1>3, AppendProperties DEF Accepts, ServerTypeOK
<1>4. CASE UNCHANGED serverVars
  BY <1>4 DEF serverVars, ServerTypeOK
<1> QED
  BY <1>1, <1>2, <1>3, <1>4

-----------------------------------------------------------------------------
FromChild(q, g) == \A i \in DOMAIN q : q[i].gen = g

\* The child signs what it writes, and it never rewrites what is in the pipe.
LEMMA ServerSigns ==
  ASSUME ServerTypeOK, Server, FromChild(outPipe, gen)
  PROVE  gen' = gen /\ FromChild(outPipe', gen)
<1>1. gen' = gen
  BY DEF Server, ServerReads, ServerWorks, ServerOpens, ServerStuck, ServerAdjusts,
         ServerAccepts, ServerDiscards, Reads, SaysBookMark, SaysSound, SaysRange,
         Finishes, Works, ServerHangs, ServerDies, Kill
<1>2. ASSUME NEW p, p.gen = gen, Says(p) PROVE FromChild(outPipe', gen)
  BY <1>2 DEF Says, FromChild, ServerTypeOK
<1>3. \/ UNCHANGED outPipe
      \/ \E n, c, b : Says(OpenNotify(n, c, b))
      \/ \E j : Says(TextRange(j)) \/ Says(Sound(j)) \/ \E n : Says(BookMark(j, n))
      \/ \E c, u, n, b : Says(EndOfStream(c, u, n, b))
  BY DEF Server, ServerReads, ServerWorks, ServerOpens, ServerStuck, ServerAdjusts,
         ServerAccepts, ServerDiscards, SaysBookMark, SaysSound, SaysRange, Finishes,
         ServerHangs, ServerDies, Kill
<1>4. /\ \A n, c, b : OpenNotify(n, c, b).gen = gen
      /\ \A j : TextRange(j).gen = gen /\ Sound(j).gen = gen
      /\ \A j, n : BookMark(j, n).gen = gen
      /\ \A c, u, n, b : EndOfStream(c, u, n, b).gen = gen
  BY DEF OpenNotify, TextRange, BookMark, Sound, EndOfStream, Blank
<1> QED
  BY <1>1, <1>2, <1>3, <1>4 DEF FromChild

-----------------------------------------------------------------------------
(* The engine.                                                              *)

\* Types.

LEMMA NextIdTyped ==
  ASSUME EngineTypeOK PROVE NextId \in 1..(IdSpace - 1)
<1>1. nextPacketId \in 1..(IdSpace - 1)
  BY DEF EngineTypeOK, ControlTypes
<1> QED
  BY <1>1, EngineAssumption DEF NextId

LEMMA PacketTyped ==
  ASSUME EngineTypeOK, NEW c \in Nat, NEW u \in Nat
  PROVE  /\ \A type \in {"Open", "Params", "Volume", "Text"} :
              Packet(type, c, req, u) \in ToServer
         /\ Packet("Discard", c, NoRequest, u) \in ToServer
<1>0. ControlTypes /\ CallTypes
  BY DEF EngineTypeOK
<1>1. nextPacketId \in Nat /\ req \in Requests
  BY <1>0 DEF ControlTypes, CallTypes
<1> QED
  BY <1>1 DEF Packet, ToServer

\* The channel of the current request is one, and its key a key.
LEMMA ChTyped ==
  ASSUME EngineTypeOK
  PROVE  /\ Key(req) \in Keys /\ req \in Requests
         /\ req.voice \in Voices /\ req.volume \in Volumes
         /\ ch \in CachedChannel /\ ch.id \in Nat
<1>1. req \in Requests
  BY DEF EngineTypeOK, CallTypes
<1>2. /\ req.lang \in Langs /\ req.rate \in Rates
      /\ req.voice \in Voices /\ req.volume \in Volumes
  BY <1>1, ServerAssumption
<1>3. Key(req) \in Keys
  BY <1>2 DEF Key, Keys
<1>4. ch \in CachedChannel
  BY <1>3 DEF EngineTypeOK, CacheTypes, ch
<1>5. ch.id \in Nat
  BY <1>4 DEF CachedChannel
<1> QED
  BY <1>1, <1>2, <1>3, <1>4, <1>5

LEMMA NoChannelTyped == NoChannel \in CachedChannel
  BY DEF NoChannel, CachedChannel

LEMMA EmptyTyped == <<>> \in Seq(FromServer) /\ <<>> \in Seq(Nat)
  OBVIOUS

\* A packet the wrapper writes keeps the child's state well typed.
LEMMA SentTyped ==
  ASSUME TypeOK, NEW m \in ToServer, Sent(m) \/ SendFails
  PROVE  ServerTypeOK' /\ nextPacketId' \in 1..(IdSpace - 1)
<1>1. NextId \in 1..(IdSpace - 1) /\ ServerTypeOK
  BY NextIdTyped DEF TypeOK
<1>2. Accepts(m) \/ UNCHANGED serverVars
  BY DEF Sent, SendFails
<1> QED
  BY <1>1, <1>2, WrapperTyped DEF Sent, SendFails

\* The steps of the threads write packets to the child's stdin, read its stdout, start
\* it and end it: nothing else of its state is theirs.
LEMMA ServerPart ==
  ASSUME TypeOK, [Next]_vars PROVE ServerTypeOK'
<1>0. ServerTypeOK /\ EngineTypeOK
  BY DEF TypeOK
<1>1. CASE ServerSteps
  BY <1>0, <1>1, ServerTyped DEF ServerSteps
<1>2. CASE ReaderReads
  BY <1>0, <1>2, HeadTailProperties DEF ReaderReads, ServerTypeOK
<1>3. CASE JoinReader
  BY <1>0, <1>3, EmptyTyped DEF JoinReader, ServerTypeOK
<1>4. CASE Launch \/ KillChild
  <2>1. Spawn \/ Kill \/ UNCHANGED serverVars
    BY <1>4 DEF Launch, LaunchStarts, KillChild
  <2>2. CASE Spawn
    BY <1>0, <2>2, EmptySeqs DEF Spawn, ServerTypeOK
  <2>3. CASE Kill
    BY <1>0, <2>3, EmptySeqs DEF Kill, ServerTypeOK
  <2>4. CASE UNCHANGED serverVars
    BY <1>0, <2>4 DEF serverVars, ServerTypeOK
  <2> QED
    BY <2>1, <2>2, <2>3, <2>4
<1>5. ASSUME NEW m \in ToServer, Sent(m) \/ SendFails \/ UNCHANGED serverVars
      PROVE  ServerTypeOK'
  BY <1>0, <1>5, SentTyped, WrapperTyped
<1>6. CASE CancelSends \/ SinkCancel
  <2>1. target \in Nat /\ activeChannel \in Nat
    BY <1>0 DEF EngineTypeOK, CacheTypes, CancelTypes
  <2>2. /\ Packet("Discard", target, NoRequest, 0) \in ToServer
        /\ Packet("Discard", activeChannel, NoRequest, 0) \in ToServer
    BY <1>0, <2>1, PacketTyped
  <2> QED
    BY <1>5, <1>6, <2>2 DEF CancelSends, SinkCancel
<1>7. CASE SendOpen \/ SendParams \/ SendVolume \/ SendText
  <2>0. utt \in Nat
    BY <1>0 DEF EngineTypeOK, CallTypes
  <2>1. ch.id \in Nat
    BY <1>0, ChTyped
  <2>2. /\ Packet("Open", 0, req, 0) \in ToServer
        /\ Packet("Params", ch.id, req, 0) \in ToServer
        /\ Packet("Volume", ch.id, req, 0) \in ToServer
        /\ Packet("Text", ch.id, req, utt) \in ToServer
    BY <1>0, <2>0, <2>1, PacketTyped
  <2> QED
    BY <1>5, <1>7, <2>2 DEF SendOpen, SendParams, SendVolume, SendText, SendIf
<1>8. CASE UNCHANGED serverVars
  BY <1>0, <1>8 DEF serverVars, ServerTypeOK
<1>9. [Next]_vars =>
        \/ ServerSteps \/ ReaderReads \/ JoinReader \/ Launch \/ KillChild
        \/ CancelSends \/ SinkCancel \/ SendOpen \/ SendParams \/ SendVolume \/ SendText
        \/ UNCHANGED serverVars
  BY DEF Next, SpeakStarts, Speak, Wait, Reader, Canceller, Over, vars,
         ReaderPushes, ReaderFails, ReaderSignals, CancelStarts, CancelReads,
         CancelSignals, EnsureRunning, CloseStdin, ClearState, Lookup, OpenChannelWaits,
         Arm, Activate, DropLeftovers, LoopTop, LoopTakes, LoopGivesUp, WaitBlocks,
         WaitWakes, WaitExpires
<1> QED
  BY <1>1, <1>2, <1>3, <1>4, <1>6, <1>7, <1>8, <1>9

\* What a step leaves alone stays well typed.
LEMMA KeptTyped ==
  ASSUME EngineTypeOK
  PROVE  /\ UNCHANGED <<handleVars, nextPacketId, cancelRequested, pc, outcome>>
              => ControlTypes'
         /\ UNCHANGED queueVars => QueueTypes'
         /\ UNCHANGED cacheVars => CacheTypes'
         /\ UNCHANGED readerVars => ReaderTypes'
         /\ UNCHANGED callVars => CallTypes'
         /\ UNCHANGED waitVars => WaitTypes'
         /\ UNCHANGED renderVars => RenderTypes'
         /\ UNCHANGED cancelVars => CancelTypes'
<1>1. /\ UNCHANGED <<handleVars, nextPacketId, cancelRequested, pc, outcome>>
           => ControlTypes'
      /\ UNCHANGED queueVars => QueueTypes'
      /\ UNCHANGED cacheVars => CacheTypes'
      /\ UNCHANGED readerVars => ReaderTypes'
  BY DEF EngineTypeOK, ControlTypes, QueueTypes, CacheTypes, ReaderTypes, handleVars,
     queueVars, cacheVars, readerVars
<1>2. /\ UNCHANGED callVars => CallTypes'
      /\ UNCHANGED waitVars => WaitTypes'
      /\ UNCHANGED renderVars => RenderTypes'
      /\ UNCHANGED cancelVars => CancelTypes'
  BY DEF EngineTypeOK, CallTypes, WaitTypes, RenderTypes, CancelTypes, callVars,
     waitVars, renderVars, cancelVars
<1> QED
  BY <1>1, <1>2

\* The reader moves packets, and the second thread numbers and channel ids.
LEMMA ReaderTyped ==
  ASSUME TypeOK, Reader PROVE EngineTypeOK'
<1>0. ServerTypeOK /\ EngineTypeOK
  BY DEF TypeOK
<1>1. UNCHANGED <<handleVars, nextPacketId, cacheVars, cancelRequested, pc, callVars,
                  waitVars, renderVars, outcome, cancelVars>>
  BY DEF Reader, ReaderReads, ReaderPushes, ReaderFails, ReaderSignals
<1>2. CASE ReaderReads
  <2>1. outPipe \in Seq(FromServer) /\ outPipe # <<>>
    BY <1>0, <1>2 DEF ReaderReads, ServerTypeOK
  <2>2. Head(outPipe) \in FromServer
    BY <2>1, HeadTailProperties
  <2>3. held' \in Seq(FromServer) /\ UNCHANGED queueVars
    BY <1>2, <2>2 DEF ReaderReads
  <2>4. ReaderTypes'
    BY <1>0, <1>2, <2>3 DEF ReaderReads, EngineTypeOK, ReaderTypes
  <2> QED
    BY <1>0, <1>1, <2>3, <2>4, KeptTyped DEF EngineTypeOK
<1>3. CASE ReaderPushes
  <2>1. queue' \in Seq(FromServer) /\ held' \in Seq(FromServer)
    BY <1>0, <1>3, EmptyTyped, ConcatProperties
       DEF ReaderPushes, EngineTypeOK, QueueTypes, ReaderTypes
  <2>2. QueueTypes' /\ ReaderTypes'
    BY <1>0, <1>3, <2>1 DEF ReaderPushes, EngineTypeOK, QueueTypes, ReaderTypes
  <2> QED
    BY <1>0, <1>1, <2>2, KeptTyped DEF EngineTypeOK
<1>4. CASE ReaderFails \/ ReaderSignals
  <2>1. QueueTypes' /\ ReaderTypes'
    BY <1>0, <1>4 DEF ReaderFails, ReaderSignals, EngineTypeOK, QueueTypes, ReaderTypes
  <2> QED
    BY <1>0, <1>1, <2>1, KeptTyped DEF EngineTypeOK
<1> QED
  BY <1>2, <1>3, <1>4 DEF Reader

LEMMA CancellerTyped ==
  ASSUME TypeOK, Canceller PROVE EngineTypeOK'
<1>0. ServerTypeOK /\ EngineTypeOK
  BY DEF TypeOK
<1>1. UNCHANGED <<handleVars, queue, readerFailed, cacheVars, readerVars, pc, callVars,
                  waitVars, renderVars, outcome>>
  BY DEF Canceller, CancelStarts, CancelReads, CancelSends, CancelSignals, queueVars
<1>2. QueueTypes'
  BY <1>0, <1>1 DEF Canceller, CancelStarts, CancelReads, CancelSends, CancelSignals,
     EngineTypeOK, QueueTypes, queueVars
<1>3. CancelTypes'
  BY <1>0 DEF Canceller, CancelStarts, CancelReads, CancelSends, CancelSignals,
     EngineTypeOK, CancelTypes, CacheTypes
<1>4. nextPacketId' \in 1..(IdSpace - 1)
  <2>1. CASE CancelSends
    <3>1. target \in Nat
      BY <1>0 DEF EngineTypeOK, CancelTypes
    <3>2. Packet("Discard", target, NoRequest, 0) \in ToServer
      BY <1>0, <3>1, PacketTyped
    <3> QED
      BY <2>1, <3>2, SentTyped DEF CancelSends
  <2>2. CASE CancelStarts \/ CancelReads \/ CancelSignals
    BY <1>0, <2>2 DEF CancelStarts, CancelReads, CancelSignals, EngineTypeOK, ControlTypes
  <2> QED
    BY <2>1, <2>2 DEF Canceller
<1>5. ControlTypes'
  BY <1>0, <1>1, <1>4 DEF Canceller, CancelStarts, CancelReads, CancelSends, CancelSignals,
     EngineTypeOK, ControlTypes, handleVars
<1> QED
  BY <1>0, <1>1, <1>2, <1>3, <1>5, KeptTyped DEF EngineTypeOK

LEMMA WaitTyped ==
  ASSUME TypeOK, Wait PROVE EngineTypeOK'
<1>0. EngineTypeOK
  BY DEF TypeOK
<1>1. UNCHANGED <<handleVars, nextPacketId, cacheVars, cancelRequested, readerVars, pc,
                  callVars, renderVars, outcome, cancelVars>>
  BY DEF Wait, WaitBlocks, WaitWakes, WaitExpires
<1>2. QueueTypes' /\ WaitTypes'
  BY <1>0 DEF Wait, WaitBlocks, WaitWakes, WaitExpires, EngineTypeOK, QueueTypes,
     WaitTypes, queueVars
<1> QED
  BY <1>0, <1>1, <1>2, KeptTyped DEF EngineTypeOK

\* The call is set up, the child restarted.
LEMMA StartTyped ==
  ASSUME TypeOK,
         \/ \E r \in Requests : SpeakStarts(r)
         \/ EnsureRunning \/ CloseStdin \/ KillChild \/ JoinReader \/ ClearState \/ Launch
         \/ Lookup
  PROVE  EngineTypeOK'
<1>0. EngineTypeOK
  BY DEF TypeOK
<1>1. CASE \E r \in Requests : SpeakStarts(r)
  <2>1. ControlTypes'
    BY <1>0, <1>1 DEF SpeakStarts, EngineTypeOK, ControlTypes, Places, Closing, handleVars
  <2>2. CallTypes'
    BY <1>0, <1>1 DEF SpeakStarts, EngineTypeOK, CallTypes
  <2>3. RenderTypes'
    <3>1. /\ consumed' \in BOOLEAN /\ discarding' \in BOOLEAN /\ sinkAborted' \in BOOLEAN
          /\ pending' = <<>> /\ emitted' = 0 /\ lastMark' = 0 /\ ending' \in BOOLEAN
      BY <1>1 DEF SpeakStarts
    <3>2. pending' \in Seq(Nat)
      BY <3>1, EmptyTyped
    <3> QED
      BY <3>1, <3>2 DEF RenderTypes
  <2>4. UNCHANGED <<queueVars, cacheVars, readerVars, waitVars, cancelVars>>
    BY <1>1 DEF SpeakStarts
  <2> QED
    BY <1>0, <2>1, <2>2, <2>3, <2>4, KeptTyped DEF EngineTypeOK
<1>2. CASE EnsureRunning \/ Lookup
  <2>1. ControlTypes'
    BY <1>0, <1>2 DEF EnsureRunning, Lookup, EngineTypeOK, ControlTypes, Places, Closing,
       Sending, handleVars
  <2>2. CallTypes'
    BY <1>0, <1>2 DEF EnsureRunning, Lookup, EngineTypeOK, CallTypes
  <2>3. UNCHANGED <<queueVars, cacheVars, readerVars, waitVars, renderVars, cancelVars>>
    BY <1>2 DEF EnsureRunning, Lookup
  <2> QED
    BY <1>0, <2>1, <2>2, <2>3, KeptTyped DEF EngineTypeOK
<1>3. CASE CloseStdin \/ KillChild \/ JoinReader
  <2>1. ControlTypes'
    BY <1>0, <1>3 DEF CloseStdin, KillChild, JoinReader, EngineTypeOK, ControlTypes,
       Places, Closing, handleVars
  <2>2. ReaderTypes'
    BY <1>0, <1>3 DEF CloseStdin, KillChild, JoinReader, EngineTypeOK, ReaderTypes,
       readerVars
  <2>3. UNCHANGED <<queueVars, cacheVars, callVars, waitVars, renderVars, cancelVars>>
    BY <1>3 DEF CloseStdin, KillChild, JoinReader
  <2> QED
    BY <1>0, <2>1, <2>2, <2>3, KeptTyped DEF EngineTypeOK
<1>4. CASE ClearState
  <2>1. ControlTypes'
    BY <1>0, <1>4 DEF ClearState, Return, EngineTypeOK, ControlTypes, Places, handleVars
  <2>2. QueueTypes'
    BY <1>0, <1>4, EmptyTyped DEF ClearState, EngineTypeOK, QueueTypes
  <2>3. CacheTypes'
    BY <1>4, NoChannelTyped DEF ClearState, CacheTypes
  <2>4. UNCHANGED <<readerVars, callVars, waitVars, renderVars, cancelVars>>
    BY <1>4 DEF ClearState
  <2> QED
    BY <1>0, <2>1, <2>2, <2>3, <2>4, KeptTyped DEF EngineTypeOK
<1>5. CASE Launch
  <2>0. FirstPacketId \in 1..(IdSpace - 1)
    BY EngineAssumption DEF FirstPacketId
  <2>1. ControlTypes'
    <3>1. process' \in BOOLEAN /\ stdinOpen' \in BOOLEAN /\ cancelRequested' \in BOOLEAN
      BY <1>0, <1>5 DEF Launch, LaunchStarts, EngineTypeOK, ControlTypes, handleVars
    <3>2. pc' \in {"sendOpen", "lookup", "closeStdin", "idle"}
      BY <1>5 DEF Launch, Return
    <3>3. outcome' \in {"none", "done", "aborted", "failed"}
      BY <1>0, <1>5 DEF Launch, Return, EngineTypeOK, ControlTypes
    <3> QED
      BY <1>5, <2>0, <3>1, <3>2, <3>3 DEF Launch, ControlTypes, Places, Closing, Sending
  <2>2. QueueTypes' /\ ReaderTypes' /\ CallTypes'
    BY <1>0, <1>5 DEF Launch, EngineTypeOK, QueueTypes, ReaderTypes, CallTypes
  <2>3. UNCHANGED <<cacheVars, waitVars, renderVars, cancelVars>>
    BY <1>5 DEF Launch
  <2> QED
    BY <1>0, <2>1, <2>2, <2>3, KeptTyped DEF EngineTypeOK
<1> QED
  BY <1>1, <1>2, <1>3, <1>4, <1>5

\* The channel is chosen and the packets of the call are sent.
LEMMA SendingTyped ==
  ASSUME TypeOK,
         SendOpen \/ Arm \/ Activate \/ DropLeftovers \/ SendParams \/ SendVolume \/ SendText
  PROVE  EngineTypeOK'
<1>0. EngineTypeOK
  BY DEF TypeOK
<1>1. UNCHANGED <<readerVars, waitVars, renderVars, cancelVars>>
  BY DEF SendOpen, Arm, Activate, DropLeftovers, SendParams, SendVolume, SendText, SendIf
<1>2. ASSUME NEW m \in ToServer, Sent(m) \/ SendFails \/ UNCHANGED nextPacketId
      PROVE  nextPacketId' \in 1..(IdSpace - 1)
  BY <1>0, <1>2, SentTyped DEF EngineTypeOK, ControlTypes
<1>3. /\ ch \in CachedChannel /\ ch.id \in Nat /\ req.voice \in Voices
      /\ req.volume \in Volumes /\ utt \in Nat
  BY <1>0, ChTyped DEF EngineTypeOK, CallTypes
<1>4. /\ Packet("Open", 0, req, 0) \in ToServer
      /\ Packet("Params", ch.id, req, 0) \in ToServer
      /\ Packet("Volume", ch.id, req, 0) \in ToServer
      /\ Packet("Text", ch.id, req, utt) \in ToServer
  BY <1>0, <1>3, PacketTyped
<1>5. CASE Arm \/ Activate \/ DropLeftovers
  <2>1. ControlTypes'
    BY <1>0, <1>5 DEF Arm, Activate, DropLeftovers, EngineTypeOK, ControlTypes, Places,
       Sending, handleVars
  <2>2. QueueTypes'
    BY <1>0, <1>5, EmptyTyped DEF Arm, Activate, DropLeftovers, EngineTypeOK, QueueTypes,
       queueVars
  <2>3. CacheTypes'
    BY <1>0, <1>3, <1>5 DEF Arm, Activate, DropLeftovers, EngineTypeOK, CacheTypes, cacheVars
  <2>4. UNCHANGED callVars
    BY <1>5 DEF Arm, Activate, DropLeftovers
  <2> QED
    BY <1>0, <1>1, <2>1, <2>2, <2>3, <2>4, KeptTyped DEF EngineTypeOK
<1>6. CASE SendOpen \/ SendText
  <2>1. nextPacketId' \in 1..(IdSpace - 1)
    BY <1>2, <1>4, <1>6 DEF SendOpen, SendText
  <2>2. ControlTypes'
    BY <1>0, <1>6, <2>1 DEF SendOpen, SendText, Return, EngineTypeOK, ControlTypes, Places,
       Waiting, handleVars
  <2>3. CallTypes'
    BY <1>0, <1>6 DEF SendOpen, SendText, EngineTypeOK, CallTypes, ControlTypes, callVars
  <2>4. UNCHANGED <<queueVars, cacheVars>>
    BY <1>6 DEF SendOpen, SendText
  <2> QED
    BY <1>0, <1>1, <2>2, <2>3, <2>4, KeptTyped DEF EngineTypeOK
<1>7. CASE SendParams \/ SendVolume
  <2>1. nextPacketId' \in 1..(IdSpace - 1)
    BY <1>2, <1>4, <1>7 DEF SendParams, SendVolume, SendIf
  <2>2. ControlTypes'
    BY <1>0, <1>7, <2>1 DEF SendParams, SendVolume, SendIf, Return, EngineTypeOK,
       ControlTypes, Places, Sending, handleVars
  <2>3. /\ [ch EXCEPT !.voice = req.voice] \in CachedChannel
        /\ [ch EXCEPT !.volume = req.volume] \in CachedChannel
    BY <1>3 DEF CachedChannel
  <2>4. CacheTypes'
    BY <1>0, <1>7, <2>3 DEF SendParams, SendVolume, SendIf, EngineTypeOK, CacheTypes
  <2>5. UNCHANGED <<queueVars, callVars>>
    BY <1>7 DEF SendParams, SendVolume, SendIf
  <2> QED
    BY <1>0, <1>1, <2>2, <2>4, <2>5, KeptTyped DEF EngineTypeOK
<1> QED
  BY <1>5, <1>6, <1>7

\* A packet leaves the queue, and is one the child wrote.
LEMMA PopTyped ==
  ASSUME EngineTypeOK
  PROVE  /\ Pops => /\ QueueTypes' /\ WaitTypes'
                    /\ Head(queue) \in FromServer
                    /\ Head(queue).chan \in Nat /\ Head(queue).size \in Nat
         /\ GivesUp => QueueTypes' /\ WaitTypes'
<1>1. CASE Pops
  <2>1. queue \in Seq(FromServer) /\ queue # <<>>
    BY <1>1 DEF Pops, EngineTypeOK, QueueTypes
  <2>2. Head(queue) \in FromServer /\ Tail(queue) \in Seq(FromServer)
    BY <2>1, HeadTailProperties
  <2>3. QueueTypes' /\ WaitTypes'
    BY <1>1, <2>2 DEF Pops, EngineTypeOK, QueueTypes, WaitTypes
  <2>4. Head(queue).chan \in Nat /\ Head(queue).size \in Nat
    BY <2>2 DEF FromServer
  <2> QED
    BY <2>2, <2>3, <2>4 DEF Pops, GivesUp
<1>2. CASE GivesUp
  BY <1>2 DEF GivesUp, Pops, EngineTypeOK, QueueTypes, WaitTypes, queueVars
<1> QED
  BY <1>1, <1>2

LEMMA OpenWaitTyped ==
  ASSUME TypeOK, OpenChannelWaits PROVE EngineTypeOK'
<1>0. EngineTypeOK
  BY DEF TypeOK
<1>1. QueueTypes' /\ WaitTypes'
  BY <1>0, PopTyped DEF OpenChannelWaits
<1>2. ControlTypes'
  BY <1>0 DEF OpenChannelWaits, Return, EngineTypeOK, ControlTypes, Places, Sending,
     handleVars
<1>3. CacheTypes'
  <2>1. ASSUME NEW id \in Nat PROVE [NoChannel EXCEPT !.id = id] \in CachedChannel
    BY DEF NoChannel, CachedChannel
  <2>2. Pops => Head(queue).chan \in Nat
    BY <1>0, PopTyped
  <2> QED
    BY <1>0, <2>1, <2>2 DEF OpenChannelWaits, EngineTypeOK, CacheTypes
<1>4. UNCHANGED <<readerVars, callVars, renderVars, cancelVars>>
  BY DEF OpenChannelWaits
<1> QED
  BY <1>0, <1>1, <1>2, <1>3, <1>4, KeptTyped DEF EngineTypeOK

\* The packet loop: what the sink is given, and how the call goes on.
LEMMA LoopTyped ==
  ASSUME TypeOK, LoopTop \/ LoopTakes \/ LoopGivesUp PROVE EngineTypeOK'
<1>0. EngineTypeOK /\ ControlTypes /\ CacheTypes /\ RenderTypes
  BY DEF TypeOK, EngineTypeOK
<1>1. CASE LoopTop
  <2>1. ControlTypes' /\ RenderTypes'
    BY <1>0, <1>1 DEF LoopTop, ControlTypes, RenderTypes, Places, Waiting, handleVars
  <2>2. UNCHANGED <<queueVars, cacheVars, readerVars, callVars, waitVars, cancelVars>>
    BY <1>1 DEF LoopTop
  <2> QED
    BY <1>0, <2>1, <2>2, KeptTyped DEF EngineTypeOK
<1>2. CASE LoopGivesUp
  <2>1. QueueTypes' /\ WaitTypes'
    BY <1>0, <1>2, PopTyped DEF LoopGivesUp
  <2>2. ControlTypes' /\ CacheTypes' /\ RenderTypes'
    BY <1>0, <1>2 DEF LoopGivesUp, StreamEnds, Return, Ended, ControlTypes, CacheTypes,
       RenderTypes, Places, Closing, handleVars
  <2>3. CallTypes'
    BY <1>0, <1>2 DEF LoopGivesUp, StreamEnds, EngineTypeOK, CallTypes
  <2>4. UNCHANGED <<readerVars, cancelVars>>
    BY <1>2 DEF LoopGivesUp
  <2> QED
    BY <1>0, <2>1, <2>2, <2>3, <2>4, KeptTyped DEF EngineTypeOK
<1>3. CASE LoopTakes
  <2>0. PICK p : p = Head(queue)
    OBVIOUS
  <2>1. QueueTypes' /\ WaitTypes' /\ p.size \in Nat
    BY <1>0, <1>3, <2>0, PopTyped DEF LoopTakes
  <2>2. Audio(p) \/ OtherPacket(p)
    BY <1>3, <2>0 DEF LoopTakes
  <2>3. UNCHANGED <<readerVars, callVars, cancelVars, handleVars, nextPacketId,
                    cancelRequested, channels>>
    BY <1>3 DEF LoopTakes
  <2>4. CASE OtherPacket(p)
    <3>1. ControlTypes' /\ CacheTypes'
      BY <1>0, <2>3, <2>4 DEF OtherPacket, ControlTypes, CacheTypes, Places, handleVars
    <3>2. Append(pending, p.size) \in Seq(Nat) /\ pending \in Seq(Nat)
      BY <1>0, <2>1, AppendProperties DEF RenderTypes
    <3>3. pending' \in Seq(Nat)
      BY <2>4, <3>2 DEF OtherPacket
    <3>4. RenderTypes'
      BY <1>0, <2>4, <3>3 DEF OtherPacket, RenderTypes
    <3> QED
      BY <1>0, <2>1, <2>3, <3>1, <3>4, KeptTyped DEF EngineTypeOK
  <2>5. CASE Audio(p)
    <3>1. /\ pc' \in {"idle", "loop", "sinkCancel"}
          /\ activeChannel' \in {0, activeChannel}
          /\ discarding' = discarding
      BY <2>5 DEF Audio, AudioTo, StreamEnds, Return
    <3>2. outcome' \in {outcome, "aborted", "done"}
      BY <2>5 DEF Audio, AudioTo, StreamEnds, Return, Ended
    <3>3. ControlTypes' /\ CacheTypes'
      BY <1>0, <2>3, <3>1, <3>2 DEF ControlTypes, CacheTypes, Places, Sending, handleVars
    <3>4. emitted' \in Nat /\ sinkAborted' \in BOOLEAN /\ consumed' \in BOOLEAN
      <4>1. emitted' \in {emitted, emitted + p.size} /\ consumed' = consumed
        BY <2>5 DEF Audio, AudioTo
      <4>2. sinkAborted' \in {sinkAborted, TRUE, FALSE}
        BY <2>5 DEF Audio, AudioTo
      <4>3. emitted' \in Nat
        BY <1>0, <2>1, <4>1 DEF RenderTypes
      <4>4. sinkAborted' \in BOOLEAN /\ consumed' \in BOOLEAN
        BY <1>0, <4>1, <4>2 DEF RenderTypes
      <4> QED
        BY <4>3, <4>4
    <3>5. lastMark' \in Nat
      <4>1. ASSUME pending # <<>> PROVE Marks[Len(Marks)] \in Nat
        <5>1. DOMAIN Marks = 1..Len(pending) /\ Len(Marks) = Len(pending)
          BY <1>0, LenProperties DEF Marks, RenderTypes
        <5> QED
          BY <1>0, <4>1, <5>1 DEF Marks, RenderTypes
      <4>2. pending = <<>> => Marks = <<>>
        BY DEF Marks
      <4>3. MarkOf(Marks) \in Nat
        BY <1>0, <4>1, <4>2 DEF MarkOf, RenderTypes
      <4> QED
        BY <1>0, <2>5, <4>3 DEF Audio, AudioTo, RenderTypes
    <3>6. pending' = <<>> /\ discarding' \in BOOLEAN
      BY <1>0, <2>5, <3>1 DEF Audio, RenderTypes
    <3>7. ending' \in BOOLEAN
      <4>1. p.end \in BOOLEAN
        BY <1>0, <1>3, <2>0, PopTyped DEF LoopTakes, FromServer
      <4> QED
        BY <1>0, <2>5, <4>1 DEF Audio, AudioTo, RenderTypes
    <3>8. RenderTypes'
      BY <3>4, <3>5, <3>6, <3>7, EmptyTyped DEF RenderTypes
    <3> QED
      BY <1>0, <2>1, <2>3, <3>3, <3>8, KeptTyped DEF EngineTypeOK
  <2> QED
    BY <2>2, <2>4, <2>5
<1> QED
  BY <1>1, <1>2, <1>3

LEMMA SinkCancelTyped ==
  ASSUME TypeOK, SinkCancel PROVE EngineTypeOK'
<1>0. EngineTypeOK /\ ControlTypes /\ CacheTypes /\ RenderTypes
  BY DEF TypeOK, EngineTypeOK
<1>1. nextPacketId' \in 1..(IdSpace - 1)
  <2>1. Packet("Discard", activeChannel, NoRequest, 0) \in ToServer
    BY <1>0, PacketTyped DEF CacheTypes
  <2>2. \/ Sent(Packet("Discard", activeChannel, NoRequest, 0)) \/ SendFails
        \/ UNCHANGED nextPacketId
    BY DEF SinkCancel
  <2> QED
    BY <1>0, <2>1, <2>2, SentTyped DEF ControlTypes
<1>2. ControlTypes' /\ CacheTypes'
  BY <1>0, <1>1 DEF SinkCancel, StreamEnds, Return, Ended, ControlTypes, CacheTypes, Places,
     handleVars
<1>3. QueueTypes' /\ RenderTypes'
  BY <1>0 DEF SinkCancel, EngineTypeOK, QueueTypes, RenderTypes
<1>4. UNCHANGED <<readerVars, callVars, waitVars, cancelVars>>
  BY DEF SinkCancel
<1> QED
  BY <1>0, <1>2, <1>3, <1>4, KeptTyped DEF EngineTypeOK

LEMMA InitTyped ==
  ASSUME Init PROVE TypeOK
<1>1. ServerTypeOK
  BY EmptySeqs DEF Init, ServerInit, ServerTypeOK
<1>2. ControlTypes /\ CallTypes /\ CancelTypes /\ WaitTypes
  <2>1. 1 \in 1..(IdSpace - 1)
    BY EngineAssumption
  <2>2. ControlTypes
    BY <2>1 DEF Init, ControlTypes, Places
  <2>3. CallTypes /\ CancelTypes /\ WaitTypes
    BY DEF Init, CallTypes, CancelTypes, WaitTypes
  <2> QED
    BY <2>2, <2>3
<1>3. QueueTypes /\ ReaderTypes /\ RenderTypes
  BY EmptyTyped DEF Init, QueueTypes, ReaderTypes, RenderTypes
<1>4. CacheTypes
  BY NoChannelTyped DEF Init, CacheTypes
<1> QED
  BY <1>1, <1>2, <1>3, <1>4 DEF TypeOK, EngineTypeOK

LEMMA StepTyped ==
  ASSUME TypeOK, [Next]_vars PROVE TypeOK'
<1>1. ServerTypeOK'
  BY ServerPart
<1>2. EngineTypeOK'
  <2>1. CASE ServerSteps \/ UNCHANGED vars
    <3>1. UNCHANGED <<handleVars, queueVars, nextPacketId, cacheVars, cancelRequested,
                      readerVars, pc, callVars, waitVars, renderVars, outcome, cancelVars>>
      BY <2>1 DEF ServerSteps, vars
    <3> QED
      BY <3>1, KeptTyped DEF TypeOK, EngineTypeOK
  <2>2. CASE Reader \/ Canceller \/ Wait
    BY <2>2, ReaderTyped, CancellerTyped, WaitTyped
  <2>3. CASE \E r \in Requests : SpeakStarts(r)
    BY <2>3, StartTyped
  <2>4. CASE Speak
    BY <2>4, StartTyped, SendingTyped, OpenWaitTyped, LoopTyped, SinkCancelTyped DEF Speak
  <2> QED
    BY <2>1, <2>2, <2>3, <2>4 DEF Next, Over
<1> QED
  BY <1>1, <1>2 DEF TypeOK

\* Every variable keeps its type, whatever the child does and however the threads
\* interleave: in particular a packet id is never 0 and never as large as its width.
THEOREM TypeCorrect == Safety => []TypeOK
<1>1. Init => TypeOK
  BY InitTyped
<1>2. TypeOK /\ [Next]_vars => TypeOK'
  BY StepTyped
<1> QED
  BY <1>1, <1>2, PTL DEF Safety

-----------------------------------------------------------------------------
\* Everything in flight belongs to the running child.

ThreadInv == OnlyThisChild /\ ReaderJoined /\ (blocked => pc \in Waiting)

\* The ghost of a packet survives being moved.
LEMMA FromMoved ==
  ASSUME NEW q \in Seq(FromServer), FromThisChild(q)
  PROVE  /\ q # <<>> => FromThisChild(Tail(q)) /\ FromThisChild(<<Head(q)>>)
         /\ \A r \in Seq(FromServer) : FromThisChild(r) => FromThisChild(q \o r)
         /\ FromThisChild(<<>>)
<1>1. ASSUME q # <<>> PROVE FromThisChild(Tail(q)) /\ FromThisChild(<<Head(q)>>)
  <2>1. /\ Len(Tail(q)) = Len(q) - 1 /\ Tail(q) \in Seq(FromServer)
        /\ \A i \in 1..Len(Tail(q)) : Tail(q)[i] = q[i + 1]
        /\ Len(q) \in Nat /\ Len(q) > 0 /\ Head(q) = q[1]
    BY <1>1, HeadTailProperties, LenProperties, EmptySeq
  <2>2. FromThisChild(Tail(q))
    BY <2>1, LenProperties DEF FromThisChild
  <2>3. FromThisChild(<<Head(q)>>)
    BY <2>1, LenProperties DEF FromThisChild
  <2> QED
    BY <2>2, <2>3
<1>2. ASSUME NEW r \in Seq(FromServer), FromThisChild(r) PROVE FromThisChild(q \o r)
  BY <1>2, ConcatProperties, LenProperties DEF FromThisChild
<1>3. FromThisChild(<<>>)
  BY DEF FromThisChild
<1> QED
  BY <1>1, <1>2, <1>3

\* Steps that touch no packet, no pipe and no reader.
Elsewhere ==
  \/ \E r \in Requests : SpeakStarts(r)
  \/ EnsureRunning \/ CloseStdin \/ KillChild \/ Lookup \/ SendOpen
  \/ Arm \/ Activate \/ SendParams \/ SendVolume \/ SendText \/ LoopTop \/ SinkCancel
  \/ Wait \/ Canceller \/ UNCHANGED vars

LEMMA ElsewhereQuiet ==
  ASSUME Elsewhere
  PROVE  UNCHANGED <<gen, outPipe, held, queue, reader, readerFailed>>
<1>1. ASSUME NEW m, Sent(m) \/ SendFails \/ UNCHANGED serverVars
      PROVE  UNCHANGED <<gen, outPipe>>
  BY <1>1 DEF Sent, SendFails, Accepts, serverVars
<1>2. CASE SendOpen \/ SendParams \/ SendVolume \/ SendText \/ SinkCancel
  BY <1>1, <1>2 DEF SendOpen, SendParams, SendVolume, SendText, SendIf, SinkCancel,
     queueVars, readerVars
<1>3. CASE Canceller
  BY <1>1, <1>3 DEF Canceller, CancelStarts, CancelReads, CancelSends, CancelSignals,
     queueVars, readerVars
<1>4. CASE Wait \/ LoopTop \/ Arm \/ Activate \/ Lookup \/ UNCHANGED vars
  BY <1>4 DEF Wait, WaitBlocks, WaitWakes, WaitExpires, LoopTop, Arm, Activate, Lookup,
     vars, serverVars, queueVars, readerVars
<1>5. CASE (\E r \in Requests : SpeakStarts(r)) \/ EnsureRunning \/ CloseStdin \/ KillChild
  BY <1>5 DEF SpeakStarts, EnsureRunning, CloseStdin, KillChild, Kill, serverVars,
     queueVars, readerVars
<1> QED
  BY <1>2, <1>3, <1>4, <1>5 DEF Elsewhere

\* Where such a step leads: it enters the part of the call that relies on the reader
\* only past IsRunning, and never the end of closeHandles or launch.
LEMMA ElsewhereGoes ==
  ASSUME Elsewhere, ThreadInv
  PROVE  /\ pc' \in {"clear", "launch"} => pc' = pc
         /\ \/ pc' \in Closing \cup {"idle", "ensure", "launch"}
            \/ pc \notin Closing \cup {"idle", "ensure", "launch"}
            \/ ~readerFailed
         /\ blocked' => pc' \in Waiting
<1>1. CASE (\E r \in Requests : SpeakStarts(r)) \/ EnsureRunning \/ CloseStdin \/ KillChild
  BY <1>1 DEF SpeakStarts, EnsureRunning, CloseStdin, KillChild, IsRunning, ThreadInv,
     Closing, Waiting, waitVars
<1>2. CASE Lookup \/ SendOpen \/ Arm \/ Activate \/ SendText \/ LoopTop
  BY <1>2 DEF Lookup, SendOpen, Arm, Activate, SendText, LoopTop, Return, ThreadInv,
     Closing, Waiting, waitVars
<1>3. CASE SendParams \/ SendVolume \/ SinkCancel
  BY <1>3 DEF SendParams, SendVolume, SendIf, SinkCancel, StreamEnds, Return, ThreadInv,
     Closing, Waiting, waitVars
<1>4. CASE Wait
  BY <1>4 DEF Wait, WaitBlocks, WaitWakes, WaitExpires, ThreadInv, Closing, Waiting
<1>5. CASE Canceller \/ UNCHANGED vars
  <2>1. UNCHANGED <<pc, blocked>>
    BY <1>5 DEF Canceller, CancelStarts, CancelReads, CancelSends, CancelSignals, vars,
       waitVars
  <2> QED
    BY <2>1 DEF ThreadInv, Closing
<1> QED
  BY <1>1, <1>2, <1>3, <1>4, <1>5 DEF Elsewhere

\* The caller takes packets off the queue, or drops them.
LEMMA CallerTakes ==
  ASSUME TypeOK, ThreadInv,
         OpenChannelWaits \/ LoopTakes \/ LoopGivesUp \/ ClearState \/ DropLeftovers
  PROVE  ThreadInv'
<1>0. queue \in Seq(FromServer)
  BY DEF TypeOK, EngineTypeOK, QueueTypes
<1>1. /\ UNCHANGED <<gen, outPipe, held, reader, readerFailed>>
      /\ queue' = queue \/ queue' = <<>> \/ (queue # <<>> /\ queue' = Tail(queue))
  BY DEF OpenChannelWaits, LoopTakes, LoopGivesUp, ClearState, DropLeftovers, Pops, GivesUp,
     serverVars, queueVars, readerVars
<1>2. FromThisChild(outPipe)' /\ FromThisChild(held)' /\ FromThisChild(queue)'
  <2>1. FromThisChild(queue')
    BY <1>0, <1>1, FromMoved DEF ThreadInv, OnlyThisChild
  <2> QED
    BY <1>1, <2>1 DEF ThreadInv, OnlyThisChild, FromThisChild
<1>3. /\ pc' \in {"clear", "launch"} => pc = "clear" /\ pc' = "launch" /\ queue' = <<>>
      /\ \/ pc' \in Closing \cup {"idle", "ensure", "launch"}
         \/ pc \notin Closing \cup {"idle", "ensure", "launch"}
      /\ blocked' => pc' \in Waiting
  <2>1. CASE OpenChannelWaits
    BY <2>1 DEF OpenChannelWaits, Pops, GivesUp, Return, ThreadInv, Closing, Waiting
  <2>2. CASE LoopTakes
    <3>1. pc' \in {"idle", "loop", "sinkCancel"} /\ ~blocked' /\ pc = "wait"
      BY <2>2 DEF LoopTakes, Pops, Audio, AudioTo, OtherPacket, StreamEnds, Return
    <3> QED
      BY <3>1 DEF Closing
  <2>3. CASE LoopGivesUp \/ ClearState \/ DropLeftovers
    BY <2>3 DEF LoopGivesUp, GivesUp, ClearState, DropLeftovers, StreamEnds, Return,
       ThreadInv, Closing, Waiting, waitVars
  <2> QED
    BY <2>1, <2>2, <2>3
<1>4. ReaderJoined'
  BY <1>1, <1>3 DEF ThreadInv, ReaderJoined
<1> QED
  BY <1>1, <1>2, <1>3, <1>4 DEF ThreadInv, OnlyThisChild

LEMMA ReaderMoves ==
  ASSUME TypeOK, ThreadInv, Reader PROVE ThreadInv'
<1>0. /\ queue \in Seq(FromServer) /\ held \in Seq(FromServer)
      /\ outPipe \in Seq(FromServer)
  BY DEF TypeOK, ServerTypeOK, EngineTypeOK, QueueTypes, ReaderTypes
<1>1. UNCHANGED <<gen, pc, blocked>>
  BY DEF Reader, ReaderReads, ReaderPushes, ReaderFails, ReaderSignals, serverVars, waitVars
<1>2. FromThisChild(outPipe') /\ FromThisChild(held') /\ FromThisChild(queue')
  <2>1. CASE ReaderReads
    BY <1>0, <2>1, FromMoved DEF ReaderReads, ThreadInv, OnlyThisChild, queueVars
  <2>2. CASE ReaderPushes
    BY <1>0, <2>2, FromMoved DEF ReaderPushes, ThreadInv, OnlyThisChild, serverVars
  <2>3. CASE ReaderFails \/ ReaderSignals
    BY <2>3 DEF ReaderFails, ReaderSignals, ThreadInv, OnlyThisChild, serverVars
  <2> QED
    BY <2>1, <2>2, <2>3 DEF Reader
<1>3. /\ ReaderJoined'
      /\ pc \notin Closing \cup {"idle", "ensure", "launch"} =>
           (readerFailed' <=> reader' \in {"failed", "done"})
  <2>1. CASE ReaderReads \/ ReaderPushes
    BY <1>1, <2>1 DEF ReaderReads, ReaderPushes, ThreadInv, OnlyThisChild, ReaderJoined,
       queueVars
  <2>2. CASE ReaderFails \/ ReaderSignals
    BY <1>1, <2>2 DEF ReaderFails, ReaderSignals, ThreadInv, OnlyThisChild, ReaderJoined
  <2> QED
    BY <2>1, <2>2 DEF Reader
<1> QED
  BY <1>1, <1>2, <1>3 DEF ThreadInv, OnlyThisChild, FromThisChild

LEMMA ChildChanges ==
  ASSUME TypeOK, ThreadInv, JoinReader \/ Launch \/ ServerSteps PROVE ThreadInv'
<1>0. FromThisChild(<<>>)
  BY DEF FromThisChild
<1>1. CASE JoinReader
  <2>1. /\ UNCHANGED <<gen, held, queue, readerFailed, blocked>>
        /\ outPipe' = <<>> /\ pc = "joinReader" /\ pc' = "clear" /\ reader' = "none"
        /\ reader \in {"none", "done"}
    BY <1>1 DEF JoinReader, queueVars, waitVars
  <2>2. held = <<>> /\ ~blocked
    BY <2>1 DEF ThreadInv, ReaderJoined, Waiting
  <2> QED
    BY <1>0, <2>1, <2>2 DEF ThreadInv, OnlyThisChild, ReaderJoined, FromThisChild, Closing
<1>2. CASE Launch
  <2>1. /\ pc = "launch" /\ ~readerFailed' /\ UNCHANGED <<queue, held, blocked>>
        /\ pc' \in {"sendOpen", "lookup", "closeStdin", "idle"}
        /\ outPipe' = <<>> \/ UNCHANGED <<gen, outPipe>>
        /\ \/ reader' = "reading"
           \/ reader' = reader /\ pc' \in {"closeStdin", "idle"}
    BY <1>2 DEF Launch, LaunchStarts, Spawn, Return, serverVars, waitVars
  <2>2. held = <<>> /\ queue = <<>> /\ reader = "none" /\ ~blocked
    BY <2>1 DEF ThreadInv, ReaderJoined, Waiting
  <2>3. FromThisChild(outPipe)' /\ FromThisChild(held)' /\ FromThisChild(queue)'
    BY <2>1, <2>2 DEF ThreadInv, OnlyThisChild, FromThisChild
  <2> QED
    BY <2>1, <2>2, <2>3 DEF ThreadInv, OnlyThisChild, ReaderJoined, Closing
<1>3. CASE ServerSteps
  <2>1. UNCHANGED <<held, queue, reader, readerFailed, pc, blocked>>
    BY <1>3 DEF ServerSteps, queueVars, readerVars, waitVars
  <2>2. gen' = gen /\ FromChild(outPipe', gen)
    BY <1>3, ServerSigns DEF ServerSteps, TypeOK, ThreadInv, OnlyThisChild, FromThisChild,
       FromChild
  <2> QED
    BY <2>1, <2>2 DEF ThreadInv, OnlyThisChild, ReaderJoined, FromThisChild, FromChild
<1> QED
  BY <1>1, <1>2, <1>3

LEMMA ThreadStep ==
  ASSUME TypeOK, ThreadInv, [Next]_vars PROVE ThreadInv'
<1>1. CASE Elsewhere
  <2>1. UNCHANGED <<gen, outPipe, held, queue, reader, readerFailed>>
    BY <1>1, ElsewhereQuiet
  <2>2. /\ pc' \in {"clear", "launch"} => pc' = pc
        /\ \/ pc' \in Closing \cup {"idle", "ensure", "launch"}
           \/ pc \notin Closing \cup {"idle", "ensure", "launch"}
           \/ ~readerFailed
        /\ blocked' => pc' \in Waiting
    BY <1>1, ElsewhereGoes
  <2>3. ReaderJoined'
    BY <2>1, <2>2 DEF ThreadInv, ReaderJoined
  <2>4. OnlyThisChild'
    BY <2>1, <2>2 DEF ThreadInv, OnlyThisChild, ReaderJoined, FromThisChild
  <2> QED
    BY <2>2, <2>3, <2>4 DEF ThreadInv
<1>2. CASE Reader
  BY <1>2, ReaderMoves
<1>3. CASE OpenChannelWaits \/ LoopTakes \/ LoopGivesUp \/ ClearState \/ DropLeftovers
  BY <1>3, CallerTakes
<1>4. CASE JoinReader \/ Launch \/ ServerSteps
  BY <1>4, ChildChanges
<1> QED
  BY <1>1, <1>2, <1>3, <1>4 DEF Next, Speak, Over, Elsewhere

\* Nothing the caller reads comes from a child that was terminated, and a reader failure
\* it believes is that of the running child's reader.  The invariant adds what makes this
\* inductive: closeHandles joins the reader, empty-handed, before launch starts another.
THEOREM ChildIdentity == Safety => []OnlyThisChild
<1>1. Init => ThreadInv
  BY DEF Init, ServerInit, ThreadInv, OnlyThisChild, ReaderJoined, FromThisChild, Closing
<1>2. TypeOK /\ ThreadInv /\ [Next]_vars => ThreadInv'
  BY ThreadStep
<1>3. ThreadInv => OnlyThisChild
  BY DEF ThreadInv
<1> QED
  BY <1>1, <1>2, <1>3, TypeCorrect, PTL DEF Safety

\* The reader is joined with nothing in its hands before another child is launched.
THEOREM ReaderIsJoined == Safety => []ReaderJoined
<1>1. Init => ThreadInv
  BY DEF Init, ServerInit, ThreadInv, OnlyThisChild, ReaderJoined, FromThisChild, Closing
<1>2. TypeOK /\ ThreadInv /\ [Next]_vars => ThreadInv'
  BY ThreadStep
<1>3. ThreadInv => ReaderJoined
  BY DEF ThreadInv
<1> QED
  BY <1>1, <1>2, <1>3, TypeCorrect, PTL DEF Safety

-----------------------------------------------------------------------------
\* No wake-up is lost.

LEMMA WakeupStep ==
  ASSUME ThreadInv, NoLostWakeup, [Next]_vars PROVE NoLostWakeup'
<1>0. blocked => pc \in Waiting
  BY DEF ThreadInv
<1>1. CASE Reader
  BY <1>1 DEF Reader, ReaderReads, ReaderPushes, ReaderFails, ReaderSignals, NoLostWakeup,
     queueVars, waitVars
<1>2. CASE Wait
  BY <1>2 DEF Wait, WaitBlocks, WaitWakes, WaitExpires, NoLostWakeup, queueVars, readerVars
<1>3. CASE Canceller \/ ServerSteps \/ UNCHANGED vars
  <2>1. UNCHANGED <<blocked, queue, readerFailed, reader>> /\ (event => event')
    BY <1>3 DEF Canceller, CancelStarts, CancelReads, CancelSends, CancelSignals,
       ServerSteps, vars, queueVars, waitVars, readerVars
  <2> QED
    BY <2>1 DEF NoLostWakeup
<1>4. CASE Speak \/ \E r \in Requests : SpeakStarts(r)
  <2>1. ~blocked
    BY <1>0, <1>4 DEF Speak, EnsureRunning, CloseStdin, KillChild, JoinReader, ClearState,
       Launch, Lookup, SendOpen, OpenChannelWaits, Arm, Activate, DropLeftovers, SendParams,
       SendVolume, SendText, LoopTop, LoopTakes, LoopGivesUp, SinkCancel, SpeakStarts,
       Pops, GivesUp, Waiting
  <2>2. blocked' = blocked
    BY <1>4 DEF Speak, EnsureRunning, CloseStdin, KillChild, JoinReader, ClearState,
       Launch, Lookup, SendOpen, OpenChannelWaits, Arm, Activate, DropLeftovers, SendParams,
       SendVolume, SendIf, SendText, LoopTop, LoopTakes, LoopGivesUp, SinkCancel,
       SpeakStarts, Pops, GivesUp, waitVars
  <2> QED
    BY <2>1, <2>2 DEF NoLostWakeup
<1> QED
  BY <1>1, <1>2, <1>3, <1>4 DEF Next, Over

\* The caller never sleeps in waitPacket beside a packet, or a failure, that nobody will
\* wake it for: the push precedes the signal, the queue is looked at before the wait, and
\* the event keeps a signal that comes in between.
THEOREM WakeupsKept == Safety => []NoLostWakeup
<1>1. Init => ThreadInv /\ NoLostWakeup
  BY DEF Init, ServerInit, ThreadInv, OnlyThisChild, ReaderJoined, FromThisChild, Closing,
     NoLostWakeup
<1>2. TypeOK /\ ThreadInv /\ [Next]_vars => ThreadInv'
  BY ThreadStep
<1>3. ThreadInv /\ NoLostWakeup /\ [Next]_vars => NoLostWakeup'
  BY WakeupStep
<1> QED
  BY <1>1, <1>2, <1>3, TypeCorrect, PTL DEF Safety
=============================================================================
