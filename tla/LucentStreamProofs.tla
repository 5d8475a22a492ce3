------------------------- MODULE LucentStreamProofs -------------------------
(***************************************************************************)
(* What a call of speakOnce hears is its own text, to its end.  Queue, the *)
(* reader's hands and the child's stdout are one Stream, oldest packet     *)
(* first; a step of any thread leaves it as it is, adds a packet at its    *)
(* end, takes one from its front, or empties it.                           *)
(*                                                                         *)
(* The theorems are about a child that answers within the deadlines if it  *)
(* answers at all (Prompt), and that says nothing to a Discard it has no   *)
(* text for (~IdleDiscardEnds); two of them about a caller nobody cancels  *)
(* (MaxCancels = 0).  With a slow child or with cancel() they do not hold. *)
(***************************************************************************)
EXTENDS LucentEngineProofs

-----------------------------------------------------------------------------
\* Sequences.

\* What an element put at the end, or taken from the front, does to the positions of the
\* others.
LEMMA AppendAt ==
  ASSUME NEW S, NEW q \in Seq(S), NEW p \in S
  PROVE  /\ Append(q, p) \in Seq(S) /\ Append(q, p) # <<>>
         /\ DOMAIN q = 1..Len(q) /\ Len(q) \in Nat
         /\ Len(Append(q, p)) = Len(q) + 1
         /\ DOMAIN Append(q, p) = 1..(Len(q) + 1)
         /\ \A i \in 1..Len(q) : Append(q, p)[i] = q[i]
         /\ Append(q, p)[Len(q) + 1] = p
BY AppendProperties, LenProperties

LEMMA TailAt ==
  ASSUME NEW S, NEW q \in Seq(S), q # <<>>
  PROVE  /\ Tail(q) \in Seq(S) /\ Head(q) \in S /\ Head(q) = q[1]
         /\ Len(q) \in Nat /\ Len(q) > 0 /\ DOMAIN q = 1..Len(q)
         /\ Len(Tail(q)) = Len(q) - 1 /\ DOMAIN Tail(q) = 1..(Len(q) - 1)
         /\ \A i \in 1..(Len(q) - 1) : Tail(q)[i] = q[i + 1]
<1>1. Len(q) > 0
  BY EmptySeq, LenProperties
<1> QED
  BY <1>1, HeadTailProperties, LenProperties

\* A packet handed on keeps its place in the stream.
LEMMA HandedOn ==
  ASSUME NEW S, NEW q \in Seq(S), NEW h \in Seq(S), NEW o \in Seq(S)
  PROVE  /\ q \o h \o o \in Seq(S)
         /\ h = <<>> /\ o # <<>> => q \o <<Head(o)>> \o Tail(o) = q \o h \o o
         /\ (q \o h) \o <<>> \o o = q \o h \o o
         /\ q # <<>> => /\ q \o h \o o # <<>>
                        /\ (q \o h \o o)[1] = Head(q)
                        /\ Tail(q) \o h \o o = Tail(q \o h \o o)
         /\ \A p \in S : q \o h \o Append(o, p) = Append(q \o h \o o, p)
<1>0. /\ q \o h \in Seq(S) /\ h \o o \in Seq(S) /\ q \o h \o o \in Seq(S)
      /\ <<>> \in Seq(S)
  BY ConcatProperties
<1>1. ASSUME h = <<>>, o # <<>> PROVE q \o <<Head(o)>> \o Tail(o) = q \o h \o o
  <2>1. /\ Head(o) \in S /\ Tail(o) \in Seq(S) /\ <<Head(o)>> \in Seq(S)
        /\ <<Head(o)>> \o Tail(o) = o
    <3>1. Head(o) \in S /\ Tail(o) \in Seq(S) /\ <<Head(o)>> \in Seq(S)
      BY <1>1, HeadTailProperties
    <3>2. <<Head(o)>> \o Tail(o) \in Seq(S)
      BY <3>1, ConcatProperties
    <3>3. /\ Len(<<Head(o)>>) = 1 /\ <<Head(o)>>[1] = Head(o) /\ Head(o) = o[1]
          /\ Len(Tail(o)) = Len(o) - 1 /\ Len(o) \in Nat /\ Len(o) > 0
          /\ \A i \in 1..(Len(o) - 1) : Tail(o)[i] = o[i + 1]
      BY <1>1, TailAt
    <3>4. /\ Len(<<Head(o)>> \o Tail(o)) = Len(o)
          /\ \A i \in 1..Len(o) :
                 (<<Head(o)>> \o Tail(o))[i] = IF i <= 1 THEN o[1] ELSE Tail(o)[i - 1]
      BY <3>1, <3>3, ConcatProperties
    <3>5. \A i \in 1..Len(o) : (<<Head(o)>> \o Tail(o))[i] = o[i]
      BY <3>3, <3>4
    <3> QED
      BY <3>1, <3>2, <3>4, <3>5, SeqEqual
  <2>2. (q \o <<Head(o)>>) \o Tail(o) = q \o (<<Head(o)>> \o Tail(o))
    BY <2>1, ConcatAssociative
  <2> QED
    BY <1>1, <2>1, <2>2, ConcatEmptySeq
<1>2. (q \o h) \o <<>> \o o = q \o h \o o
  BY <1>0, ConcatEmptySeq
<1>3. ASSUME q # <<>>
      PROVE  /\ q \o h \o o # <<>>
             /\ (q \o h \o o)[1] = Head(q)
             /\ Tail(q) \o h \o o = Tail(q \o h \o o)
  <2> DEFINE s == q \o h \o o
             t == Tail(q) \o h \o o
  <2>1. /\ Tail(q) \in Seq(S) /\ Len(q) \in Nat /\ Len(q) > 0 /\ Len(Tail(q)) = Len(q) - 1
        /\ Head(q) = q[1] /\ \A i \in 1..(Len(q) - 1) : Tail(q)[i] = q[i + 1]
    BY <1>3, TailAt
  <2>2. /\ Len(h) \in Nat /\ Len(o) \in Nat /\ Len(h \o o) = Len(h) + Len(o)
    BY ConcatProperties, LenProperties
  <2>3. s = q \o (h \o o) /\ t = Tail(q) \o (h \o o)
    <3>1. s = q \o (h \o o)
      BY ConcatAssociative
    <3>2. t = Tail(q) \o (h \o o)
      BY ONLY <2>1, q \in Seq(S), h \in Seq(S), o \in Seq(S), ConcatAssociative
    <3> QED
      BY <3>1, <3>2
  <2>4. /\ Len(s) = Len(q) + Len(h \o o)
        /\ \A i \in 1..Len(q) + Len(h \o o) :
               s[i] = IF i <= Len(q) THEN q[i] ELSE (h \o o)[i - Len(q)]
    BY <1>0, <2>3, ConcatProperties
  <2>5. /\ t \in Seq(S)
        /\ Len(t) = Len(Tail(q)) + Len(h \o o)
        /\ \A i \in 1..Len(Tail(q)) + Len(h \o o) :
               t[i] = IF i <= Len(Tail(q)) THEN Tail(q)[i] ELSE (h \o o)[i - Len(Tail(q))]
    BY <1>0, <2>1, <2>3, ConcatProperties
  <2>6. s # <<>> /\ s[1] = Head(q)
    BY <1>0, <2>1, <2>2, <2>4, EmptySeq
  <2>7. /\ Tail(s) \in Seq(S) /\ Len(Tail(s)) = Len(s) - 1
        /\ \A i \in 1..(Len(s) - 1) : Tail(s)[i] = s[i + 1]
    BY <1>0, <2>6, TailAt
  <2>8. Len(t) = Len(Tail(s))
    BY <2>1, <2>2, <2>4, <2>5, <2>7
  <2>9. ASSUME NEW i \in 1..Len(t) PROVE t[i] = Tail(s)[i]
    <3>1. /\ i \in Nat /\ i >= 1 /\ i <= Len(q) - 1 + Len(h \o o)
          /\ i + 1 \in 1..Len(q) + Len(h \o o) /\ i \in 1..(Len(s) - 1)
      BY <2>1, <2>2, <2>4, <2>5
    <3>2. Tail(s)[i] = s[i + 1]
      BY <2>7, <3>1
    <3>3. CASE i <= Len(q) - 1
      BY <2>1, <2>4, <2>5, <3>1, <3>2, <3>3
    <3>4. CASE i > Len(q) - 1
      BY <2>1, <2>4, <2>5, <3>1, <3>2, <3>4
    <3> QED
      BY <2>1, <3>1, <3>3, <3>4
  <2>10. t = Tail(s)
    BY <2>5, <2>7, <2>8, <2>9, SeqEqual
  <2> QED
    BY <2>6, <2>10
<1>4. ASSUME NEW p \in S PROVE q \o h \o Append(o, p) = Append(q \o h \o o, p)
  <2>1. /\ Append(o, p) = o \o <<p>> /\ Append(q \o h \o o, p) = (q \o h \o o) \o <<p>>
        /\ <<p>> \in Seq(S)
    BY <1>0, AppendIsConcat
  <2> QED
    BY <1>0, <2>1, ConcatAssociative
<1> QED
  BY <1>0, <1>1, <1>2, <1>3, <1>4

-----------------------------------------------------------------------------
FreshCall ==
  /\ ~consumed /\ ~discarding /\ ~sinkAborted /\ pending = <<>>
  /\ emitted = 0 /\ lastMark = 0 /\ ~ending
Rendering == {"loop", "wait", "sinkCancel"}
Preparing == {"ensure", "launch", "lookup", "sendOpen", "waitOpen", "arm", "activate", "drop",
              "params", "volume", "text"}

\* A child that is dead has nothing, and closeHandles leaves nothing behind it.
ChildInv ==
  /\ ~process => up = "dead"
  /\ pc \in {"joinReader", "clear", "launch"} => up = "dead"
  /\ up # "up" => jobs = <<>>
  /\ up = "dead" => inPipe = <<>> /\ chans = <<>>
  /\ pc \in {"clear", "launch"} => outPipe = <<>>

\* Until its text is sent a call is as it was when it started.
CallInv ==
  /\ pc = "launch" => then = "launch" /\ channels = [k \in Keys |-> NoChannel]
  /\ late => pc \in Waiting
  /\ pc # "idle" => utt > 0
  /\ pc \in Preparing \/ (pc \in Closing /\ then = "launch") => FreshCall

\* Every step keeps what is known of the child.
LEMMA ChildStep ==
  ASSUME TypeOK, ChildInv, [Next]_vars PROVE ChildInv'
<1> USE DEF ChildInv, handleVars, serverVars
<1>1. CASE \E r \in Requests : SpeakStarts(r)
  BY <1>1 DEF SpeakStarts
<1>2. CASE EnsureRunning
  BY <1>2 DEF EnsureRunning
<1>3. CASE CloseStdin
  BY <1>3 DEF CloseStdin
<1>4. CASE KillChild
  BY <1>4 DEF KillChild, Kill
<1>5. CASE JoinReader
  BY <1>5 DEF JoinReader
<1>6. CASE ClearState
  BY <1>6 DEF ClearState, Return
<1>7. CASE Launch
  BY <1>7 DEF Launch, LaunchStarts, Spawn, Return
<1>8. CASE Lookup
  BY <1>8 DEF Lookup
<1>9. CASE SendOpen
  BY <1>9 DEF SendOpen, Sent, Accepts, SendFails, Return
<1>10. CASE OpenChannelWaits
  BY <1>10 DEF OpenChannelWaits, Pops, GivesUp, Return
<1>11. CASE Arm
  BY <1>11 DEF Arm
<1>12. CASE Activate
  BY <1>12 DEF Activate
<1>13. CASE DropLeftovers
  BY <1>13 DEF DropLeftovers
<1>14. CASE SendParams
  BY <1>14 DEF SendParams, SendIf, Sent, Accepts, SendFails, Return
<1>15. CASE SendVolume
  BY <1>15 DEF SendVolume, SendIf, Sent, Accepts, SendFails, Return
<1>16. CASE SendText
  BY <1>16 DEF SendText, Sent, Accepts, SendFails, Return
<1>17. CASE LoopTop
  BY <1>17 DEF LoopTop
<1>18. CASE LoopTakes
  BY <1>18 DEF LoopTakes, Pops, Audio, AudioTo, OtherPacket, StreamEnds, Return
<1>19. CASE LoopGivesUp
  BY <1>19 DEF LoopGivesUp, GivesUp, StreamEnds, Return
<1>20. CASE SinkCancel
  BY <1>20 DEF SinkCancel, Sent, Accepts, SendFails, StreamEnds, Return
<1>21. CASE Wait
  BY <1>21 DEF Wait, WaitBlocks, WaitWakes, WaitExpires
<1>22. CASE Reader
  BY <1>22 DEF Reader, ReaderReads, ReaderPushes, ReaderFails, ReaderSignals
<1>23. CASE Canceller
  BY <1>23 DEF Canceller, CancelStarts, CancelReads, CancelSends, CancelSignals, Sent,
     Accepts, SendFails
<1>24. CASE ServerSteps
  BY <1>24 DEF ServerSteps, Server, ServerReads, ServerWorks, ServerOpens,
     ServerStuck, ServerAdjusts, ServerAccepts, ServerDiscards, Reads, SaysBookMark,
     SaysSound, SaysRange, Finishes, Works, Says, ServerHangs, ServerDies, Kill
<1>25. CASE UNCHANGED vars
  BY <1>25 DEF vars
<1> QED
  BY <1>1, <1>2, <1>3, <1>4, <1>5, <1>6, <1>7, <1>8, <1>9, <1>10, <1>11, <1>12, <1>13,
     <1>14, <1>15, <1>16, <1>17, <1>18, <1>19, <1>20, <1>21, <1>22, <1>23, <1>24, <1>25
     DEF Next, Speak, Over

\* Every step keeps what is known of a call that has not sent its text.
LEMMA CallStep ==
  ASSUME TypeOK, ThreadInv, CallInv, [Next]_vars PROVE CallInv'
<1> USE DEF CallInv, FreshCall, Closing, Waiting, Preparing, callVars, waitVars,
          renderVars, cacheVars
<1>1. CASE \E r \in Requests : SpeakStarts(r)
  BY <1>1 DEF SpeakStarts, EngineTypeOK, CallTypes, TypeOK
<1>2. CASE EnsureRunning
  BY <1>2 DEF EnsureRunning
<1>3. CASE CloseStdin
  BY <1>3 DEF CloseStdin
<1>4. CASE KillChild
  BY <1>4 DEF KillChild, Kill, serverVars
<1>5. CASE JoinReader
  BY <1>5 DEF JoinReader
<1>6. CASE ClearState
  BY <1>6 DEF ClearState, Return, serverVars
<1>7. CASE Launch
  BY <1>7 DEF Launch, LaunchStarts, Spawn, Return, serverVars
<1>8. CASE Lookup
  BY <1>8 DEF Lookup, serverVars
<1>9. CASE SendOpen
  BY <1>9 DEF SendOpen, Sent, Accepts, SendFails, Return, serverVars
<1>10. CASE OpenChannelWaits
  BY <1>10 DEF OpenChannelWaits, Pops, GivesUp, Return, serverVars
<1>11. CASE Arm
  BY <1>11 DEF Arm, serverVars
<1>12. CASE Activate
  BY <1>12 DEF Activate, serverVars
<1>13. CASE DropLeftovers
  BY <1>13 DEF DropLeftovers, serverVars
<1>14. CASE SendParams
  BY <1>14 DEF SendParams, SendIf, Sent, Accepts, SendFails, Return, serverVars
<1>15. CASE SendVolume
  BY <1>15 DEF SendVolume, SendIf, Sent, Accepts, SendFails, Return, serverVars
<1>16. CASE SendText
  BY <1>16 DEF SendText, Sent, Accepts, SendFails, Return, serverVars
<1>17. CASE LoopTop
  BY <1>17 DEF LoopTop, serverVars
<1>18. CASE LoopTakes
  BY <1>18 DEF LoopTakes, Pops, Audio, AudioTo, OtherPacket, StreamEnds, Return,
     serverVars
<1>19. CASE LoopGivesUp
  BY <1>19 DEF LoopGivesUp, GivesUp, StreamEnds, Return, serverVars
<1>20. CASE SinkCancel
  BY <1>20 DEF SinkCancel, Sent, Accepts, SendFails, StreamEnds, Return, serverVars
<1>21. CASE Wait
  BY <1>21 DEF Wait, WaitBlocks, WaitWakes, WaitExpires, ThreadInv
<1>22. CASE Reader
  BY <1>22 DEF Reader, ReaderReads, ReaderPushes, ReaderFails, ReaderSignals
<1>23. CASE Canceller
  BY <1>23 DEF Canceller, CancelStarts, CancelReads, CancelSends, CancelSignals
<1>24. CASE ServerSteps
  BY <1>24 DEF ServerSteps
<1>25. CASE UNCHANGED vars
  BY <1>25 DEF vars
<1> QED
  BY <1>1, <1>2, <1>3, <1>4, <1>5, <1>6, <1>7, <1>8, <1>9, <1>10, <1>11, <1>12, <1>13,
     <1>14, <1>15, <1>16, <1>17, <1>18, <1>19, <1>20, <1>21, <1>22, <1>23, <1>24, <1>25
     DEF Next, Speak, Over

-----------------------------------------------------------------------------
\* What the child has said and the caller has not heard, oldest first.
Stream == queue \o held \o outPipe

\* TypeOK, for what holds packets and texts.
LEMMA PipesTyped ==
  ASSUME TypeOK
  PROVE  /\ queue \in Seq(FromServer) /\ held \in Seq(FromServer)
         /\ outPipe \in Seq(FromServer)
         /\ Stream \in Seq(FromServer)
         /\ inPipe \in Seq(ToServer) /\ jobs \in Seq(Job) /\ chans \in Seq(ServerChannel)
<1>1. /\ queue \in Seq(FromServer) /\ held \in Seq(FromServer)
      /\ outPipe \in Seq(FromServer)
      /\ inPipe \in Seq(ToServer) /\ jobs \in Seq(Job) /\ chans \in Seq(ServerChannel)
  BY DEF TypeOK, ServerTypeOK, EngineTypeOK, QueueTypes, ReaderTypes
<1> QED
  BY <1>1, HandedOn DEF Stream

\* The reader hands packets on; the stream stays what it is.
LEMMA ReaderStream ==
  ASSUME TypeOK, Reader PROVE Stream' = Stream
<1>0. queue \in Seq(FromServer) /\ held \in Seq(FromServer) /\ outPipe \in Seq(FromServer)
  BY PipesTyped
<1>1. CASE ReaderReads
  <2>1. /\ held = <<>> /\ outPipe # <<>> /\ queue' = queue /\ held' = <<Head(outPipe)>>
        /\ outPipe' = Tail(outPipe)
    BY <1>1 DEF ReaderReads, queueVars
  <2>2. queue \o <<Head(outPipe)>> \o Tail(outPipe) = queue \o held \o outPipe
    BY <1>0, <2>1, HandedOn
  <2> QED
    BY <2>1, <2>2 DEF Stream
<1>2. CASE ReaderPushes
  <2>1. queue' = queue \o held /\ held' = <<>> /\ outPipe' = outPipe
    BY <1>2 DEF ReaderPushes, serverVars
  <2>2. (queue \o held) \o <<>> \o outPipe = queue \o held \o outPipe
    BY <1>0, HandedOn
  <2> QED
    BY <2>1, <2>2 DEF Stream
<1>3. CASE ReaderFails \/ ReaderSignals
  BY <1>3 DEF ReaderFails, ReaderSignals, serverVars, Stream
<1> QED
  BY <1>1, <1>2, <1>3 DEF Reader

\* The caller takes the oldest packet.
LEMMA PopsStream ==
  ASSUME TypeOK, Pops, UNCHANGED <<held, outPipe>>
  PROVE  Stream # <<>> /\ Head(queue) = Stream[1] /\ Stream' = Tail(Stream)
<1>0. queue \in Seq(FromServer) /\ held \in Seq(FromServer) /\ outPipe \in Seq(FromServer)
  BY PipesTyped
<1>1. queue # <<>> /\ queue' = Tail(queue) /\ held' = held /\ outPipe' = outPipe
  BY DEF Pops
<1>2. /\ queue \o held \o outPipe # <<>> /\ (queue \o held \o outPipe)[1] = Head(queue)
      /\ Tail(queue) \o held \o outPipe = Tail(queue \o held \o outPipe)
  BY <1>0, <1>1, HandedOn
<1> QED
  BY <1>1, <1>2 DEF Stream

\* The child adds a packet at the end.
LEMMA SaysStream ==
  ASSUME TypeOK, NEW p \in FromServer, Says(p), UNCHANGED <<queue, held>>
  PROVE  Stream' = Append(Stream, p)
<1>0. queue \in Seq(FromServer) /\ held \in Seq(FromServer) /\ outPipe \in Seq(FromServer)
  BY PipesTyped
<1>1. queue' = queue /\ held' = held /\ outPipe' = Append(outPipe, p)
  BY DEF Says
<1>2. queue \o held \o Append(outPipe, p) = Append(queue \o held \o outPipe, p)
  BY <1>0, HandedOn
<1> QED
  BY <1>1, <1>2 DEF Stream

\* Nobody else touches it, but to empty the queue or the pipe.
LEMMA StillStream ==
  ASSUME UNCHANGED <<queue, held, outPipe>> PROVE Stream' = Stream
BY DEF Stream

\* Nothing anywhere: the stream is empty.
LEMMA EmptyStream ==
  ASSUME TypeOK PROVE Stream = <<>> <=> queue = <<>> /\ held = <<>> /\ outPipe = <<>>
<1>0. queue \in Seq(FromServer) /\ held \in Seq(FromServer) /\ outPipe \in Seq(FromServer)
  BY PipesTyped
<1>1. queue \o held \in Seq(FromServer)
  BY <1>0, ConcatProperties
<1>2. queue \o held \o outPipe = <<>> <=> queue \o held = <<>> /\ outPipe = <<>>
  BY <1>0, <1>1, ConcatEqualIffEmpty
<1>3. queue \o held = <<>> <=> queue = <<>> /\ held = <<>>
  BY <1>0, ConcatEqualIffEmpty
<1> QED
  BY <1>2, <1>3 DEF Stream

-----------------------------------------------------------------------------
\* The child's steps, by what they do to the stream.

\* The packets of a text, and the others.
Packets == {"TextRange", "BookMark", "Audio"}

\* What the child can add to the stream, and what it did to add it.
Opened ==
  /\ Reads("Open") /\ UNCHANGED <<up, jobs>>
  /\ \E p \in FromServer :
       /\ Stream' = Append(Stream, p)
       /\ p.type = "OpenNotify" /\ p.utt = 0 /\ p.cut = FALSE /\ p.end = FALSE

Adjusts ==
  /\ Reads("Params") \/ Reads("Volume")
  /\ UNCHANGED <<up, jobs>> /\ Stream' = Stream

TookText ==
  /\ Reads("Text") /\ up' = up /\ Stream' = Stream
  /\ \/ jobs' = jobs
     \/ \E j \in Job :
          /\ jobs' = Append(jobs, j)
          /\ j.utt = Head(inPipe).utt /\ j.chan = Head(inPipe).chan /\ j.cut = FALSE

Cuts ==
  /\ Reads("Discard") /\ up' = up /\ Stream' = Stream
  /\ Len(jobs') = Len(jobs)
  /\ \A i \in DOMAIN jobs : jobs'[i].utt = jobs[i].utt /\ jobs'[i].chan = jobs[i].chan

\* A packet of the text it renders, not the last one; a bookmark whose sound is to come.
Renders ==
  /\ jobs # <<>> /\ UNCHANGED <<up, inPipe>>
  /\ Len(jobs') = Len(jobs)
  /\ \A i \in DOMAIN jobs :
       /\ jobs'[i].utt = jobs[i].utt /\ jobs'[i].chan = jobs[i].chan
       /\ jobs'[i].cut = jobs[i].cut
  /\ \E p \in FromServer :
       /\ Stream' = Append(Stream, p)
       /\ p.type \in Packets /\ p.cut = FALSE /\ p.end = FALSE
       /\ p.utt = jobs[1].utt /\ p.chan = jobs[1].chan
       /\ p.type = "Audio" => p.size = 1
       /\ p.type # "Audio" => jobs'[1].left = jobs[1].left
       /\ p.type = "BookMark" => p.size = 0 \/ (p.size = 1 /\ jobs[1].left > 0)

Ends ==
  /\ jobs # <<>> /\ UNCHANGED <<up, inPipe>>
  /\ jobs' = Tail(jobs)
  /\ \/ Stream' = Stream
     \/ \E p \in FromServer :
          /\ Stream' = Append(Stream, p)
          /\ p.type = "Audio" /\ p.end = TRUE /\ p.cut = jobs[1].cut
          /\ p.utt = jobs[1].utt /\ p.chan = jobs[1].chan
          /\ jobs[1].left > 0 => p.size = 1

Falls ==
  /\ jobs' = <<>> /\ Stream' = Stream /\ up' # "up"
  /\ \/ inPipe' = inPipe
     \/ inPipe' = <<>>
     \/ inPipe # <<>> /\ inPipe' = Tail(inPipe)

\* ServerOpens is of the kind Opened.
LEMMA OpenedFrom ==
  ASSUME TypeOK, ServerOpens, UNCHANGED <<queue, held>> PROVE Opened
<1> DEFINE m == Head(inPipe)
<1>1. ServerTypeOK /\ Reads("Open") /\ UNCHANGED <<up, jobs>>
  BY DEF ServerOpens, TypeOK
<1>2. m.pid \in Nat /\ Len(chans) + 1 \in Nat /\ gen \in Nat
  BY <1>1, HeadTyped DEF ServerTypeOK
<1>3. /\ OpenNotify(m.pid, Len(chans) + 1, TRUE) \in FromServer
      /\ OpenNotify(m.pid, 0, FALSE) \in FromServer
  BY <1>2 DEF OpenNotify, Blank, FromServer
<1>4. \E p \in FromServer :
          Says(p) /\ p.type = "OpenNotify" /\ p.utt = 0 /\ p.cut = FALSE /\ p.end = FALSE
  <2>1. \/ Says(OpenNotify(m.pid, Len(chans) + 1, TRUE))
        \/ Says(OpenNotify(m.pid, 0, FALSE))
    BY DEF ServerOpens
  <2>2. \A n, c, b : /\ OpenNotify(n, c, b).type = "OpenNotify" /\ OpenNotify(n, c, b).utt = 0
                     /\ OpenNotify(n, c, b).cut = FALSE /\ OpenNotify(n, c, b).end = FALSE
    BY DEF OpenNotify, Blank
  <2> HIDE DEF m
  <2> DEFINE yes == OpenNotify(m.pid, Len(chans) + 1, TRUE)
             no == OpenNotify(m.pid, 0, FALSE)
  <2>3. /\ yes \in FromServer /\ yes.type = "OpenNotify" /\ yes.utt = 0
        /\ yes.cut = FALSE /\ yes.end = FALSE
    BY <1>3, <2>2
  <2>4. /\ no \in FromServer /\ no.type = "OpenNotify" /\ no.utt = 0
        /\ no.cut = FALSE /\ no.end = FALSE
    BY <1>3 DEF OpenNotify, Blank
  <2>5. Says(yes) \/ Says(no)
    BY <2>1
  <2> HIDE DEF yes, no
  <2> QED
    BY <2>3, <2>4, <2>5
<1>5. PICK p \in FromServer : /\ Says(p) /\ p.type = "OpenNotify" /\ p.utt = 0
                              /\ p.cut = FALSE /\ p.end = FALSE
  BY <1>4
<1>6. Stream' = Append(Stream, p)
  BY <1>5, SaysStream
<1> QED
  BY <1>1, <1>5, <1>6 DEF Opened

\* ServerAccepts is of the kind TookText.
LEMMA TookTextFrom ==
  ASSUME TypeOK, ServerAccepts, UNCHANGED <<queue, held>> PROVE TookText
<1> DEFINE m == Head(inPipe)
<1>1. ServerTypeOK /\ Reads("Text") /\ UNCHANGED <<up, outPipe, chans>>
  BY DEF ServerAccepts, TypeOK
<1>2. /\ m.req \in Requests /\ m.chan \in Nat /\ m.utt \in Nat
  BY <1>1, HeadTyped
<1>3. \A c \in DOMAIN chans : chans[c].voice \in Voices /\ chans[c].volume \in Volumes
  <2>1. \A c \in DOMAIN chans : chans[c] \in ServerChannel
    BY <1>1 DEF ServerTypeOK
  <2> QED
    BY <2>1 DEF ServerChannel
<1>4. 0..MaxSound \subseteq Nat /\ 0..MaxMarks \subseteq Nat
  BY ServerAssumption
<1>5. CASE m.chan \in DOMAIN chans
  <2>1. PICK n \in 0..MaxSound : \E marks \in 0..MaxMarks, ends \in BOOLEAN :
              jobs' = Append(jobs,
                   [chan |-> m.chan, utt |-> m.utt, req |-> m.req,
                    voice |-> chans[m.chan].voice, volume |-> chans[m.chan].volume,
                    left |-> n, marks |-> marks, ends |-> ends, told |-> FALSE,
                    cut |-> FALSE])
    BY <1>5 DEF ServerAccepts
  <2>2. PICK marks \in 0..MaxMarks : \E ends \in BOOLEAN :
              jobs' = Append(jobs,
                   [chan |-> m.chan, utt |-> m.utt, req |-> m.req,
                    voice |-> chans[m.chan].voice, volume |-> chans[m.chan].volume,
                    left |-> n, marks |-> marks, ends |-> ends, told |-> FALSE,
                    cut |-> FALSE])
    BY <2>1
  <2>3. PICK ends \in BOOLEAN :
              jobs' = Append(jobs,
                   [chan |-> m.chan, utt |-> m.utt, req |-> m.req,
                    voice |-> chans[m.chan].voice, volume |-> chans[m.chan].volume,
                    left |-> n, marks |-> marks, ends |-> ends, told |-> FALSE,
                    cut |-> FALSE])
    BY <2>2
  <2> DEFINE j == [chan |-> m.chan, utt |-> m.utt, req |-> m.req,
                    voice |-> chans[m.chan].voice, volume |-> chans[m.chan].volume,
                    left |-> n, marks |-> marks, ends |-> ends, told |-> FALSE,
                    cut |-> FALSE]
  <2>4. n \in Nat /\ marks \in Nat
    BY <1>4
  <2>5. chans[m.chan].voice \in Voices /\ chans[m.chan].volume \in Volumes
    BY <1>3, <1>5
  <2>6. j \in Job
    BY <1>2, <2>4, <2>5 DEF Job
  <2>7. jobs' = Append(jobs, j) /\ j.utt = m.utt /\ j.chan = m.chan /\ j.cut = FALSE
    BY <2>3
  <2>8. Stream' = Stream
    BY <1>1, StillStream
  <2> HIDE DEF j
  <2> QED
    BY <1>1, <2>6, <2>7, <2>8 DEF TookText
<1>6. CASE m.chan \notin DOMAIN chans
  <2>1. jobs' = jobs
    BY <1>6 DEF ServerAccepts
  <2> QED
    BY <1>1, <2>1, StillStream DEF TookText
<1> QED
  BY <1>5, <1>6

\* ServerDiscards is of the kind Cuts.
LEMMA CutsFrom ==
  ASSUME TypeOK, ~IdleDiscardEnds, ServerDiscards, UNCHANGED <<queue, held>> PROVE Cuts
<1>1. Reads("Discard") /\ UNCHANGED <<up, outPipe>>
  BY DEF ServerDiscards
<1>2. jobs \in Seq(Job) /\ DOMAIN jobs = 1..Len(jobs) /\ Len(jobs) \in Nat
      /\ \A i \in DOMAIN jobs : jobs[i] \in Job
  BY PipesTyped, LenProperties, ElementOfSeq
<1>3. jobs' \in Seq(Job)
  <2>1. TypeOK => ServerTypeOK'
    BY DiscardsTyped DEF TypeOK
  <2> QED
    BY <2>1 DEF ServerTypeOK
<1>4. jobs' = [i \in DOMAIN jobs |-> IF jobs[i].chan = Head(inPipe).chan THEN Cut(jobs[i])
            ELSE jobs[i]]
  BY DEF ServerDiscards
<1>5. \A i \in DOMAIN jobs : /\ Cut(jobs[i]).utt = jobs[i].utt
                             /\ Cut(jobs[i]).chan = jobs[i].chan
  BY <1>2 DEF Cut, Job
<1>6. \A i \in DOMAIN jobs : jobs'[i].utt = jobs[i].utt /\ jobs'[i].chan = jobs[i].chan
  BY <1>4, <1>5
<1>7. DOMAIN jobs' = DOMAIN jobs /\ DOMAIN jobs' = 1..Len(jobs') /\ Len(jobs') \in Nat
  BY <1>3, <1>4, LenProperties
<1>8. Len(jobs') = Len(jobs)
  BY <1>2, <1>7
<1> QED
  BY <1>1, <1>6, <1>8, StillStream DEF Cuts

\* The text the child works on.
LEMMA HeadJob ==
  ASSUME TypeOK, jobs # <<>>
  PROVE  /\ jobs \in Seq(Job) /\ Len(jobs) \in Nat /\ Len(jobs) > 0
         /\ DOMAIN jobs = 1..Len(jobs) /\ 1 \in DOMAIN jobs
         /\ Head(jobs) = jobs[1] /\ jobs[1] \in Job
         /\ jobs[1].left \in Nat /\ jobs[1].marks \in Nat /\ jobs[1].chan \in Nat
         /\ jobs[1].utt \in Nat /\ jobs[1].cut \in BOOLEAN /\ gen \in Nat
<1>1. jobs \in Seq(Job) /\ gen \in Nat
  BY PipesTyped DEF TypeOK, ServerTypeOK
<1>2. /\ Len(jobs) \in Nat /\ Len(jobs) > 0 /\ DOMAIN jobs = 1..Len(jobs)
      /\ Head(jobs) = jobs[1] /\ jobs[1] \in Job
  BY <1>1, TailAt
<1> QED
  BY <1>1, <1>2 DEF Job

\* A field of the first text is updated.
LEMMA FirstUpdated ==
  ASSUME TypeOK, jobs # <<>>, NEW k,
         \/ jobs' = [jobs EXCEPT ![1].marks = k]
         \/ jobs' = [jobs EXCEPT ![1].left = k]
         \/ jobs' = [jobs EXCEPT ![1].told = k]
  PROVE  /\ Len(jobs') = Len(jobs)
         /\ \A i \in DOMAIN jobs :
              /\ jobs'[i].utt = jobs[i].utt /\ jobs'[i].chan = jobs[i].chan
              /\ jobs'[i].cut = jobs[i].cut
         /\ jobs' # [jobs EXCEPT ![1].left = k] => jobs'[1].left = jobs[1].left
<1>1. /\ jobs \in Seq(Job) /\ Len(jobs) \in Nat /\ Len(jobs) > 0
      /\ DOMAIN jobs = 1..Len(jobs) /\ 1 \in DOMAIN jobs /\ jobs[1] \in Job
  BY HeadJob
<1>2. DOMAIN jobs' = 1..Len(jobs)
  BY <1>1
<1>3. Len(jobs') = Len(jobs)
  BY <1>1, <1>2
<1>4. \A i \in DOMAIN jobs : i # 1 => jobs'[i] = jobs[i]
  BY <1>1
<1>5. /\ jobs'[1].utt = jobs[1].utt /\ jobs'[1].chan = jobs[1].chan
      /\ jobs'[1].cut = jobs[1].cut
      /\ jobs' # [jobs EXCEPT ![1].left = k] => jobs'[1].left = jobs[1].left
  BY <1>1 DEF Job
<1> QED
  BY <1>1, <1>3, <1>4, <1>5

\* A bookmark, a sound or a range is of the kind Renders.
LEMMA RendersFrom ==
  ASSUME TypeOK, SaysBookMark \/ SaysSound \/ SaysRange, UNCHANGED <<queue, held>>
  PROVE  Renders
<1>0. Works
  BY DEF SaysBookMark, SaysSound, SaysRange
<1>1. jobs # <<>> /\ UNCHANGED <<up, inPipe>>
  BY <1>0 DEF Works
<1> DEFINE j == jobs[1]
<1>2. /\ Head(jobs) = j /\ j \in Job /\ j.left \in Nat /\ gen \in Nat /\ 1 \in DOMAIN jobs
  BY <1>1, HeadJob
<1>3. CASE SaysBookMark
  <2>1. PICK offset \in 0..(IF j.left > 0 THEN 1 ELSE 0) : Says(BookMark(j, offset))
    BY <1>2, <1>3 DEF SaysBookMark
  <2>2. offset \in Nat /\ (offset = 0 \/ (offset = 1 /\ j.left > 0))
    BY <1>2
  <2>3. BookMark(j, offset) \in FromServer
    BY <1>2, <2>2, PacketsTyped
  <2>4. /\ BookMark(j, offset).type = "BookMark" /\ BookMark(j, offset).size = offset
        /\ BookMark(j, offset).cut = FALSE /\ BookMark(j, offset).end = FALSE
        /\ BookMark(j, offset).utt = j.utt /\ BookMark(j, offset).chan = j.chan
    BY DEF BookMark, Blank
  <2>5. Stream' = Append(Stream, BookMark(j, offset))
    BY <2>1, <2>3, SaysStream
  <2>6. jobs' = [jobs EXCEPT ![1].marks = @ - 1] /\ j.marks > 0
    BY <1>2, <1>3 DEF SaysBookMark
  <2>7. jobs' = [jobs EXCEPT ![1].marks = j.marks - 1]
    BY <2>6
  <2>8. /\ Len(jobs') = Len(jobs)
        /\ \A i \in DOMAIN jobs :
              /\ jobs'[i].utt = jobs[i].utt /\ jobs'[i].chan = jobs[i].chan
              /\ jobs'[i].cut = jobs[i].cut
    BY <1>1, <2>7, FirstUpdated
  <2>9. jobs'[1].left = j.left
    BY <1>2, <2>7 DEF Job
  <2> HIDE DEF j
  <2>10. BookMark(j, offset).type \in Packets /\ BookMark(j, offset).type # "Audio"
    BY <2>4 DEF Packets
  <2> QED
    BY <1>1, <2>2, <2>3, <2>4, <2>5, <2>8, <2>9, <2>10 DEF Renders, j
<1>4. CASE SaysSound
  <2>1. Says(Sound(j)) /\ jobs' = [jobs EXCEPT ![1].left = @ - 1]
    BY <1>2, <1>4 DEF SaysSound
  <2>3. Sound(j) \in FromServer
    BY <1>2, PacketsTyped
  <2>4. /\ Sound(j).type = "Audio" /\ Sound(j).size = 1
        /\ Sound(j).cut = FALSE /\ Sound(j).end = FALSE
        /\ Sound(j).utt = j.utt /\ Sound(j).chan = j.chan
    BY DEF Sound, Blank
  <2>5. Stream' = Append(Stream, Sound(j))
    BY <2>1, <2>3, SaysStream
  <2>7. jobs' = [jobs EXCEPT ![1].left = j.left - 1]
    BY <2>1
  <2>8. /\ Len(jobs') = Len(jobs)
        /\ \A i \in DOMAIN jobs :
              /\ jobs'[i].utt = jobs[i].utt /\ jobs'[i].chan = jobs[i].chan
              /\ jobs'[i].cut = jobs[i].cut
    BY <1>1, <2>7, FirstUpdated
  <2> HIDE DEF j
  <2>10. Sound(j).type \in Packets /\ Sound(j).type # "BookMark"
    BY <2>4 DEF Packets
  <2> QED
    BY <1>1, <2>3, <2>4, <2>5, <2>8, <2>10 DEF Renders, j
<1>5. CASE SaysRange
  <2>1. Says(TextRange(j)) /\ jobs' = [jobs EXCEPT ![1].told = TRUE]
    BY <1>2, <1>5 DEF SaysRange
  <2>3. TextRange(j) \in FromServer
    BY <1>2, PacketsTyped
  <2>4. /\ TextRange(j).type = "TextRange"
        /\ TextRange(j).cut = FALSE /\ TextRange(j).end = FALSE
        /\ TextRange(j).utt = j.utt /\ TextRange(j).chan = j.chan
    BY DEF TextRange, Blank
  <2>5. Stream' = Append(Stream, TextRange(j))
    BY <2>1, <2>3, SaysStream
  <2>8. /\ Len(jobs') = Len(jobs)
        /\ \A i \in DOMAIN jobs :
              /\ jobs'[i].utt = jobs[i].utt /\ jobs'[i].chan = jobs[i].chan
              /\ jobs'[i].cut = jobs[i].cut
    BY <1>1, <2>1, FirstUpdated
  <2>9. jobs'[1].left = j.left
    BY <1>2, <2>1 DEF Job
  <2> HIDE DEF j
  <2>10. /\ TextRange(j).type \in Packets /\ TextRange(j).type # "BookMark"
         /\ TextRange(j).type # "Audio"
    BY <2>4 DEF Packets
  <2> QED
    BY <1>1, <2>3, <2>4, <2>5, <2>8, <2>9, <2>10 DEF Renders, j
<1> QED
  BY <1>3, <1>4, <1>5

\* Finishes is of the kind Ends.
LEMMA EndsFrom ==
  ASSUME TypeOK, Finishes, UNCHANGED <<queue, held>> PROVE Ends
<1>1. jobs # <<>> /\ UNCHANGED <<up, inPipe>>
  BY DEF Finishes, Works
<1> DEFINE j == jobs[1]
           p == EndOfStream(j.chan, j.utt, j.left, j.cut)
<1>2. /\ Head(jobs) = j /\ j \in Job /\ j.left \in Nat /\ gen \in Nat /\ j.chan \in Nat
      /\ j.utt \in Nat /\ j.cut \in BOOLEAN
  BY <1>1, HeadJob
<1>3. jobs' = Tail(jobs) /\ j.left <= 1 /\ (Says(p) \/ UNCHANGED outPipe)
  BY <1>2 DEF Finishes
<1>4. p \in FromServer
  BY <1>2, PacketsTyped
<1>5. /\ p.type = "Audio" /\ p.end = TRUE /\ p.cut = j.cut /\ p.utt = j.utt
      /\ p.chan = j.chan /\ p.size = j.left
  BY DEF EndOfStream, Blank
<1>6. CASE Says(p)
  <2>1. Stream' = Append(Stream, p)
    BY <1>4, <1>6, SaysStream
  <2>2. j.left > 0 => p.size = 1
    BY <1>2, <1>3, <1>5
  <2> HIDE DEF p
  <2> QED
    BY <1>1, <1>3, <1>4, <1>5, <2>1, <2>2 DEF Ends
<1>7. CASE UNCHANGED outPipe
  BY <1>1, <1>3, <1>7, StillStream DEF Ends
<1> QED
  BY <1>3, <1>6, <1>7

\* Every step of the child is one of these, unless it answers an idle Discard.
LEMMA ServerKinds ==
  ASSUME TypeOK, ServerDiscards => ~IdleDiscardEnds, ServerSteps
  PROVE  Opened \/ Adjusts \/ TookText \/ Cuts \/ Renders \/ Ends \/ Falls
<1>0. Server /\ UNCHANGED <<queue, held>>
  BY DEF ServerSteps, queueVars, readerVars
<1>1. CASE ServerOpens
  BY <1>0, <1>1, OpenedFrom
<1>2. CASE ServerStuck
  <2>1. /\ inPipe # <<>> /\ inPipe' = Tail(inPipe) /\ jobs' = <<>> /\ up' # "up"
        /\ outPipe' = outPipe
    BY <1>2 DEF ServerStuck, Reads
  <2> QED
    BY <1>0, <2>1, StillStream DEF Falls
<1>3. CASE ServerAdjusts("Params") \/ ServerAdjusts("Volume")
  <2>1. (Reads("Params") \/ Reads("Volume")) /\ UNCHANGED <<up, jobs, outPipe>>
    BY <1>3 DEF ServerAdjusts
  <2> QED
    BY <1>0, <2>1, StillStream DEF Adjusts
<1>4. CASE ServerAccepts
  BY <1>0, <1>4, TookTextFrom
<1>5. CASE ServerDiscards
  BY <1>0, <1>5, CutsFrom
<1>6. CASE SaysBookMark \/ SaysSound \/ SaysRange
  BY <1>0, <1>6, RendersFrom
<1>7. CASE Finishes
  BY <1>0, <1>7, EndsFrom
<1>8. CASE ServerHangs
  <2>1. inPipe' = inPipe /\ jobs' = <<>> /\ up' # "up" /\ outPipe' = outPipe
    BY <1>8 DEF ServerHangs
  <2> QED
    BY <1>0, <2>1, StillStream DEF Falls
<1>9. CASE ServerDies
  <2>1. inPipe' = <<>> /\ jobs' = <<>> /\ up' # "up" /\ outPipe' = outPipe
    BY <1>9 DEF ServerDies, Kill
  <2> QED
    BY <1>0, <2>1, StillStream DEF Falls
<1> QED
  BY <1>0, <1>1, <1>2, <1>3, <1>4, <1>5, <1>6, <1>7, <1>8, <1>9
     DEF Server, ServerReads, ServerWorks

-----------------------------------------------------------------------------
\* Whose packets are under way.

\* Nothing of any text is under way: nothing in stdin that will be spoken, nothing being
\* rendered, and nothing on its way back but answers to OpenChannel.
NoText(q) == \A i \in DOMAIN q : q[i].type # "Text"
Silent(q) == \A i \in DOMAIN q : q[i].type = "OpenNotify"
Quietly == jobs = <<>> /\ NoText(inPipe) /\ Silent(Stream)

\* What is under way is this call's own text, on its channel, and its last packet is the
\* last the child will say of it.
Owns(p) == p.utt = utt /\ p.chan = ch.id
JobMine == Len(jobs) <= 1 /\ \A i \in DOMAIN jobs : Owns(jobs[i])
TextMine ==
  \A i \in DOMAIN inPipe : inPipe[i].type = "Text" =>
    /\ Owns(inPipe[i])
    /\ \A j \in DOMAIN inPipe : inPipe[j].type = "Text" => j = i
    /\ jobs = <<>> /\ Silent(Stream) /\ ~consumed /\ pending = <<>>
SaidMine == \A i \in DOMAIN Stream : Stream[i].type # "OpenNotify" => Owns(Stream[i])
EndsLast ==
  \A i \in DOMAIN Stream : Stream[i].end = TRUE =>
    /\ jobs = <<>>
    /\ \A j \in DOMAIN Stream : j > i => Stream[j].type = "OpenNotify"
Mine == JobMine /\ TextMine /\ SaidMine /\ EndsLast

\* A caller whose deadline has passed will hear nothing more.
Nothing ==
  /\ Stream = <<>> /\ jobs = <<>>
  /\ up = "up" => \A i \in DOMAIN inPipe : inPipe[i].type = "Discard"

\* What only Text carries, and what an answer to OpenChannel does not.
GhostInv ==
  /\ \A i \in DOMAIN inPipe : inPipe[i].type # "Text" => inPipe[i].utt = 0
  /\ \A i \in DOMAIN Stream : Stream[i].type = "OpenNotify" =>
       Stream[i].utt = 0 /\ Stream[i].cut = FALSE /\ Stream[i].end = FALSE

StreamInv ==
  /\ pc \in Preparing \cup {"idle"} => Quietly
  /\ pc \in Rendering => Mine
  /\ pc = "sinkCancel" /\ ending => Quietly
  /\ late => Nothing

\* Positions in a packet sequence after a packet is added, or taken away.
LEMMA AddedAt ==
  ASSUME NEW S, NEW q \in Seq(S), NEW p \in S, NEW r, r = Append(q, p)
  PROVE  /\ Len(q) \in Nat /\ DOMAIN q = 1..Len(q) /\ DOMAIN r = 1..(Len(q) + 1)
         /\ r \in Seq(S) /\ r # <<>>
         /\ \A i \in DOMAIN q : i \in DOMAIN r /\ r[i] = q[i]
         /\ Len(q) + 1 \in DOMAIN r /\ r[Len(q) + 1] = p
         /\ \A i \in DOMAIN r : i \in DOMAIN q \/ (i = Len(q) + 1 /\ r[i] = p)
         /\ \A i \in DOMAIN q : i < Len(q) + 1
BY AppendAt

LEMMA TakenAt ==
  ASSUME NEW S, NEW q \in Seq(S), q # <<>>, NEW r, r = Tail(q)
  PROVE  /\ Len(q) \in Nat /\ DOMAIN q = 1..Len(q) /\ DOMAIN r = 1..(Len(q) - 1)
         /\ r \in Seq(S) /\ 1 \in DOMAIN q /\ Head(q) = q[1]
         /\ \A i \in DOMAIN r : i \in Nat /\ i + 1 \in DOMAIN q /\ r[i] = q[i + 1] /\ i + 1 > 1
         /\ \A i \in DOMAIN q : i # 1 => i \in Nat /\ i - 1 \in DOMAIN r /\ r[i - 1] = q[i]
         /\ Len(q) = 1 => r = <<>>
<1>1. /\ Tail(q) \in Seq(S) /\ Head(q) \in S /\ Head(q) = q[1]
      /\ Len(q) \in Nat /\ Len(q) > 0 /\ DOMAIN q = 1..Len(q)
      /\ Len(Tail(q)) = Len(q) - 1 /\ DOMAIN Tail(q) = 1..(Len(q) - 1)
      /\ \A i \in 1..(Len(q) - 1) : Tail(q)[i] = q[i + 1]
  BY TailAt
<1>2. Len(q) = 1 => r = <<>>
  BY <1>1, EmptySeq
<1>3. \A i \in DOMAIN q : i # 1 => i \in Nat /\ i - 1 \in DOMAIN r /\ r[i - 1] = q[i]
  <2>1. ASSUME NEW i \in DOMAIN q, i # 1
              PROVE i - 1 \in 1..(Len(q) - 1) /\ (i - 1) + 1 = i /\ i \in Nat
    BY <1>1, <2>1
  <2> QED
    BY <1>1, <2>1
<1> QED
  BY <1>1, <1>2, <1>3

\* Quiet moves of a sequence.
LEMMA QuietMoves ==
  ASSUME NEW S, NEW q \in Seq(S), NEW p \in S
  PROVE  /\ NoText(q) /\ p.type # "Text" => NoText(Append(q, p))
         /\ Silent(q) /\ p.type = "OpenNotify" => Silent(Append(q, p))
         /\ q # <<>> => (NoText(q) => NoText(Tail(q))) /\ (Silent(q) => Silent(Tail(q)))
         /\ NoText(<<>>) /\ Silent(<<>>)
<1> DEFINE r == Append(q, p)
           t == Tail(q)
<1>1. \A i \in DOMAIN r : (i \in DOMAIN q /\ r[i] = q[i]) \/ r[i] = p
  BY AddedAt
<1>2. q # <<>> => \A i \in DOMAIN t : i + 1 \in DOMAIN q /\ t[i] = q[i + 1]
  BY TakenAt
<1> HIDE DEF r, t
<1>3. q # <<>> => (NoText(q) => NoText(t)) /\ (Silent(q) => Silent(t))
  BY <1>2 DEF NoText, Silent
<1>4. NoText(q) /\ p.type # "Text" => NoText(r)
  BY <1>1 DEF NoText
<1>5. Silent(q) /\ p.type = "OpenNotify" => Silent(r)
  BY <1>1 DEF Silent
<1>6. NoText(<<>>) /\ Silent(<<>>)
  BY DEF NoText, Silent
<1> QED
  BY <1>3, <1>4, <1>5, <1>6 DEF r, t

\* The packet at the head of stdin.
LEMMA Reading ==
  ASSUME TypeOK, NEW type, Reads(type)
  PROVE  /\ inPipe \in Seq(ToServer) /\ inPipe # <<>> /\ inPipe' = Tail(inPipe)
         /\ Head(inPipe) = inPipe[1] /\ 1 \in DOMAIN inPipe /\ inPipe[1].type = type
         /\ up = "up"
<1>1. /\ inPipe \in Seq(ToServer) /\ inPipe # <<>> /\ inPipe' = Tail(inPipe)
      /\ Head(inPipe).type = type /\ up = "up"
  BY PipesTyped DEF Reads
<1> QED
  BY <1>1, TakenAt

\* The child breaks no silence of itself.
LEMMA QuietServer ==
  ASSUME TypeOK, ~IdleDiscardEnds, Quietly, ServerSteps PROVE Quietly'
<1>0. /\ inPipe \in Seq(ToServer) /\ Stream \in Seq(FromServer) /\ jobs \in Seq(Job)
      /\ jobs = <<>> /\ NoText(inPipe) /\ Silent(Stream)
  BY PipesTyped DEF Quietly
<1>1. CASE Opened
  <2>1. inPipe # <<>> /\ inPipe' = Tail(inPipe) /\ jobs' = jobs
    BY <1>1, Reading DEF Opened
  <2>2. PICK p \in FromServer : Stream' = Append(Stream, p) /\ p.type = "OpenNotify"
    BY <1>1 DEF Opened
  <2>3. NoText(Tail(inPipe))
    BY <1>0, <2>1, QuietMoves
  <2>4. Silent(Append(Stream, p))
    BY <1>0, <2>2, QuietMoves
  <2> QED
    BY <1>0, <2>1, <2>2, <2>3, <2>4 DEF Quietly, NoText, Silent
<1>2. CASE Adjusts
  <2>1. inPipe # <<>> /\ inPipe' = Tail(inPipe) /\ jobs' = jobs /\ Stream' = Stream
    BY <1>2, Reading DEF Adjusts
  <2>3. NoText(Tail(inPipe))
    BY <1>0, <2>1, QuietMoves
  <2> QED
    BY <1>0, <2>1, <2>3 DEF Quietly, NoText, Silent
<1>3. CASE TookText
  <2>1. 1 \in DOMAIN inPipe /\ inPipe[1].type = "Text"
    BY <1>3, Reading DEF TookText
  <2> QED
    BY <1>0, <2>1 DEF NoText
<1>4. CASE Cuts
  <2>1. /\ inPipe # <<>> /\ inPipe' = Tail(inPipe) /\ Stream' = Stream
        /\ Len(jobs') = Len(jobs)
    BY <1>4, Reading DEF Cuts
  <2>2. jobs' = <<>>
    <3>1. jobs' \in Seq(Job)
      BY StepTyped DEF Next, TypeOK, ServerTypeOK
    <3> QED
      BY <1>0, <2>1, <3>1, EmptySeq
  <2>3. NoText(Tail(inPipe))
    BY <1>0, <2>1, QuietMoves
  <2> QED
    BY <1>0, <2>1, <2>2, <2>3 DEF Quietly, NoText, Silent
<1>5. CASE Renders \/ Ends
  BY <1>0, <1>5 DEF Renders, Ends
<1>6. CASE Falls
  <2>1. /\ jobs' = <<>> /\ Stream' = Stream
        /\ inPipe' = inPipe \/ inPipe' = <<>> \/ (inPipe # <<>> /\ inPipe' = Tail(inPipe))
    BY <1>6 DEF Falls
  <2>2. inPipe # <<>> => NoText(Tail(inPipe))
    BY <1>0, QuietMoves
  <2>3. NoText(inPipe')
    <3>1. NoText(<<>>)
      BY DEF NoText
    <3> QED
      BY <1>0, <2>1, <2>2, <3>1
  <2> QED
    BY <1>0, <2>1, <2>3 DEF Quietly, NoText, Silent
<1> QED
  BY <1>1, <1>2, <1>3, <1>4, <1>5, <1>6, ServerKinds

\* Stdin loses its oldest packet.
LEMMA TextTail ==
  ASSUME TypeOK, TextMine, inPipe # <<>>, inPipe' = Tail(inPipe),
         Stream' = Stream \/ NoText(inPipe) \/ Silent(Stream'),
         jobs' = <<>> \/ NoText(Tail(inPipe)),
         UNCHANGED <<utt, req, channels, consumed, pending>>
  PROVE  TextMine'
<1>0. /\ inPipe \in Seq(ToServer)
      /\ \A i \in DOMAIN inPipe' :
             i \in Nat /\ i + 1 \in DOMAIN inPipe /\ inPipe'[i] = inPipe[i + 1]
  BY PipesTyped, TakenAt
<1>1. ch' = ch
  BY DEF ch
<1> SUFFICES ASSUME NEW i \in DOMAIN inPipe', inPipe'[i].type = "Text"
             PROVE  /\ Owns(inPipe[i])'
                    /\ \A j \in DOMAIN inPipe' : inPipe'[j].type = "Text" => j = i
                    /\ jobs' = <<>> /\ Silent(Stream') /\ ~consumed /\ pending = <<>>
  BY DEF TextMine, Silent
<1>2. /\ i \in Nat /\ i + 1 \in DOMAIN inPipe /\ inPipe'[i] = inPipe[i + 1]
      /\ inPipe[i + 1].type = "Text"
  BY <1>0
<1>3. /\ Owns(inPipe[i + 1])
      /\ \A j \in DOMAIN inPipe : inPipe[j].type = "Text" => j = i + 1
      /\ jobs = <<>> /\ Silent(Stream) /\ ~consumed /\ pending = <<>>
  BY <1>2 DEF TextMine
<1>4. Silent(Stream')
  BY <1>2, <1>3 DEF NoText
<1>5. jobs' = <<>>
  BY <1>2 DEF NoText
<1>6. \A j \in DOMAIN inPipe' : inPipe'[j].type = "Text" => j = i
  <2>1. ASSUME NEW j \in DOMAIN inPipe', inPipe'[j].type = "Text" PROVE j = i
    <3>1. j \in Nat /\ j + 1 \in DOMAIN inPipe /\ inPipe[j + 1].type = "Text"
      BY <1>0, <2>1
    <3>2. j + 1 = i + 1
      BY <1>3, <3>1
    <3> QED
      BY <1>2, <3>1, <3>2
  <2> QED
    BY <2>1
<1>7. Owns(inPipe[i])'
  BY <1>1, <1>2, <1>3 DEF Owns
<1> QED
  BY <1>3, <1>4, <1>5, <1>6, <1>7

\* The child says of a text only what it renders, in order, and its end last.
LEMMA MineServer ==
  ASSUME TypeOK, GhostInv, ~IdleDiscardEnds, Mine, ServerSteps PROVE Mine'
<1>0. /\ inPipe \in Seq(ToServer) /\ Stream \in Seq(FromServer) /\ jobs \in Seq(Job)
      /\ DOMAIN jobs = 1..Len(jobs) /\ Len(jobs) \in Nat
      /\ JobMine /\ TextMine /\ SaidMine /\ EndsLast
  BY PipesTyped, LenProperties DEF Mine
<1>1. UNCHANGED <<utt, req, channels, consumed, pending>> /\ ch' = ch
  BY DEF ServerSteps, callVars, cacheVars, renderVars, ch
<1>2. jobs' \in Seq(Job) /\ DOMAIN jobs' = 1..Len(jobs') /\ Len(jobs') \in Nat
  <2>1. jobs' \in Seq(Job)
    BY StepTyped DEF Next, TypeOK, ServerTypeOK
  <2> QED
    BY <2>1, LenProperties
<1>3. jobs # <<>> => NoText(inPipe)
  BY <1>0 DEF TextMine, NoText
<1>4. CASE Opened
  <2>1. inPipe # <<>> /\ inPipe' = Tail(inPipe) /\ jobs' = jobs
    BY <1>4, Reading DEF Opened
  <2>2. PICK p \in FromServer : /\ Stream' = Append(Stream, p) /\ p.type = "OpenNotify"
                                /\ p.end = FALSE
    BY <1>4 DEF Opened
  <2>3. \A i \in DOMAIN Stream' :
            (i \in DOMAIN Stream /\ Stream'[i] = Stream[i]) \/ Stream'[i] = p
    BY <1>0, <2>2, AddedAt
  <2>4. JobMine'
    BY <1>0, <1>1, <2>1 DEF JobMine, Owns
  <2>5. TextMine'
    <3>1. NoText(inPipe) \/ Silent(Stream')
      <4>1. Silent(Stream) => Silent(Stream')
        BY <1>0, <2>2, QuietMoves
      <4> QED
        BY <1>0, <4>1 DEF TextMine, NoText
    <3>2. jobs' = <<>> \/ NoText(Tail(inPipe))
      BY <1>0, <1>3, <2>1, <2>2, QuietMoves, PacketTyped
    <3> QED
      BY <1>0, <1>1, <2>1, <3>1, <3>2, TextTail
  <2>6. SaidMine'
    BY <1>0, <1>1, <2>2, <2>3 DEF SaidMine, Owns
  <2>7. EndsLast'
    BY <1>0, <2>1, <2>2, <2>3 DEF EndsLast
  <2> QED
    BY <2>4, <2>5, <2>6, <2>7 DEF Mine
<1>5. CASE Adjusts \/ Cuts
  <2>1. /\ inPipe # <<>> /\ inPipe' = Tail(inPipe) /\ Stream' = Stream
        /\ Len(jobs') = Len(jobs)
        /\ \A i \in DOMAIN jobs : jobs'[i].utt = jobs[i].utt /\ jobs'[i].chan = jobs[i].chan
    BY <1>5, Reading DEF Adjusts, Cuts
  <2>2. jobs = <<>> => jobs' = <<>>
    BY <1>2, <2>1, EmptySeq
  <2>3. NoText(inPipe) => NoText(Tail(inPipe))
    BY <1>0, <2>1, QuietMoves, Reading, ElementOfSeq
  <2>4. JobMine'
    BY <1>0, <1>1, <1>2, <2>1 DEF JobMine, Owns
  <2>5. TextMine'
    BY <1>0, <1>1, <1>3, <2>1, <2>2, <2>3, TextTail
  <2>6. SaidMine'
    BY <1>0, <1>1, <2>1 DEF SaidMine, Owns
  <2>7. EndsLast'
    BY <1>0, <2>1, <2>2 DEF EndsLast
  <2> QED
    BY <2>4, <2>5, <2>6, <2>7 DEF Mine
<1>6. CASE TookText
  <2>1. /\ inPipe # <<>> /\ inPipe' = Tail(inPipe) /\ Stream' = Stream
        /\ Head(inPipe) = inPipe[1] /\ 1 \in DOMAIN inPipe /\ inPipe[1].type = "Text"
    BY <1>6, Reading DEF TookText
  <2>2. /\ Owns(inPipe[1])
        /\ \A j \in DOMAIN inPipe : inPipe[j].type = "Text" => j = 1
        /\ jobs = <<>> /\ Silent(Stream)
    BY <1>0, <2>1 DEF TextMine
  <2>3. NoText(Tail(inPipe))
    <3>1. \A i \in DOMAIN Tail(inPipe) : /\ i + 1 \in DOMAIN inPipe
                                         /\ Tail(inPipe)[i] = inPipe[i + 1] /\ i + 1 > 1
      BY <1>0, <2>1, TakenAt
    <3> QED
      BY <2>2, <3>1 DEF NoText
  <2>4. JobMine'
    <3>1. CASE jobs' = jobs
      BY <1>0, <1>1, <3>1 DEF JobMine, Owns
    <3>2. CASE jobs' # jobs
      <4>1. PICK j \in Job : /\ jobs' = Append(jobs, j) /\ j.utt = inPipe[1].utt
                             /\ j.chan = inPipe[1].chan
        BY <1>6, <2>1, <3>2 DEF TookText
      <4>2. Len(jobs) = 0 /\ Len(jobs') = Len(jobs) + 1 /\ jobs'[Len(jobs) + 1] = j
        BY <1>0, <2>2, <4>1, AppendAt, EmptySeq
      <4>3. Len(jobs') = 1 /\ \A i \in DOMAIN jobs' : jobs'[i] = j
        BY <1>2, <4>2
      <4> QED
        BY <1>1, <2>2, <4>1, <4>3 DEF JobMine, Owns
    <3> QED
      BY <3>1, <3>2
  <2>5. TextMine'
    BY <2>1, <2>3 DEF TextMine, NoText
  <2>6. SaidMine'
    BY <1>0, <1>1, <2>1 DEF SaidMine, Owns
  <2>7. EndsLast'
    <3>1. \A i \in DOMAIN Stream : Stream[i].end = FALSE
      BY <2>2 DEF GhostInv, Silent
    <3> QED
      BY <2>1, <3>1 DEF EndsLast
  <2> QED
    BY <2>4, <2>5, <2>6, <2>7 DEF Mine
<1>7. CASE Renders
  <2>1. /\ inPipe' = inPipe /\ jobs # <<>> /\ Len(jobs') = Len(jobs)
        /\ \A i \in DOMAIN jobs : jobs'[i].utt = jobs[i].utt /\ jobs'[i].chan = jobs[i].chan
    BY <1>7 DEF Renders
  <2>2. PICK p \in FromServer : /\ Stream' = Append(Stream, p) /\ p.end = FALSE
                               /\ p.utt = jobs[1].utt /\ p.chan = jobs[1].chan
    BY <1>7 DEF Renders
  <2>3. \A i \in DOMAIN Stream' :
            (i \in DOMAIN Stream /\ Stream'[i] = Stream[i]) \/ Stream'[i] = p
    BY <1>0, <2>2, AddedAt
  <2>4. JobMine' /\ Owns(jobs[1])
    <3>1. 1 \in DOMAIN jobs
      BY <2>1, HeadJob
    <3> QED
      BY <1>0, <1>1, <1>2, <2>1, <3>1 DEF JobMine, Owns
  <2>5. TextMine'
    BY <1>3, <2>1 DEF TextMine, NoText
  <2>6. SaidMine'
    BY <1>0, <1>1, <2>2, <2>3, <2>4 DEF SaidMine, Owns
  <2>7. EndsLast'
    <3>1. \A i \in DOMAIN Stream : Stream[i].end # TRUE
      BY <1>0, <2>1 DEF EndsLast
    <3>2. \A i \in DOMAIN Stream' : Stream'[i].end # TRUE
      BY <2>2, <2>3, <3>1
    <3> QED
      BY <3>2 DEF EndsLast
  <2> QED
    BY <2>4, <2>5, <2>6, <2>7 DEF Mine
<1>8. CASE Ends
  <2>1. /\ inPipe' = inPipe /\ jobs # <<>> /\ jobs' = Tail(jobs) /\ Len(jobs) = 1
        /\ 1 \in DOMAIN jobs
    <3>1. inPipe' = inPipe /\ jobs # <<>> /\ jobs' = Tail(jobs)
      BY <1>8 DEF Ends
    <3> QED
      BY <1>0, <3>1, HeadJob DEF JobMine
  <2>2. jobs' = <<>>
    BY <1>0, <2>1, TakenAt
  <2>3. JobMine'
    BY <2>2 DEF JobMine
  <2>4. TextMine'
    BY <1>3, <2>1 DEF TextMine, NoText
  <2>5. \A i \in DOMAIN Stream : Stream[i].end # TRUE
    BY <1>0, <2>1 DEF EndsLast
  <2>6. CASE Stream' = Stream
    <3>1. SaidMine' /\ EndsLast'
      BY <1>0, <1>1, <2>5, <2>6 DEF SaidMine, EndsLast, Owns
    <3> QED
      BY <2>3, <2>4, <3>1 DEF Mine
  <2>7. CASE Stream' # Stream
    <3>1. PICK p \in FromServer : /\ Stream' = Append(Stream, p)
                                 /\ p.utt = jobs[1].utt /\ p.chan = jobs[1].chan
      BY <1>8, <2>7 DEF Ends
    <3>2. /\ Len(Stream) \in Nat /\ DOMAIN Stream = 1..Len(Stream)
          /\ DOMAIN Stream' = 1..(Len(Stream) + 1)
          /\ \A i \in DOMAIN Stream' :
               (i \in DOMAIN Stream /\ Stream'[i] = Stream[i]) \/
                     (i = Len(Stream) + 1 /\ Stream'[i] = p)
      BY <1>0, <3>1, AddedAt
    <3>3. SaidMine'
      BY <1>0, <1>1, <2>1, <3>1, <3>2 DEF SaidMine, JobMine, Owns
    <3>4. EndsLast'
      <4>1. \A i \in DOMAIN Stream' : Stream'[i].end = TRUE => i = Len(Stream) + 1
        BY <2>5, <3>2
      <4>2. \A i \in DOMAIN Stream' : ~ i > Len(Stream) + 1
        BY <3>2
      <4> QED
        BY <2>2, <4>1, <4>2 DEF EndsLast
    <3> QED
      BY <2>3, <2>4, <3>3, <3>4 DEF Mine
  <2> QED
    BY <2>6, <2>7
<1>9. CASE Falls
  <2>1. /\ jobs' = <<>> /\ Stream' = Stream
        /\ inPipe' = inPipe \/ inPipe' = <<>> \/ (inPipe # <<>> /\ inPipe' = Tail(inPipe))
    BY <1>9 DEF Falls
  <2>2. JobMine'
    BY <2>1 DEF JobMine
  <2>3. SaidMine' /\ EndsLast'
    BY <1>0, <1>1, <2>1 DEF SaidMine, EndsLast, Owns
  <2>4. TextMine'
    <3>1. CASE inPipe' = inPipe
      BY <1>0, <1>1, <2>1, <3>1 DEF TextMine, Owns, Silent
    <3>2. CASE inPipe' = <<>>
      BY <3>2 DEF TextMine
    <3>3. CASE inPipe # <<>> /\ inPipe' = Tail(inPipe)
      BY <1>0, <1>1, <2>1, <3>3, TextTail
    <3> QED
      BY <2>1, <3>1, <3>2, <3>3
  <2> QED
    BY <2>2, <2>3, <2>4 DEF Mine
<1> QED
  BY <1>4, <1>5, <1>6, <1>7, <1>8, <1>9, ServerKinds

-----------------------------------------------------------------------------
\* What a step of the wrapper does to the pipes, and what it keeps.

\* What the wrapper does to the pipes: nothing, one packet to the child, one packet from it.
Same == UNCHANGED <<up, inPipe, jobs>> /\ Stream' = Stream

Sends(m) ==
  /\ UNCHANGED <<up, jobs>> /\ Stream' = Stream
  /\ inPipe' = Append(inPipe, m) /\ up # "dead"

Takes ==
  /\ UNCHANGED <<up, inPipe, jobs>>
  /\ Stream # <<>> /\ Head(queue) = Stream[1] /\ Stream' = Tail(Stream)

CallSame == UNCHANGED <<utt, req, channels, consumed, pending>>

\* A child with nothing to say stays silent, whatever Discards it still reads.
LEMMA NothingServer ==
  ASSUME TypeOK, ~IdleDiscardEnds, Nothing, ServerSteps PROVE Nothing'
<1>0. /\ inPipe \in Seq(ToServer) /\ jobs \in Seq(Job) /\ Stream = <<>> /\ jobs = <<>>
      /\ up = "up" => \A i \in DOMAIN inPipe : inPipe[i].type = "Discard"
  BY PipesTyped DEF Nothing
<1>1. ASSUME NEW type, Reads(type), type # "Discard" PROVE FALSE
  <2>1. 1 \in DOMAIN inPipe /\ inPipe[1].type = type /\ up = "up"
    BY <1>1, Reading
  <2> QED
    BY <1>0, <1>1, <2>1
<1>2. Cuts \/ Falls
  <2>1. ~Opened /\ ~Adjusts /\ ~TookText
    BY <1>1 DEF Opened, Adjusts, TookText
  <2>2. ~Renders /\ ~Ends
    BY <1>0 DEF Renders, Ends
  <2> QED
    BY <2>1, <2>2, ServerKinds
<1>3. CASE Cuts
  <2>1. /\ inPipe # <<>> /\ inPipe' = Tail(inPipe) /\ Stream' = Stream
        /\ Len(jobs') = Len(jobs)
        /\ up' = up
    BY <1>3, Reading DEF Cuts
  <2>2. jobs' = <<>>
    <3>1. jobs' \in Seq(Job)
      BY StepTyped DEF Next, TypeOK, ServerTypeOK
    <3> QED
      BY <1>0, <2>1, <3>1, EmptySeq
  <2>3. \A i \in DOMAIN Tail(inPipe) : /\ i + 1 \in DOMAIN inPipe
                                       /\ Tail(inPipe)[i] = inPipe[i + 1]
    BY <1>0, <2>1, TakenAt
  <2> QED
    BY <1>0, <2>1, <2>2, <2>3 DEF Nothing
<1>4. CASE Falls
  BY <1>0, <1>4 DEF Falls, Nothing
<1> QED
  BY <1>2, <1>3, <1>4

\* A step that touches neither pipe keeps whose packets are under way.
LEMMA SameKeeps ==
  ASSUME Same
  PROVE  /\ Quietly => Quietly'
         /\ Nothing => Nothing'
         /\ GhostInv => GhostInv'
         /\ CallSame /\ Mine => Mine'
<1> USE DEF Same
<1>1. Quietly => Quietly'
  BY DEF Quietly, NoText, Silent
<1>2. Nothing => Nothing'
  BY DEF Nothing
<1>3. GhostInv => GhostInv'
  BY DEF GhostInv
<1>4. ASSUME CallSame, Mine PROVE Mine'
  <2>1. JobMine'
    BY <1>4 DEF CallSame, Mine, JobMine, Owns, ch
  <2>2. TextMine'
    BY <1>4 DEF CallSame, Mine, TextMine, Owns, ch, Silent
  <2>3. SaidMine'
    BY <1>4 DEF CallSame, Mine, SaidMine, Owns, ch
  <2>4. EndsLast'
    BY <1>4 DEF Mine, EndsLast
  <2> QED
    BY <2>1, <2>2, <2>3, <2>4 DEF Mine
<1> QED
  BY <1>1, <1>2, <1>3, <1>4

\* So does one packet to the child, when it is not a text.
LEMMA SendKeeps ==
  ASSUME TypeOK, NEW m \in ToServer, Sends(m)
  PROVE  /\ Quietly /\ m.type # "Text" => Quietly'
         /\ Nothing /\ m.type = "Discard" => Nothing'
         /\ GhostInv /\ (m.type # "Text" => m.utt = 0) => GhostInv'
         /\ CallSame /\ Mine /\ m.type # "Text" => Mine'
<1>0. /\ inPipe \in Seq(ToServer) /\ inPipe' = Append(inPipe, m)
      /\ UNCHANGED <<up, jobs>> /\ Stream' = Stream
  BY PipesTyped DEF Sends
<1>1. \A i \in DOMAIN inPipe' : (i \in DOMAIN inPipe /\ inPipe'[i] = inPipe[i]) \/ inPipe'[i] = m
  BY <1>0, AddedAt
<1>2. Quietly /\ m.type # "Text" => Quietly'
  BY <1>0, <1>1 DEF Quietly, NoText, Silent
<1>3. Nothing /\ m.type = "Discard" => Nothing'
  BY <1>0, <1>1 DEF Nothing
<1>4. GhostInv /\ (m.type # "Text" => m.utt = 0) => GhostInv'
  BY <1>0, <1>1 DEF GhostInv
<1>5. ASSUME CallSame, Mine, m.type # "Text" PROVE Mine'
  <2>1. JobMine'
    BY <1>0, <1>5 DEF CallSame, Mine, JobMine, Owns, ch
  <2>2. TextMine'
    <3>1. \A i \in DOMAIN inPipe' :
              inPipe'[i].type = "Text" => i \in DOMAIN inPipe /\ inPipe'[i] = inPipe[i]
      BY <1>1, <1>5
    <3> QED
      BY <1>0, <1>5, <3>1 DEF CallSame, Mine, TextMine, Owns, ch, Silent
  <2>3. SaidMine'
    BY <1>0, <1>5 DEF CallSame, Mine, SaidMine, Owns, ch
  <2>4. EndsLast'
    BY <1>0, <1>5 DEF Mine, EndsLast
  <2> QED
    BY <2>1, <2>2, <2>3, <2>4 DEF Mine
<1> QED
  BY <1>2, <1>3, <1>4, <1>5

\* The caller's text joins what was quiet.
LEMMA TextSent ==
  ASSUME TypeOK, NEW m \in ToServer, Sends(m), Quietly, GhostInv, m.type = "Text",
        m.utt = utt, m.chan = ch.id,
         CallSame, ~consumed, pending = <<>>
  PROVE  Mine'
<1>0. /\ inPipe \in Seq(ToServer) /\ inPipe' = Append(inPipe, m)
      /\ UNCHANGED <<up, jobs>> /\ Stream' = Stream
      /\ jobs = <<>> /\ NoText(inPipe) /\ Silent(Stream)
  BY PipesTyped DEF Sends, Quietly
<1>1. \A i \in DOMAIN inPipe' : (i \in DOMAIN inPipe /\ inPipe'[i] = inPipe[i]) \/
            (i = Len(inPipe) + 1 /\ inPipe'[i] = m)
  BY <1>0, AddedAt
<1>2. JobMine'
  BY <1>0 DEF JobMine
<1>3. TextMine'
  <2>1. \A i \in DOMAIN inPipe' :
            inPipe'[i].type = "Text" => i = Len(inPipe) + 1 /\ inPipe'[i] = m
    BY <1>0, <1>1 DEF NoText
  <2>2. Owns(m)'
    BY DEF CallSame, Owns, ch
  <2>3. Silent(Stream)'
    BY <1>0 DEF Silent
  <2> QED
    BY <1>0, <2>1, <2>2, <2>3 DEF TextMine, Owns, CallSame
<1>4. SaidMine'
  BY <1>0 DEF SaidMine, Silent
<1>5. EndsLast'
  BY <1>0 DEF EndsLast, Silent, GhostInv
<1> QED
  BY <1>2, <1>3, <1>4, <1>5 DEF Mine

\* So does taking the oldest packet.
LEMMA TakeKeeps ==
  ASSUME TypeOK, Takes
  PROVE  /\ Quietly => Quietly'
         /\ GhostInv => GhostInv'
         /\ /\ Mine
            /\ UNCHANGED <<utt, req, channels>>
            /\ Head(queue).type = "OpenNotify" => UNCHANGED <<consumed, pending>>
            => Mine'
<1>0. /\ Stream \in Seq(FromServer) /\ Stream # <<>> /\ Stream' = Tail(Stream)
      /\ UNCHANGED <<up, inPipe, jobs>> /\ Head(queue) = Stream[1]
  BY PipesTyped DEF Takes
<1>1. /\ \A i \in DOMAIN Stream' :
             i \in Nat /\ i + 1 \in DOMAIN Stream /\ Stream'[i] = Stream[i + 1]
      /\ 1 \in DOMAIN Stream /\ DOMAIN Stream' \subseteq Nat
  BY <1>0, TakenAt
<1>2. Quietly => Quietly'
  BY <1>0, <1>1 DEF Quietly, NoText, Silent
<1>3. GhostInv => GhostInv'
  BY <1>0, <1>1 DEF GhostInv
<1>4. ASSUME Mine, UNCHANGED <<utt, req, channels>>,
             Head(queue).type = "OpenNotify" => UNCHANGED <<consumed, pending>>
      PROVE  Mine'
  <2>1. JobMine'
    BY <1>0, <1>4 DEF Mine, JobMine, Owns, ch
  <2>2. TextMine'
    <3>1. \A i \in DOMAIN inPipe : inPipe[i].type = "Text" => Silent(Stream) /\ Silent(Stream')
      BY <1>1, <1>4 DEF Mine, TextMine, Silent
    <3>2. \A i \in DOMAIN inPipe : inPipe[i].type = "Text" => UNCHANGED <<consumed, pending>>
      BY <1>0, <1>1, <1>4, <3>1 DEF Silent
    <3> QED
      BY <1>0, <1>4, <3>1, <3>2 DEF Mine, TextMine, Owns, ch, Silent
  <2>3. SaidMine'
    BY <1>0, <1>1, <1>4 DEF Mine, SaidMine, Owns, ch
  <2>4. EndsLast'
    <3> SUFFICES ASSUME NEW i \in DOMAIN Stream', Stream'[i].end = TRUE
                 PROVE  jobs' = <<>> /\ \A j \in DOMAIN Stream' :
                                            j > i => Stream'[j].type = "OpenNotify"
      BY DEF EndsLast
    <3>1. i \in Nat /\ i + 1 \in DOMAIN Stream /\ Stream[i + 1].end = TRUE
      BY <1>1
    <3>2. /\ jobs = <<>>
          /\ \A j \in DOMAIN Stream : j > i + 1 => Stream[j].type = "OpenNotify"
      BY <1>4, <3>1 DEF Mine, EndsLast
    <3>3. ASSUME NEW j \in DOMAIN Stream', j > i PROVE Stream'[j].type = "OpenNotify"
      <4>1. /\ j \in Nat /\ j + 1 \in DOMAIN Stream /\ Stream'[j] = Stream[j + 1]
            /\ j + 1 > i + 1
        BY <1>1, <3>1, <3>3
      <4> QED
        BY <3>2, <4>1
    <3> QED
      BY <1>0, <3>2, <3>3
  <2> QED
    BY <2>1, <2>2, <2>3, <2>4 DEF Mine
<1> QED
  BY <1>2, <1>3, <1>4

\* When the last packet of the text has been taken, all is quiet.
LEMMA LastTaken ==
  ASSUME TypeOK, GhostInv, Takes, Mine, Head(queue).end = TRUE PROVE Quietly'
<1>0. /\ Stream \in Seq(FromServer) /\ Stream # <<>> /\ Stream' = Tail(Stream)
      /\ UNCHANGED <<up, inPipe, jobs>> /\ Stream[1].end = TRUE
  BY PipesTyped DEF Takes
<1>1. /\ \A i \in DOMAIN Stream' :
             i + 1 \in DOMAIN Stream /\ Stream'[i] = Stream[i + 1] /\ i + 1 > 1
      /\ 1 \in DOMAIN Stream
  BY <1>0, TakenAt
<1>2. jobs = <<>> /\ \A j \in DOMAIN Stream : j > 1 => Stream[j].type = "OpenNotify"
  BY <1>0, <1>1 DEF Mine, EndsLast
<1>3. Silent(Stream')
  BY <1>1, <1>2 DEF Silent
<1>4. NoText(inPipe)
  <2>1. ~Silent(Stream)
    BY <1>0, <1>1 DEF Silent, GhostInv
  <2> QED
    BY <2>1 DEF Mine, TextMine, NoText
<1> QED
  BY <1>0, <1>2, <1>3, <1>4 DEF Quietly, Silent, NoText

-----------------------------------------------------------------------------
\* Which step of the wrapper does what.

Moves ==
  \/ \E r \in Requests : SpeakStarts(r)
  \/ EnsureRunning \/ CloseStdin \/ Lookup \/ Arm \/ Activate \/ LoopTop \/ LoopGivesUp
  \/ Wait \/ Reader \/ UNCHANGED vars \/ CancelStarts \/ CancelReads \/ CancelSignals

\* The steps that touch neither pipe.
LEMMA MovesSame ==
  ASSUME TypeOK, Moves PROVE Same
<1>1. CASE Reader
  BY <1>1, ReaderStream DEF Reader, ReaderReads, ReaderPushes, ReaderFails,
     ReaderSignals, serverVars, Same
<1>2. CASE ~Reader
  <2>1. UNCHANGED <<up, inPipe, jobs, queue, held, outPipe>>
    BY <1>2 DEF Moves, SpeakStarts, EnsureRunning, CloseStdin, Lookup, Arm, Activate,
       LoopTop, LoopGivesUp, GivesUp, Wait, WaitBlocks, WaitWakes, WaitExpires,
       CancelStarts, CancelReads, CancelSignals, vars, serverVars, queueVars, readerVars
  <2> QED
    BY <2>1, StillStream DEF Same
<1> QED
  BY <1>1, <1>2

\* A packet of the wrapper gets into stdin, or nothing changes.
LEMMA SentOne ==
  ASSUME TypeOK, NEW m \in ToServer, Sent(m) \/ SendFails \/ UNCHANGED serverVars,
         UNCHANGED <<queue, held>>
  PROVE  Sends(m) \/ Same
<1>1. CASE Sent(m)
  BY <1>1, StillStream DEF Sent, Accepts, Sends
<1>2. CASE SendFails \/ UNCHANGED serverVars
  BY <1>2, StillStream DEF SendFails, serverVars, Same
<1> QED
  BY <1>1, <1>2

\* What openChannel sends.
LEMMA SendOpenSends ==
  ASSUME TypeOK, SendOpen
  PROVE  Same \/ \E m \in ToServer : Sends(m) /\ m.type = "Open" /\ m.utt = 0
<1> DEFINE m == Packet("Open", 0, req, 0)
<1>1. m \in ToServer /\ m.type = "Open" /\ m.utt = 0
  BY PacketTyped DEF Packet, TypeOK
<1>2. (Sent(m) \/ SendFails \/ UNCHANGED serverVars) /\ UNCHANGED <<queue, held>>
  BY DEF SendOpen, queueVars, readerVars
<1> HIDE DEF m
<1> QED
  BY <1>1, <1>2, SentOne

\* What the parameter steps send.
LEMMA AdjustSends ==
  ASSUME TypeOK, SendParams \/ SendVolume
  PROVE  Same \/ \E m \in ToServer : Sends(m) /\ m.type \in {"Params", "Volume"} /\ m.utt = 0
<1> DEFINE p == Packet("Params", ch.id, req, 0)
           v == Packet("Volume", ch.id, req, 0)
<1>1. /\ p \in ToServer /\ p.type \in {"Params", "Volume"} /\ p.utt = 0
      /\ v \in ToServer /\ v.type \in {"Params", "Volume"} /\ v.utt = 0
  BY PacketTyped, ChTyped DEF Packet, TypeOK
<1>2. /\ \/ Sent(p) \/ SendFails \/ UNCHANGED serverVars
         \/ Sent(v)
      /\ UNCHANGED <<queue, held>>
  BY DEF SendParams, SendVolume, SendIf, queueVars, readerVars
<1> HIDE DEF p, v
<1> QED
  BY <1>1, <1>2, SentOne

\* What SendText sends.
LEMMA TextSends ==
  ASSUME TypeOK, SendText
  PROVE  \/ Same /\ pc' = "idle"
         \/ \E m \in ToServer : Sends(m) /\ m.type = "Text" /\ m.utt = utt /\ m.chan = ch.id
<1> DEFINE m == Packet("Text", ch.id, req, utt)
<1>1. m \in ToServer /\ m.type = "Text" /\ m.utt = utt /\ m.chan = ch.id
  BY PacketTyped, ChTyped DEF Packet, TypeOK, EngineTypeOK, CallTypes
<1>2. (Sent(m) \/ (SendFails /\ pc' = "idle")) /\ UNCHANGED <<queue, held>>
  BY DEF SendText, queueVars, readerVars, Return
<1>3. ASSUME Sent(m) PROVE Sends(m)
  BY <1>2, <1>3, StillStream DEF Sent, Accepts, Sends
<1>4. CASE SendFails /\ pc' = "idle"
  BY <1>2, <1>4, StillStream DEF SendFails, serverVars, Same
<1> HIDE DEF m
<1> QED
  BY <1>1, <1>2, <1>3, <1>4

\* What the two callers of cancel() send.
LEMMA DiscardSends ==
  ASSUME TypeOK, SinkCancel \/ CancelSends
  PROVE  Same \/ \E m \in ToServer : Sends(m) /\ m.type = "Discard" /\ m.utt = 0
<1> DEFINE a == Packet("Discard", activeChannel, NoRequest, 0)
           t == Packet("Discard", target, NoRequest, 0)
<1>0. activeChannel \in Nat /\ target \in Nat
  BY DEF TypeOK, EngineTypeOK, CacheTypes, CancelTypes
<1>1. /\ a \in ToServer /\ a.type = "Discard" /\ a.utt = 0
      /\ t \in ToServer /\ t.type = "Discard" /\ t.utt = 0
  BY <1>0, PacketTyped DEF Packet, TypeOK
<1>2. /\ \/ Sent(a) \/ SendFails \/ UNCHANGED serverVars
         \/ Sent(t)
      /\ UNCHANGED <<queue, held>>
  BY DEF SinkCancel, CancelSends, queueVars, readerVars
<1> HIDE DEF a, t
<1> QED
  BY <1>1, <1>2, SentOne

\* The two loops take the oldest packet, or give up without one.
LEMMA CallerTakesOne ==
  ASSUME TypeOK, OpenChannelWaits \/ LoopTakes
  PROVE  Takes \/ (Same /\ OpenChannelWaits)
<1>1. UNCHANGED <<up, inPipe, outPipe, jobs, held>>
  BY DEF OpenChannelWaits, LoopTakes, serverVars, readerVars
<1>2. CASE Pops
  BY <1>1, <1>2, PopsStream DEF Takes
<1>3. CASE GivesUp /\ OpenChannelWaits
  BY <1>1, <1>3, StillStream DEF GivesUp, queueVars, Same
<1> QED
  BY <1>2, <1>3 DEF OpenChannelWaits, LoopTakes

\* The queue, or the pipe, is emptied; what is left was in the stream.
LEMMA Emptied ==
  ASSUME TypeOK, ThreadInv, ChildInv,
         DropLeftovers \/ JoinReader \/ ClearState \/ KillChild \/ Launch
  PROVE  /\ \A i \in DOMAIN Stream' : \E k \in DOMAIN Stream : Stream'[i] = Stream[k]
         /\ inPipe' = <<>> \/ (inPipe' = inPipe /\ jobs' = jobs)
         /\ jobs' = <<>> \/ jobs' = jobs
         /\ ClearState => Stream' = <<>> /\ inPipe' = <<>> /\ jobs' = <<>>
         /\ Launch => Stream' = <<>> /\ inPipe' = <<>> /\ jobs' = <<>>
<1>0. /\ queue \in Seq(FromServer) /\ held \in Seq(FromServer)
      /\ outPipe \in Seq(FromServer)
      /\ Stream \in Seq(FromServer) /\ <<>> \in Seq(FromServer)
  BY PipesTyped, ConcatEmptySeq
<1>1. CASE DropLeftovers
  <2>1. queue' = <<>> /\ UNCHANGED <<held, outPipe, inPipe, jobs>>
    BY <1>1 DEF DropLeftovers, serverVars, readerVars
  <2>2. held \o outPipe \in Seq(FromServer) /\ <<>> \o held = held
    BY <1>0, ConcatProperties, ConcatEmptySeq
  <2>3. Stream' = held \o outPipe
    BY <2>1, <2>2 DEF Stream
  <2>4. Stream = queue \o (held \o outPipe)
    BY <1>0, ConcatAssociative DEF Stream
  <2>5. ASSUME NEW i \in DOMAIN Stream' PROVE \E k \in DOMAIN Stream : Stream'[i] = Stream[k]
    <3> DEFINE r == held \o outPipe
    <3>1. /\ Len(queue) \in Nat /\ Len(r) \in Nat /\ DOMAIN r = 1..Len(r)
          /\ DOMAIN Stream = 1..Len(Stream) /\ Len(Stream) = Len(queue) + Len(r)
          /\ \A k \in 1..(Len(queue) + Len(r)) :
                 Stream[k] = IF k <= Len(queue) THEN queue[k] ELSE r[k - Len(queue)]
      BY <1>0, <2>2, <2>4, ConcatProperties, LenProperties
    <3> HIDE DEF r
    <3>2. i \in 1..Len(r) /\ Stream'[i] = r[i]
      BY <2>3, <2>5, <3>1 DEF r
    <3>3. Len(queue) + i \in DOMAIN Stream /\ Stream[Len(queue) + i] = r[i]
      BY <3>1, <3>2
    <3> QED
      BY <3>2, <3>3
  <2> QED
    BY <1>1, <2>1, <2>5 DEF DropLeftovers, ClearState, Launch
<1>2. CASE JoinReader
  <2>1. /\ outPipe' = <<>> /\ UNCHANGED <<held, queue, inPipe, jobs>>
        /\ reader # "reading" /\ pc = "joinReader"
    BY <1>2 DEF JoinReader, queueVars
  <2>2. held = <<>>
    BY <2>1 DEF ThreadInv, ReaderJoined
  <2>3. Stream' = queue
    BY <1>0, <2>1, <2>2, ConcatEmptySeq DEF Stream
  <2>4. Stream = queue \o outPipe
    BY <1>0, <2>2, ConcatEmptySeq DEF Stream
  <2>5. \A i \in DOMAIN queue : i \in DOMAIN Stream /\ Stream[i] = queue[i]
    <3>1. /\ Len(queue) \in Nat /\ Len(outPipe) \in Nat /\ DOMAIN queue = 1..Len(queue)
          /\ DOMAIN Stream = 1..Len(Stream) /\ Len(Stream) = Len(queue) + Len(outPipe)
          /\ \A k \in 1..(Len(queue) + Len(outPipe)) :
                 Stream[k] = IF k <= Len(queue) THEN queue[k] ELSE outPipe[k - Len(queue)]
      BY <1>0, <2>4, ConcatProperties, LenProperties
    <3> QED
      BY <3>1
  <2> QED
    BY <1>2, <2>1, <2>3, <2>5 DEF JoinReader, ClearState, Launch
<1>3. CASE ClearState
  <2>1. queue' = <<>> /\ UNCHANGED <<held, outPipe, inPipe, jobs>> /\ pc = "clear"
    BY <1>3 DEF ClearState, serverVars, readerVars
  <2>2. held = <<>> /\ outPipe = <<>> /\ jobs = <<>> /\ inPipe = <<>>
    BY <2>1 DEF ThreadInv, ReaderJoined, ChildInv
  <2>3. Stream' = <<>>
    BY <1>0, <2>1, <2>2, ConcatEmptySeq DEF Stream
  <2> QED
    BY <2>1, <2>2, <2>3
<1>4. CASE KillChild
  <2>1. UNCHANGED <<queue, held, outPipe>> /\ pc = "killChild"
    BY <1>4 DEF KillChild, Kill, serverVars, queueVars, readerVars
  <2>2. Stream' = Stream
    BY <2>1, StillStream
  <2>3. (inPipe' = <<>> /\ jobs' = <<>>) \/ (inPipe' = inPipe /\ jobs' = jobs)
    BY <1>4 DEF KillChild, Kill, serverVars
  <2> QED
    BY <2>1, <2>2, <2>3 DEF ClearState, Launch
<1>5. CASE Launch
  <2>1. pc = "launch" /\ UNCHANGED <<queue, held>>
    BY <1>5 DEF Launch
  <2>2. queue = <<>> /\ held = <<>> /\ outPipe = <<>> /\ jobs = <<>> /\ inPipe = <<>>
    BY <2>1 DEF ThreadInv, ReaderJoined, ChildInv
  <2>3. outPipe' = <<>> /\ inPipe' = <<>> /\ jobs' = <<>>
    BY <1>5, <2>2 DEF Launch, LaunchStarts, Spawn, serverVars
  <2>4. Stream' = <<>>
    BY <1>0, <2>1, <2>2, <2>3, ConcatEmptySeq DEF Stream
  <2> QED
    BY <2>3, <2>4
<1> QED
  BY <1>1, <1>2, <1>3, <1>4, <1>5

-----------------------------------------------------------------------------
\* Every step keeps the ghosts of the packets, and the stream the call's own.

\* Every step keeps the ghosts of the packets.
LEMMA GhostStep ==
  ASSUME TypeOK, ThreadInv, ChildInv, GhostInv, ~IdleDiscardEnds, [Next]_vars PROVE GhostInv'
<1>0. /\ inPipe \in Seq(ToServer) /\ Stream \in Seq(FromServer)
  BY PipesTyped
<1>1. CASE Moves
  BY <1>1, MovesSame, SameKeeps
<1>2. CASE SendOpen
  <2>1. CASE Same
    BY <2>1, SameKeeps
  <2>2. CASE ~Same
    <3>1. PICK m \in ToServer : Sends(m) /\ m.utt = 0
      BY <1>2, <2>2, SendOpenSends
    <3> QED
      BY <3>1, SendKeeps
  <2> QED
    BY <2>1, <2>2
<1>3. CASE SendParams \/ SendVolume
  <2>1. CASE Same
    BY <2>1, SameKeeps
  <2>2. CASE ~Same
    <3>1. PICK m \in ToServer : Sends(m) /\ m.utt = 0
      BY <1>3, <2>2, AdjustSends
    <3> QED
      BY <3>1, SendKeeps
  <2> QED
    BY <2>1, <2>2
<1>4. CASE SendText
  <2>1. CASE Same
    BY <2>1, SameKeeps
  <2>2. CASE ~Same
    <3>1. PICK m \in ToServer : Sends(m) /\ m.type = "Text"
      BY <1>4, <2>2, TextSends
    <3> QED
      BY <3>1, SendKeeps
  <2> QED
    BY <2>1, <2>2
<1>5. CASE SinkCancel \/ CancelSends
  <2>1. CASE Same
    BY <2>1, SameKeeps
  <2>2. CASE ~Same
    <3>1. PICK m \in ToServer : Sends(m) /\ m.utt = 0
      BY <1>5, <2>2, DiscardSends
    <3> QED
      BY <3>1, SendKeeps
  <2> QED
    BY <2>1, <2>2
<1>6. CASE OpenChannelWaits \/ LoopTakes
  BY <1>6, CallerTakesOne, TakeKeeps, SameKeeps
<1>7. CASE DropLeftovers \/ JoinReader \/ ClearState \/ KillChild \/ Launch
  <2>1. /\ \A i \in DOMAIN Stream' : \E k \in DOMAIN Stream : Stream'[i] = Stream[k]
        /\ inPipe' = <<>> \/ inPipe' = inPipe
    BY <1>7, Emptied
  <2> QED
    BY <2>1 DEF GhostInv
<1>8. CASE ServerSteps
  <2>1. /\ inPipe' = inPipe \/ inPipe' = <<>> \/ (inPipe # <<>> /\ inPipe' = Tail(inPipe))
    BY <1>8, Reading, ServerKinds DEF Opened, Adjusts, TookText, Cuts, Renders, Ends,
       Falls
  <2>2. \A i \in DOMAIN inPipe' : inPipe'[i].type # "Text" => inPipe'[i].utt = 0
    <3>1. CASE inPipe # <<>> /\ inPipe' = Tail(inPipe)
      <4>1. \A i \in DOMAIN inPipe' : i + 1 \in DOMAIN inPipe /\ inPipe'[i] = inPipe[i + 1]
        BY <1>0, <3>1, TakenAt
      <4> QED
        BY <4>1 DEF GhostInv
    <3> QED
      BY <2>1, <3>1 DEF GhostInv
  <2>3. \/ Stream' = Stream
        \/ \E p \in FromServer :
             /\ Stream' = Append(Stream, p)
             /\ p.type = "OpenNotify" => p.utt = 0 /\ p.cut = FALSE /\ p.end = FALSE
    <3>1. CASE Opened
      BY <3>1 DEF Opened
    <3>2. CASE Renders
      <4>1. PICK p \in FromServer : Stream' = Append(Stream, p) /\ p.type \in Packets
        BY <3>2 DEF Renders
      <4> QED
        BY <4>1 DEF Packets
    <3>3. CASE Ends
      BY <3>3 DEF Ends
    <3>4. CASE Adjusts \/ TookText \/ Cuts \/ Falls
      BY <3>4 DEF Adjusts, TookText, Cuts, Falls
    <3> QED
      BY <1>8, <3>1, <3>2, <3>3, <3>4, ServerKinds
  <2>4. \A i \in DOMAIN Stream' : Stream'[i].type = "OpenNotify" =>
          Stream'[i].utt = 0 /\ Stream'[i].cut = FALSE /\ Stream'[i].end = FALSE
    <3>1. CASE Stream' = Stream
      BY <3>1 DEF GhostInv
    <3>2. CASE Stream' # Stream
      <4>1. PICK p \in FromServer :
              /\ Stream' = Append(Stream, p)
              /\ p.type = "OpenNotify" => p.utt = 0 /\ p.cut = FALSE /\ p.end = FALSE
        BY <2>3, <3>2
      <4>2. \A i \in DOMAIN Stream' :
                (i \in DOMAIN Stream /\ Stream'[i] = Stream[i]) \/ Stream'[i] = p
        BY <1>0, <4>1, AddedAt
      <4> QED
        BY <4>1, <4>2 DEF GhostInv
    <3> QED
      BY <3>1, <3>2
  <2> QED
    BY <2>2, <2>4 DEF GhostInv
<1> QED
  BY <1>1, <1>2, <1>3, <1>4, <1>5, <1>6, <1>7, <1>8 DEF Next, Speak, Moves, Canceller,
     Over

\* The caller's own steps keep StreamInv.
LEMMA StreamCaller ==
  ASSUME TypeOK, ThreadInv, ChildInv, CallInv, GhostInv, StreamInv, Prompt, NoLostWakeup, Moves
  PROVE  StreamInv'
<1>0. Same
  BY MovesSame
<1> USE DEF Preparing, Rendering, Closing, Waiting
<1>1. CASE \/ \E r \in Requests : SpeakStarts(r)
           \/ EnsureRunning \/ CloseStdin \/ Lookup \/ Arm \/ Activate
  <2>1. late' = late /\ ~late
    BY <1>1 DEF SpeakStarts, EnsureRunning, CloseStdin, Lookup, Arm, Activate,
       waitVars, CallInv
  <2>2. /\ pc' \in Preparing \cup {"idle"} => pc \in Preparing \cup {"idle"}
        /\ pc' \notin Rendering
    BY <1>1 DEF SpeakStarts, EnsureRunning, CloseStdin, Lookup, Arm, Activate
  <2>3. pc' # "sinkCancel"
    BY <2>2
  <2> QED
    BY <1>0, <2>1, <2>2, <2>3, SameKeeps DEF StreamInv
<1>2. CASE LoopTop
  <2>1. /\ pc = "loop" /\ pc' = "wait" /\ CallSame /\ late' = late
    BY <1>2 DEF LoopTop, CallSame, callVars, cacheVars, renderVars, waitVars
  <2> QED
    BY <1>0, <2>1, SameKeeps DEF StreamInv
<1>3. CASE LoopGivesUp
  <2>1. /\ pc = "wait" /\ late' = FALSE /\ pc' \in {"idle", "closeStdin"}
        /\ pc' = "idle" => late /\ consumed
    BY <1>3 DEF LoopGivesUp, GivesUp, StreamEnds, Return, CallInv
  <2>2. pc' = "idle" => Quietly
    <3>1. ASSUME pc' = "idle" PROVE Quietly
      <4>1. Mine /\ Nothing /\ consumed
        BY <2>1, <3>1 DEF StreamInv
      <4>2. NoText(inPipe) /\ Silent(Stream) /\ jobs = <<>>
        BY <4>1 DEF Mine, TextMine, Nothing, NoText, Silent
      <4> QED
        BY <4>2 DEF Quietly
    <3> QED
      BY <3>1
  <2> QED
    BY <1>0, <2>1, <2>2, SameKeeps DEF StreamInv
<1>4. CASE WaitExpires
  <2>1. /\ UNCHANGED <<pc, ending>> /\ CallSame /\ pc \in Waiting
    BY <1>4 DEF WaitExpires, CallSame, callVars, cacheVars, renderVars, ThreadInv
  <2>2. Nothing
    <3>1. held = <<>> /\ outPipe = <<>> /\ queue = <<>>
      BY <1>4 DEF WaitExpires, Quiet, NoLostWakeup
    <3>2. jobs = <<>> /\ (up = "up" => inPipe = <<>>)
      BY <1>4 DEF WaitExpires, Quiet, ChildInv
    <3>3. Stream = <<>>
      BY <3>1, EmptyStream
    <3> QED
      BY <3>2, <3>3 DEF Nothing
  <2> QED
    BY <1>0, <2>1, <2>2, SameKeeps DEF StreamInv
<1>5. CASE Reader \/ UNCHANGED vars \/ CancelStarts \/ CancelReads \/ CancelSignals \/
            WaitBlocks \/ WaitWakes
  <2>1. /\ UNCHANGED <<pc, ending, late>> /\ CallSame
    BY <1>5 DEF Reader, ReaderReads, ReaderPushes, ReaderFails, ReaderSignals,
       CancelStarts, CancelReads, CancelSignals, WaitBlocks, WaitWakes, vars, CallSame,
       callVars, cacheVars, renderVars, waitVars
  <2> QED
    BY <1>0, <2>1, SameKeeps DEF StreamInv
<1> QED
  BY <1>1, <1>2, <1>3, <1>4, <1>5 DEF Moves, Wait

\* So do the steps that send.
LEMMA StreamSends ==
  ASSUME TypeOK, CallInv, GhostInv, StreamInv,
         SendOpen \/ SendParams \/ SendVolume \/ SendText \/ SinkCancel \/ CancelSends
  PROVE  StreamInv'
<1> USE DEF Preparing, Rendering, Closing, Waiting
<1>1. CASE SendOpen \/ SendParams \/ SendVolume
  <2>1. Same \/ \E m \in ToServer : Sends(m) /\ m.type # "Text"
    <3>1. CASE SendOpen
      BY <3>1, SendOpenSends
    <3>2. CASE SendParams \/ SendVolume
      BY <3>2, AdjustSends
    <3> QED
      BY <1>1, <3>1, <3>2
  <2>2. /\ pc \in Preparing /\ pc' \in Preparing \cup {"idle"} /\ late' = late /\ ~late
    BY <1>1 DEF SendOpen, SendParams, SendVolume, SendIf, Return, waitVars, CallInv
  <2>3. Quietly
    BY <2>2 DEF StreamInv
  <2>4. Quietly'
    BY <2>1, <2>3, SameKeeps, SendKeeps
  <2> QED
    BY <2>2, <2>4 DEF StreamInv
<1>2. CASE SendText
  <2>1. /\ pc = "text" /\ pc' \in {"loop", "idle"} /\ late' = late /\ ~late /\ CallSame
        /\ ~consumed /\ pending = <<>>
    BY <1>2 DEF SendText, Return, waitVars, CallInv, FreshCall, CallSame, callVars,
       cacheVars, renderVars
  <2>2. Quietly
    BY <2>1 DEF StreamInv
  <2>3. CASE Same /\ pc' = "idle"
    BY <2>1, <2>2, <2>3, SameKeeps DEF StreamInv
  <2>4. CASE ~(Same /\ pc' = "idle")
    <3>1. PICK m \in ToServer : Sends(m) /\ m.type = "Text" /\ m.utt = utt /\ m.chan = ch.id
      BY <1>2, <2>4, TextSends
    <3>2. Mine'
      BY <2>1, <2>2, <3>1, TextSent
    <3>3. pc' = "loop"
      <4>1. CASE pc' = "idle"
        <5>1. SendFails
          BY <1>2, <4>1 DEF SendText
        <5>2. inPipe' = inPipe
          BY <5>1 DEF SendFails, serverVars
        <5>3. inPipe' = Append(inPipe, m) /\ inPipe \in Seq(ToServer)
          BY <3>1, PipesTyped DEF Sends
        <5>4. Len(Append(inPipe, m)) = Len(inPipe) + 1 /\ Len(inPipe) \in Nat
          BY <5>3, AppendAt
        <5> QED
          BY <5>2, <5>3, <5>4
      <4> QED
        BY <2>1, <4>1
    <3> QED
      BY <2>1, <3>2, <3>3 DEF StreamInv
  <2> QED
    BY <2>3, <2>4
<1>3. CASE SinkCancel
  <2>1. /\ pc = "sinkCancel" /\ pc' = IF ending THEN "idle" ELSE "loop"
        /\ late' = late /\ ~late /\ CallSame
    BY <1>3 DEF SinkCancel, StreamEnds, Return, waitVars, CallInv, CallSame, callVars,
       renderVars
  <2>2. Same \/ \E m \in ToServer : Sends(m) /\ m.type = "Discard"
    BY <1>3, DiscardSends
  <2>3. Mine' /\ (Quietly => Quietly')
    BY <2>1, <2>2, SameKeeps, SendKeeps DEF StreamInv
  <2> QED
    BY <2>1, <2>3 DEF StreamInv
<1>4. CASE CancelSends
  <2>1. UNCHANGED <<pc, ending, late>> /\ CallSame
    BY <1>4 DEF CancelSends, CallSame, callVars, cacheVars, renderVars, waitVars
  <2>2. Same \/ \E m \in ToServer : Sends(m) /\ m.type = "Discard"
    BY <1>4, DiscardSends
  <2>3. /\ Quietly => Quietly'
        /\ Mine => Mine'
        /\ Nothing => Nothing'
    BY <2>1, <2>2, SameKeeps, SendKeeps
  <2> QED
    BY <2>1, <2>3 DEF StreamInv
<1> QED
  BY <1>1, <1>2, <1>3, <1>4

-----------------------------------------------------------------------------
\* The sink hears only its own text.

\* What speakOnce does with the packet it takes.
LEMMA LoopTakesTo ==
  ASSUME TypeOK, GhostInv, Mine, pc = "wait", LoopTakes
  PROVE  /\ UNCHANGED <<utt, req, channels, cancelRequested>> /\ late' = FALSE
         /\ pc' \in {"idle", "loop", "sinkCancel"}
         /\ Head(queue).type = "OpenNotify" =>
              UNCHANGED <<consumed, pending, emitted, lastMark, sinkAborted>> /\ pc' = "loop"
         /\ pc' = "idle" \/ (pc' = "sinkCancel" /\ ending') => Head(queue).end = TRUE
         /\ emitted' # emitted => Head(queue).type = "Audio"
<1> DEFINE p == Head(queue)
<1>1. /\ Pops /\ UNCHANGED <<utt, req, channels, cancelRequested>>
      /\ IF p.type = "Audio" /\ ~Foreign(p) THEN Audio(p) ELSE OtherPacket(p)
  BY DEF LoopTakes, callVars
<1>2. late' = FALSE
  BY <1>1 DEF Pops
<1>3. p \in FromServer /\ p.end \in BOOLEAN
  <2>1. queue \in Seq(FromServer) /\ queue # <<>>
    BY <1>1, PipesTyped DEF Pops
  <2>2. p \in FromServer
    BY <2>1, TailAt
  <2> QED
    BY <2>2 DEF FromServer
<1>4. CASE p.type = "Audio" /\ ~Foreign(p)
  <2>1. Audio(p)
    BY <1>1, <1>4
  <2>2. /\ pc' \in {"idle", "loop", "sinkCancel"}
        /\ pc' = "idle" \/ (pc' = "sinkCancel" /\ ending') => p.end = TRUE
    <3>1. CASE discarding \/ sinkAborted
      BY <1>3, <2>1, <3>1 DEF Audio, StreamEnds, Return
    <3>2. CASE ~(discarding \/ sinkAborted)
      <4>1. PICK accepted \in BOOLEAN : AudioTo(p, accepted)
        BY <2>1, <3>2 DEF Audio
      <4> QED
        BY <1>3, <4>1 DEF AudioTo, StreamEnds, Return
    <3> QED
      BY <3>1, <3>2
  <2> QED
    BY <1>1, <1>2, <1>4, <2>2
<1>5. CASE ~(p.type = "Audio" /\ ~Foreign(p))
  <2>1. OtherPacket(p)
    BY <1>1, <1>5
  <2>2. /\ pc' = "loop" /\ UNCHANGED <<emitted, lastMark, sinkAborted>>
        /\ p.type = "OpenNotify" => UNCHANGED <<consumed, pending>>
    BY <2>1 DEF OtherPacket
  <2> QED
    BY <1>1, <1>2, <2>2
<1> QED
  BY <1>4, <1>5

\* So do the two loops.
LEMMA StreamTakes ==
  ASSUME TypeOK, CallInv, GhostInv, StreamInv, OpenChannelWaits \/ LoopTakes
  PROVE  StreamInv'
<1> USE DEF Preparing, Rendering
<1>1. CASE OpenChannelWaits
  <2>1. pc = "waitOpen" /\ pc' \in {"waitOpen", "arm", "idle"} /\ late' = FALSE
    BY <1>1 DEF OpenChannelWaits, Pops, GivesUp, Return
  <2>2. Quietly
    BY <2>1 DEF StreamInv
  <2>3. Quietly'
    BY <1>1, <2>2, CallerTakesOne, SameKeeps, TakeKeeps
  <2> QED
    BY <2>1, <2>3 DEF StreamInv
<1>2. CASE LoopTakes
  <2>1. pc = "wait" /\ Mine /\ Takes
    BY <1>2, CallerTakesOne DEF LoopTakes, StreamInv, OpenChannelWaits
  <2>2. /\ UNCHANGED <<utt, req, channels>> /\ late' = FALSE
        /\ pc' \in {"idle", "loop", "sinkCancel"}
        /\ Head(queue).type = "OpenNotify" => UNCHANGED <<consumed, pending>>
        /\ pc' = "idle" \/ (pc' = "sinkCancel" /\ ending') => Head(queue).end = TRUE
    BY <1>2, <2>1, LoopTakesTo
  <2>3. Mine'
    BY <2>1, <2>2, TakeKeeps
  <2>4. Head(queue).end = TRUE => Quietly'
    BY <2>1, LastTaken
  <2> QED
    BY <2>2, <2>3, <2>4 DEF StreamInv
<1> QED
  BY <1>1, <1>2

\* So do the steps that empty the queue or the pipe.
LEMMA StreamEmptied ==
  ASSUME TypeOK, ThreadInv, ChildInv, CallInv, StreamInv,
         DropLeftovers \/ JoinReader \/ ClearState \/ KillChild \/ Launch
  PROVE  StreamInv'
<1> USE DEF Preparing, Rendering, Closing, Waiting
<1>1. late' = late /\ ~late
  BY DEF DropLeftovers, JoinReader, ClearState, KillChild, Launch, waitVars, CallInv
<1>2. CASE ClearState \/ Launch
  <2>1. Stream' = <<>> /\ inPipe' = <<>> /\ jobs' = <<>>
    BY <1>2, Emptied
  <2>2. Quietly'
    BY <2>1 DEF Quietly, NoText, Silent
  <2>3. pc' \notin Rendering
    BY <1>2 DEF ClearState, Launch, Return
  <2> QED
    BY <1>1, <2>2, <2>3 DEF StreamInv
<1>3. CASE JoinReader \/ KillChild
  <2>1. pc' \in Closing
    BY <1>3 DEF JoinReader, KillChild
  <2> QED
    BY <1>1, <2>1 DEF StreamInv
<1>4. CASE DropLeftovers
  <2>1. pc = "drop" /\ pc' = "params" /\ UNCHANGED <<inPipe, jobs>>
    BY <1>4 DEF DropLeftovers, serverVars
  <2>2. \A i \in DOMAIN Stream' : \E k \in DOMAIN Stream : Stream'[i] = Stream[k]
    BY <1>4, Emptied
  <2>3. Quietly
    BY <2>1 DEF StreamInv
  <2>4. Quietly'
    BY <2>1, <2>2, <2>3 DEF Quietly, NoText, Silent
  <2> QED
    BY <1>1, <2>1, <2>4 DEF StreamInv
<1> QED
  BY <1>2, <1>3, <1>4

\* So does the child.
LEMMA StreamServer ==
  ASSUME TypeOK, GhostInv, StreamInv, ~IdleDiscardEnds, ServerSteps PROVE StreamInv'
<1>1. UNCHANGED <<pc, ending, late>>
  BY DEF ServerSteps, renderVars, waitVars
<1> QED
  BY <1>1, QuietServer, MineServer, NothingServer DEF StreamInv

\* StreamInv is inductive; Prompt is what keeps a deadline from passing early.
LEMMA StreamStep ==
  ASSUME TypeOK, ThreadInv, NoLostWakeup, ChildInv, CallInv, GhostInv, StreamInv,
         Prompt, ~IdleDiscardEnds, [Next]_vars
  PROVE  StreamInv'
<1>1. CASE Moves
  BY <1>1, StreamCaller
<1>2. CASE SendOpen \/ SendParams \/ SendVolume \/ SendText \/ SinkCancel \/ CancelSends
  BY <1>2, StreamSends
<1>3. CASE OpenChannelWaits \/ LoopTakes
  BY <1>3, StreamTakes
<1>4. CASE DropLeftovers \/ JoinReader \/ ClearState \/ KillChild \/ Launch
  BY <1>4, StreamEmptied
<1>5. CASE ServerSteps
  BY <1>5, StreamServer
<1> QED
  BY <1>1, <1>2, <1>3, <1>4, <1>5 DEF Next, Speak, Moves, Canceller, Over

\* The whole inductive invariant.
LifeInv == ThreadInv /\ NoLostWakeup /\ ChildInv /\ CallInv /\ GhostInv

\* The invariant holds at the start.
LEMMA LifeInit == Init => LifeInv /\ StreamInv
<1> SUFFICES ASSUME Init PROVE LifeInv /\ StreamInv
  OBVIOUS
<1>1. ThreadInv /\ NoLostWakeup
  BY DEF Init, ServerInit, ThreadInv, OnlyThisChild, ReaderJoined, FromThisChild,
     Closing, NoLostWakeup
<1>2. ChildInv /\ CallInv
  BY DEF Init, ServerInit, ChildInv, CallInv, FreshCall, Preparing, Closing, Waiting
<1>3. Stream = <<>>
  BY InitTyped, EmptyStream DEF Init, ServerInit
<1>4. GhostInv
  BY <1>3 DEF Init, ServerInit, GhostInv
<1>5. StreamInv
  BY <1>3 DEF Init, ServerInit, StreamInv, Quietly, NoText, Silent, Rendering
<1> QED
  BY <1>1, <1>2, <1>4, <1>5 DEF LifeInv

\* The part of the invariant that holds whatever the child's pace.
LEMMA LifeStep ==
  ASSUME TypeOK, LifeInv, ~IdleDiscardEnds, [Next]_vars PROVE LifeInv'
BY ThreadStep, WakeupStep, ChildStep, CallStep, GhostStep DEF LifeInv

\* A prompt child's stream is that of the call.
LEMMA StreamSafe ==
  ASSUME Prompt, ~IdleDiscardEnds PROVE Safety => [](TypeOK /\ LifeInv /\ StreamInv)
<1>1. Init => LifeInv /\ StreamInv
  BY LifeInit
<1>2. TypeOK /\ LifeInv /\ StreamInv /\ [Next]_vars => LifeInv' /\ StreamInv'
  BY LifeStep, StreamStep DEF LifeInv
<1> QED
  BY <1>1, <1>2, TypeCorrect, PTL DEF Safety

\* Only speakOnce, and only with the packet at the head of the queue, gives the sink audio.
LEMMA SoundFrom ==
  ASSUME TypeOK, LifeInv, StreamInv, [Next]_vars, emitted' > emitted
  PROVE  Head(queue).utt = utt
<1>1. LoopTakes
  <2>1. emitted \in Nat
    BY DEF TypeOK, EngineTypeOK, RenderTypes
  <2>2. CASE \E r \in Requests : SpeakStarts(r)
    BY <2>1, <2>2 DEF SpeakStarts
  <2>3. CASE Speak /\ ~LoopTakes
    <3>1. emitted' = emitted
      BY <2>3 DEF Speak, EnsureRunning, CloseStdin, KillChild, JoinReader, ClearState,
         Launch, Lookup, SendOpen, OpenChannelWaits, Arm, Activate, DropLeftovers,
         SendParams, SendVolume, SendIf, SendText, LoopTop, LoopGivesUp, SinkCancel,
         renderVars
    <3> QED
      BY <2>1, <3>1
  <2>4. CASE Wait \/ Reader \/ Canceller \/ ServerSteps \/ UNCHANGED vars
    <3>1. emitted' = emitted
      BY <2>4 DEF Wait, WaitBlocks, WaitWakes, WaitExpires, Reader, ReaderReads,
         ReaderPushes, ReaderFails, ReaderSignals, Canceller, CancelStarts, CancelReads,
         CancelSends, CancelSignals, ServerSteps, vars, renderVars
    <3> QED
      BY <2>1, <3>1
  <2> QED
    BY <2>2, <2>3, <2>4 DEF Next, Over
<1>2. pc = "wait" /\ Mine /\ Takes /\ GhostInv
  BY <1>1, CallerTakesOne DEF LoopTakes, StreamInv, OpenChannelWaits, Rendering, LifeInv
<1>3. Head(queue).type = "Audio"
  <2>1. emitted' # emitted
    BY DEF TypeOK, EngineTypeOK, RenderTypes
  <2> QED
    BY <1>1, <1>2, <2>1, LoopTakesTo
<1>4. Head(queue) = Stream[1] /\ 1 \in DOMAIN Stream
  BY <1>2, PipesTyped, TakenAt DEF Takes
<1> QED
  BY <1>2, <1>3, <1>4 DEF Mine, SaidMine, Owns

\* The sink hears only the text it was called for, never the leftovers of an earlier
\* utterance (speakOnce drops what an aborted one has left in the queue).
THEOREM SinkHearsItsOwn ==
  ASSUME Prompt, ~IdleDiscardEnds PROVE Safety => OwnSound
<1>1. TypeOK /\ LifeInv /\ StreamInv /\ [Next]_vars
        => [emitted' > emitted => Head(queue).utt = utt]_vars
  BY SoundFrom
<1> QED
  BY <1>1, StreamSafe, PTL DEF Safety, OwnSound

-----------------------------------------------------------------------------
\* A call nobody cancels: no part of its text is cut.

\* While nobody cancels, nothing of the text is cut: a Discard still in stdin is a
\* leftover of an earlier call, and will be read before the text.
Uncut ==
  /\ \A i \in DOMAIN Stream : Stream[i].cut = FALSE
  /\ \A i \in DOMAIN jobs : jobs[i].cut = FALSE
  /\ \A i \in DOMAIN inPipe : inPipe[i].type = "Discard" =>
       /\ jobs = <<>>
       /\ \A j \in DOMAIN inPipe : inPipe[j].type = "Text" => i < j

CutInv ==
  /\ canceller = "idle"
  /\ pc \in Rendering /\ ~discarding => Uncut

\* Every part of the stream is in it.
LEMMA PartsIn ==
  ASSUME NEW S, NEW q \in Seq(S), NEW h \in Seq(S), NEW o \in Seq(S),
         NEW s, s = q \o h \o o
  PROVE  /\ \A i \in DOMAIN q : i \in DOMAIN s /\ s[i] = q[i]
         /\ \A i \in DOMAIN h : Len(q) + i \in DOMAIN s /\ s[Len(q) + i] = h[i]
         /\ \A i \in DOMAIN o : Len(q) + Len(h) + i \in DOMAIN s
                               /\ s[Len(q) + Len(h) + i] = o[i]
<1> DEFINE a == q \o h
<1>1. /\ a \in Seq(S) /\ Len(q) \in Nat /\ Len(h) \in Nat /\ Len(o) \in Nat
      /\ DOMAIN q = 1..Len(q) /\ DOMAIN h = 1..Len(h) /\ DOMAIN o = 1..Len(o)
      /\ Len(a) = Len(q) + Len(h)
      /\ \A k \in 1..(Len(q) + Len(h)) : a[k] = IF k <= Len(q) THEN q[k] ELSE h[k - Len(q)]
  BY ConcatProperties, LenProperties
<1>2. s = a \o o
  OBVIOUS
<1> HIDE DEF a
<1>3. /\ DOMAIN s = 1..(Len(a) + Len(o))
      /\ \A k \in 1..(Len(a) + Len(o)) : s[k] = IF k <= Len(a) THEN a[k] ELSE o[k - Len(a)]
  <2>0. a \in Seq(S)
    BY <1>1
  <2>1. /\ a \o o \in Seq(S) /\ Len(a \o o) = Len(a) + Len(o)
        /\ \A k \in 1..(Len(a) + Len(o)) :
               (a \o o)[k] = IF k <= Len(a) THEN a[k] ELSE o[k - Len(a)]
    BY ONLY <2>0, o \in Seq(S), ConcatProperties
  <2>2. DOMAIN (a \o o) = 1..Len(a \o o)
    BY <2>1, LenProperties
  <2> QED
    BY <1>2, <2>1, <2>2
<1>4. ASSUME NEW i \in DOMAIN q PROVE i \in DOMAIN s /\ s[i] = q[i]
  BY <1>1, <1>3
<1>5. ASSUME NEW i \in DOMAIN h PROVE Len(q) + i \in DOMAIN s /\ s[Len(q) + i] = h[i]
  <2>1. /\ i \in 1..Len(h) /\ Len(q) + i \in 1..(Len(q) + Len(h)) /\ ~(Len(q) + i <= Len(q))
        /\ (Len(q) + i) - Len(q) = i
    BY <1>1
  <2>2. a[Len(q) + i] = h[i]
    BY <1>1, <2>1
  <2> QED
    BY <1>1, <1>3, <2>1, <2>2
<1>6. ASSUME NEW i \in DOMAIN o
      PROVE  Len(q) + Len(h) + i \in DOMAIN s /\ s[Len(q) + Len(h) + i] = o[i]
  <2>1. /\ i \in 1..Len(o) /\ Len(a) + i \in 1..(Len(a) + Len(o)) /\ ~(Len(a) + i <= Len(a))
        /\ (Len(a) + i) - Len(a) = i
    BY <1>1
  <2> QED
    BY <1>1, <1>3, <2>1
<1> QED
  BY <1>4, <1>5, <1>6

\* Discards stay before the text when stdin loses its head.
LEMMA DiscardTail ==
  ASSUME TypeOK, Uncut, inPipe # <<>>, inPipe' = Tail(inPipe), jobs = <<>> => jobs' = <<>>
  PROVE  \A i \in DOMAIN inPipe' : inPipe'[i].type = "Discard" =>
           /\ jobs' = <<>>
           /\ \A j \in DOMAIN inPipe' : inPipe'[j].type = "Text" => i < j
<1>1. \A i \in DOMAIN inPipe' : /\ i \in Nat /\ i + 1 \in DOMAIN inPipe
                                /\ inPipe'[i] = inPipe[i + 1]
  BY PipesTyped, TakenAt
<1> SUFFICES ASSUME NEW i \in DOMAIN inPipe', inPipe'[i].type = "Discard"
             PROVE  jobs' = <<>> /\ \A j \in DOMAIN inPipe' : inPipe'[j].type = "Text" => i < j
  OBVIOUS
<1>2. i \in Nat /\ i + 1 \in DOMAIN inPipe /\ inPipe[i + 1].type = "Discard"
  BY <1>1
<1>3. jobs = <<>> /\ \A j \in DOMAIN inPipe : inPipe[j].type = "Text" => i + 1 < j
  BY <1>2 DEF Uncut
<1>4. ASSUME NEW j \in DOMAIN inPipe', inPipe'[j].type = "Text" PROVE i < j
  <2>1. j \in Nat /\ j + 1 \in DOMAIN inPipe /\ inPipe[j + 1].type = "Text"
    BY <1>1, <1>4
  <2>2. i + 1 < j + 1
    BY <1>3, <2>1
  <2> QED
    BY <1>2, <2>1, <2>2
<1> QED
  BY <1>3, <1>4

\* The child cuts no text unasked.
LEMMA CutServer ==
  ASSUME TypeOK, ~IdleDiscardEnds, Mine, Uncut, ServerSteps PROVE Uncut'
<1>0. /\ inPipe \in Seq(ToServer) /\ Stream \in Seq(FromServer) /\ jobs \in Seq(Job)
      /\ DOMAIN jobs = 1..Len(jobs) /\ Len(jobs) \in Nat
  BY PipesTyped, LenProperties
<1>1. jobs' \in Seq(Job) /\ DOMAIN jobs' = 1..Len(jobs') /\ Len(jobs') \in Nat
  <2>1. jobs' \in Seq(Job)
    BY StepTyped DEF Next, TypeOK, ServerTypeOK
  <2> QED
    BY <2>1, LenProperties
<1>2. jobs # <<>> => \A i \in DOMAIN inPipe : inPipe[i].type # "Discard"
  BY DEF Uncut
<1>3. CASE Opened
  <2>1. inPipe # <<>> /\ inPipe' = Tail(inPipe) /\ jobs' = jobs
    BY <1>3, Reading DEF Opened
  <2>2. PICK p \in FromServer : Stream' = Append(Stream, p) /\ p.cut = FALSE
    BY <1>3 DEF Opened
  <2>3. \A i \in DOMAIN Stream' :
            (i \in DOMAIN Stream /\ Stream'[i] = Stream[i]) \/ Stream'[i] = p
    BY <1>0, <2>2, AddedAt
  <2>4. \A i \in DOMAIN inPipe' : inPipe'[i].type = "Discard" =>
           /\ jobs' = <<>>
           /\ \A j \in DOMAIN inPipe' : inPipe'[j].type = "Text" => i < j
    BY <2>1, DiscardTail
  <2> QED
    BY <2>1, <2>2, <2>3, <2>4 DEF Uncut
<1>4. CASE Adjusts
  <2>1. inPipe # <<>> /\ inPipe' = Tail(inPipe) /\ jobs' = jobs /\ Stream' = Stream
    BY <1>4, Reading DEF Adjusts
  <2>4. \A i \in DOMAIN inPipe' : inPipe'[i].type = "Discard" =>
           /\ jobs' = <<>>
           /\ \A j \in DOMAIN inPipe' : inPipe'[j].type = "Text" => i < j
    BY <2>1, DiscardTail
  <2> QED
    BY <2>1, <2>4 DEF Uncut
<1>5. CASE TookText
  <2>1. /\ inPipe # <<>> /\ inPipe' = Tail(inPipe) /\ Stream' = Stream
        /\ 1 \in DOMAIN inPipe /\ inPipe[1].type = "Text"
    BY <1>5, Reading DEF TookText
  <2>2. \A i \in DOMAIN inPipe' : /\ i + 1 \in DOMAIN inPipe
                                  /\ inPipe'[i] = inPipe[i + 1] /\ ~(i + 1 < 1)
                                  /\ i \in Nat
    BY <1>0, <2>1, TakenAt
  <2>3. \A i \in DOMAIN inPipe' : inPipe'[i].type # "Discard"
    BY <2>1, <2>2 DEF Uncut
  <2>4. \A i \in DOMAIN jobs' : jobs'[i].cut = FALSE
    <3>1. CASE jobs' = jobs
      BY <3>1 DEF Uncut
    <3>2. CASE jobs' # jobs
      <4>1. PICK j \in Job : jobs' = Append(jobs, j) /\ j.cut = FALSE
        BY <1>5, <3>2 DEF TookText
      <4>2. \A i \in DOMAIN jobs' : (i \in DOMAIN jobs /\ jobs'[i] = jobs[i]) \/ jobs'[i] = j
        BY <1>0, <4>1, AddedAt
      <4> QED
        BY <4>1, <4>2 DEF Uncut
    <3> QED
      BY <3>1, <3>2
  <2> QED
    BY <2>1, <2>3, <2>4 DEF Uncut
<1>6. CASE Cuts
  <2>1. /\ inPipe # <<>> /\ inPipe' = Tail(inPipe) /\ Stream' = Stream
        /\ Len(jobs') = Len(jobs)
        /\ 1 \in DOMAIN inPipe /\ inPipe[1].type = "Discard"
    BY <1>6, Reading DEF Cuts
  <2>2. jobs = <<>> /\ jobs' = <<>>
    <3>1. jobs = <<>>
      BY <1>2, <2>1
    <3> QED
      BY <1>1, <2>1, <3>1, EmptySeq
  <2>4. \A i \in DOMAIN inPipe' : inPipe'[i].type = "Discard" =>
           /\ jobs' = <<>>
           /\ \A j \in DOMAIN inPipe' : inPipe'[j].type = "Text" => i < j
    BY <2>1, <2>2, DiscardTail
  <2> QED
    BY <2>1, <2>2, <2>4 DEF Uncut
<1>7. CASE Renders
  <2>1. /\ inPipe' = inPipe /\ jobs # <<>> /\ Len(jobs') = Len(jobs)
        /\ \A i \in DOMAIN jobs : jobs'[i].cut = jobs[i].cut
    BY <1>7 DEF Renders
  <2>2. PICK p \in FromServer : Stream' = Append(Stream, p) /\ p.cut = FALSE
    BY <1>7 DEF Renders
  <2>3. \A i \in DOMAIN Stream' :
            (i \in DOMAIN Stream /\ Stream'[i] = Stream[i]) \/ Stream'[i] = p
    BY <1>0, <2>2, AddedAt
  <2>4. \A i \in DOMAIN jobs' : jobs'[i].cut = FALSE
    BY <1>0, <1>1, <2>1 DEF Uncut
  <2> QED
    BY <1>2, <2>1, <2>2, <2>3, <2>4 DEF Uncut
<1>8. CASE Ends
  <2>1. /\ inPipe' = inPipe /\ jobs # <<>> /\ jobs' = Tail(jobs) /\ 1 \in DOMAIN jobs
    BY <1>8, HeadJob DEF Ends
  <2>2. \A i \in DOMAIN jobs' : i + 1 \in DOMAIN jobs /\ jobs'[i] = jobs[i + 1]
    BY <1>0, <2>1, TakenAt
  <2>3. \A i \in DOMAIN jobs' : jobs'[i].cut = FALSE
    BY <2>2 DEF Uncut
  <2>4. \A i \in DOMAIN Stream' : Stream'[i].cut = FALSE
    <3>1. CASE Stream' = Stream
      BY <3>1 DEF Uncut
    <3>2. CASE Stream' # Stream
      <4>1. PICK p \in FromServer : Stream' = Append(Stream, p) /\ p.cut = jobs[1].cut
        BY <1>8, <3>2 DEF Ends
      <4>2. \A i \in DOMAIN Stream' :
                (i \in DOMAIN Stream /\ Stream'[i] = Stream[i]) \/ Stream'[i] = p
        BY <1>0, <4>1, AddedAt
      <4> QED
        BY <2>1, <4>1, <4>2 DEF Uncut
    <3> QED
      BY <3>1, <3>2
  <2> QED
    BY <1>2, <2>1, <2>3, <2>4 DEF Uncut
<1>9. CASE Falls
  <2>1. /\ jobs' = <<>> /\ Stream' = Stream
        /\ inPipe' = inPipe \/ inPipe' = <<>> \/ (inPipe # <<>> /\ inPipe' = Tail(inPipe))
    BY <1>9 DEF Falls
  <2>2. \A i \in DOMAIN inPipe' : inPipe'[i].type = "Discard" =>
           /\ jobs' = <<>>
           /\ \A j \in DOMAIN inPipe' : inPipe'[j].type = "Text" => i < j
    <3>1. CASE inPipe' = inPipe
      BY <2>1, <3>1 DEF Uncut
    <3>2. CASE inPipe' = <<>>
      BY <3>2
    <3>3. CASE inPipe # <<>> /\ inPipe' = Tail(inPipe)
      BY <2>1, <3>3, DiscardTail
    <3> QED
      BY <2>1, <3>1, <3>2, <3>3
  <2> QED
    BY <2>1, <2>2 DEF Uncut
<1> QED
  BY <1>3, <1>4, <1>5, <1>6, <1>7, <1>8, <1>9, ServerKinds

\* The steps that enter, or stay in, the packet loop with the text not given up.
Staying ==
  \/ SendText \/ LoopTop \/ LoopTakes \/ Wait \/ Reader \/ ServerSteps \/ UNCHANGED vars

\* What else happens between the text and the end of a call nobody cancels.
LEMMA OnlyStaying ==
  ASSUME CutInv, MaxCancels = 0, TypeOK, [Next]_vars
  PROVE  /\ canceller' = "idle"
         /\ pc' \in Rendering /\ ~discarding' => Staying
<1>0. canceller = "idle" /\ ~(cancels < MaxCancels)
  BY DEF CutInv, TypeOK, EngineTypeOK, CancelTypes
<1>1. ~Canceller
  BY <1>0 DEF Canceller, CancelStarts, CancelReads, CancelSends, CancelSignals
<1>2. canceller' = canceller
  <2>1. CASE Speak
    BY <2>1 DEF Speak, EnsureRunning, CloseStdin, KillChild, JoinReader, ClearState,
       Launch, Lookup, SendOpen, OpenChannelWaits, Arm, Activate, DropLeftovers,
       SendParams, SendVolume, SendIf, SendText, LoopTop, LoopTakes, LoopGivesUp,
       SinkCancel, cancelVars
  <2>2. CASE ~Speak
    BY <1>1, <2>2 DEF Next, SpeakStarts, Wait, WaitBlocks, WaitWakes, WaitExpires,
       Reader, ReaderReads, ReaderPushes, ReaderFails, ReaderSignals, ServerSteps, Over,
       vars, cancelVars
  <2> QED
    BY <2>1, <2>2
<1>3. ASSUME pc' \in Rendering, ~discarding', ~Staying PROVE FALSE
  <2>1. CASE \E r \in Requests : SpeakStarts(r)
    BY <1>3, <2>1 DEF SpeakStarts, Rendering
  <2>2. CASE SinkCancel
    BY <1>3, <2>2 DEF SinkCancel
  <2>3. CASE \/ EnsureRunning \/ CloseStdin \/ KillChild \/ JoinReader \/ ClearState \/ Launch
             \/ Lookup \/ SendOpen \/ OpenChannelWaits \/ Arm \/ Activate \/ DropLeftovers
             \/ SendParams \/ SendVolume \/ LoopGivesUp
    BY <1>3, <2>3 DEF EnsureRunning, CloseStdin, KillChild, JoinReader, ClearState,
       Launch, Lookup, SendOpen, OpenChannelWaits, Arm, Activate, DropLeftovers,
       SendParams, SendVolume, SendIf, LoopGivesUp, StreamEnds, Return, Rendering
  <2> QED
    BY <1>1, <1>3, <2>1, <2>2, <2>3 DEF Next, Speak, Staying, Over
<1> QED
  BY <1>0, <1>2, <1>3

\* CutInv is inductive.
LEMMA CutStep ==
  ASSUME TypeOK, LifeInv, StreamInv, CutInv, ~IdleDiscardEnds, MaxCancels = 0, [Next]_vars
  PROVE  CutInv'
<1>0. canceller' = "idle" /\ (pc' \in Rendering /\ ~discarding' => Staying) /\ GhostInv
  BY OnlyStaying DEF LifeInv
<1> SUFFICES ASSUME pc' \in Rendering, ~discarding', Staying PROVE Uncut'
  BY <1>0 DEF CutInv, Rendering
<1>1. CASE SendText
  <2>1. pc = "text"
    BY <1>1 DEF SendText
  <2>2. jobs = <<>> /\ NoText(inPipe) /\ Silent(Stream)
    BY <2>1 DEF StreamInv, Quietly, Preparing
  <2>3. PICK m \in ToServer : Sends(m) /\ m.type = "Text"
    BY <1>1, TextSends DEF Rendering
  <2>4. /\ jobs' = <<>> /\ Stream' = Stream
        /\ inPipe' = Append(inPipe, m) /\ inPipe \in Seq(ToServer)
    BY <2>2, <2>3, PipesTyped DEF Sends
  <2>5. /\ \A i \in DOMAIN inPipe' : (i \in DOMAIN inPipe /\ inPipe'[i] = inPipe[i])
                                     \/ (i = Len(inPipe) + 1 /\ inPipe'[i] = m)
        /\ \A i \in DOMAIN inPipe : i < Len(inPipe) + 1
    BY <2>4, AddedAt
  <2>6. \A i \in DOMAIN inPipe' : inPipe'[i].type = "Discard" => i < Len(inPipe) + 1
    BY <2>3, <2>5
  <2>7. \A i \in DOMAIN inPipe' : inPipe'[i].type = "Text" => i = Len(inPipe) + 1
    BY <2>2, <2>5 DEF NoText
  <2>8. \A i \in DOMAIN Stream : Stream[i].cut = FALSE
    BY <1>0, <2>2 DEF GhostInv, Silent
  <2> QED
    BY <2>4, <2>6, <2>7, <2>8 DEF Uncut
<1>2. CASE LoopTop \/ Wait \/ Reader \/ UNCHANGED vars
  <2>1. Same
    BY <1>2, MovesSame DEF Moves
  <2>2. pc \in Rendering /\ ~discarding
    <3>1. CASE LoopTop
      BY <3>1 DEF LoopTop, Rendering
    <3>2. CASE Wait \/ Reader \/ UNCHANGED vars
      <4>1. UNCHANGED <<pc, discarding>>
        BY <3>2 DEF Wait, WaitBlocks, WaitWakes, WaitExpires, Reader, ReaderReads,
           ReaderPushes, ReaderFails, ReaderSignals, vars, renderVars
      <4> QED
        BY <4>1 DEF Rendering
    <3> QED
      BY <1>2, <3>1, <3>2
  <2> QED
    BY <2>1, <2>2 DEF CutInv, Uncut, Same
<1>3. CASE LoopTakes
  <2>1. pc \in Rendering /\ ~discarding
    <3>1. discarding' = discarding
      BY <1>3 DEF LoopTakes, Audio, AudioTo, OtherPacket
    <3> QED
      BY <1>3, <3>1 DEF LoopTakes, Rendering
  <2>2. Uncut /\ Takes
    BY <1>3, <2>1, CallerTakesOne DEF CutInv, LoopTakes, OpenChannelWaits
  <2>3. \A i \in DOMAIN Stream' : i + 1 \in DOMAIN Stream /\ Stream'[i] = Stream[i + 1]
    BY <2>2, PipesTyped, TakenAt DEF Takes
  <2> QED
    BY <2>2, <2>3 DEF Uncut, Takes
<1>4. CASE ServerSteps
  <2>1. pc \in Rendering /\ ~discarding
    BY <1>4 DEF ServerSteps, renderVars, Rendering
  <2> QED
    BY <1>4, <2>1, CutServer DEF CutInv, StreamInv
<1> QED
  BY <1>1, <1>2, <1>3, <1>4 DEF Staying

-----------------------------------------------------------------------------
\* How a call ends.

\* Nothing is cut in a call nobody cancels.
LEMMA CutSafe ==
  ASSUME Prompt, ~IdleDiscardEnds, MaxCancels = 0
  PROVE  Safety => [](TypeOK /\ LifeInv /\ StreamInv /\ CutInv)
<1>1. Init => CutInv
  BY DEF Init, CutInv, Rendering
<1>2. TypeOK /\ LifeInv /\ StreamInv /\ CutInv /\ [Next]_vars => CutInv'
  BY CutStep
<1> QED
  BY <1>1, <1>2, StreamSafe, PTL DEF Safety

\* What is quiet holds no trace of any call.
LEMMA QuietNoTrace ==
  ASSUME NEW q \in Seq(FromServer), NEW h \in Seq(FromServer),
        NEW o \in Seq(FromServer), NEW u \in Nat, u > 0,
         \A i \in DOMAIN (q \o h \o o) : (q \o h \o o)[i].utt = 0
  PROVE  ~Trace(q, u) /\ ~Trace(h, u) /\ ~Trace(o, u)
<1> DEFINE s == q \o h \o o
<1>1. \A i \in DOMAIN s : s[i].utt = 0
  OBVIOUS
<1>2. s = q \o h \o o
  OBVIOUS
<1> HIDE DEF s
<1>3. /\ \A i \in DOMAIN q : i \in DOMAIN s /\ s[i] = q[i]
      /\ \A i \in DOMAIN h : Len(q) + i \in DOMAIN s /\ s[Len(q) + i] = h[i]
      /\ \A i \in DOMAIN o : Len(q) + Len(h) + i \in DOMAIN s
                            /\ s[Len(q) + Len(h) + i] = o[i]
  BY <1>2, PartsIn
<1>4. /\ \A i \in DOMAIN q : q[i].utt = 0
      /\ \A i \in DOMAIN h : h[i].utt = 0
      /\ \A i \in DOMAIN o : o[i].utt = 0
  BY <1>1, <1>3
<1> QED
  BY <1>4 DEF Trace

\* After a call nothing of its text is left.
LEMMA ReturnClean ==
  ASSUME TypeOK, LifeInv, TypeOK', LifeInv', StreamInv', Returned
  PROVE  ~ (\/ Trace(inPipe', utt) \/ Trace(jobs', utt) \/ Trace(outPipe', utt)
            \/ Trace(held', utt) \/ Trace(queue', utt))
<1>1. utt \in Nat /\ utt > 0
  BY DEF TypeOK, EngineTypeOK, CallTypes, LifeInv, CallInv, Returned
<1>2. jobs' = <<>> /\ NoText(inPipe') /\ Silent(Stream')
  BY DEF Returned, StreamInv, Quietly, NoText, Silent
<1>3. ~Trace(inPipe', utt) /\ ~Trace(jobs', utt)
  BY <1>1, <1>2 DEF LifeInv, GhostInv, NoText, Trace
<1>4. \A i \in DOMAIN Stream' : Stream'[i].utt = 0
  BY <1>2 DEF LifeInv, GhostInv, Silent
<1>5. /\ queue' \in Seq(FromServer) /\ held' \in Seq(FromServer)
      /\ outPipe' \in Seq(FromServer)
  BY DEF TypeOK, ServerTypeOK, EngineTypeOK, QueueTypes, ReaderTypes
<1>6. \A i \in DOMAIN (queue' \o held' \o outPipe') : (queue' \o held' \o outPipe')[i].utt = 0
  BY <1>4 DEF Stream
<1>7. ~Trace(queue', utt) /\ ~Trace(held', utt) /\ ~Trace(outPipe', utt)
  BY <1>1, <1>5, <1>6, QuietNoTrace
<1> QED
  BY <1>3, <1>7

\* How speakOnce can return without failing.
LEMMA ReturnsBy ==
  ASSUME [Next]_vars, Returned, outcome' # "failed"
  PROVE  LoopTakes \/ LoopGivesUp \/ SinkCancel
<1>1. pc # "idle" /\ pc' = "idle"
  BY DEF Returned
<1>2. CASE \E r \in Requests : SpeakStarts(r)
  BY <1>1, <1>2 DEF SpeakStarts
<1>3. CASE Speak
  BY <1>1, <1>3 DEF Speak, EnsureRunning, CloseStdin, KillChild, JoinReader,
     ClearState, Launch, Lookup, SendOpen, OpenChannelWaits, Arm, Activate,
     DropLeftovers, SendParams, SendVolume, SendIf, SendText, LoopTop, Return
<1>4. CASE Wait \/ Reader \/ Canceller \/ ServerSteps \/ UNCHANGED vars
  BY <1>1, <1>4 DEF Wait, WaitBlocks, WaitWakes, WaitExpires, Reader, ReaderReads,
     ReaderPushes, ReaderFails, ReaderSignals, Canceller, CancelStarts, CancelReads,
     CancelSends, CancelSignals, ServerSteps, vars
<1> QED
  BY <1>2, <1>3, <1>4 DEF Next, Over

\* A call that ends on a cut stream says so.
LEMMA ReturnSays ==
  ASSUME TypeOK, LifeInv, StreamInv, CutInv, [Next]_vars,
         Returned, outcome' # "failed", queue # <<>> /\ Head(queue).cut
  PROVE  outcome' = "aborted"
<1>1. CASE LoopTakes
  <2>1. pc = "wait" /\ Mine /\ Takes
    BY <1>1, CallerTakesOne DEF LoopTakes, StreamInv, OpenChannelWaits, Rendering
  <2>2. Head(queue) = Stream[1] /\ 1 \in DOMAIN Stream
    BY <2>1, PipesTyped, TakenAt DEF Takes
  <2>3. discarding
    <3>1. CASE ~discarding
      <4>1. Stream[1].cut = FALSE
        BY <2>1, <2>2, <3>1 DEF CutInv, Rendering, Uncut
      <4> QED
        BY <2>2, <4>1
    <3> QED
      BY <3>1
  <2>4. discarding' = discarding
    BY <1>1 DEF LoopTakes, Audio, AudioTo, OtherPacket
  <2>5. outcome' = Ended
    <3>1. ~OtherPacket(Head(queue))
      BY DEF OtherPacket, Returned
    <3>2. Audio(Head(queue))
      BY <1>1, <3>1 DEF LoopTakes
    <3> QED
      BY <2>3, <3>2 DEF Audio, StreamEnds, Return, Returned
  <2> QED
    BY <2>3, <2>4, <2>5 DEF Ended
<1>2. CASE LoopGivesUp
  BY <1>2 DEF LoopGivesUp, GivesUp
<1>3. CASE SinkCancel
  BY <1>3 DEF SinkCancel, StreamEnds, Return, Ended, Returned
<1> QED
  BY <1>1, <1>2, <1>3, ReturnsBy

\* A call that does not fail leaves nothing of its text in the pipes, the queue or the
\* child, and calls a cut text aborted (speakOnce drains the stream to its end).
THEOREM ReturnsClean ==
  ASSUME Prompt, ~IdleDiscardEnds, MaxCancels = 0 PROVE Safety => CleanEnd
<1>1. /\ TypeOK /\ LifeInv /\ StreamInv /\ CutInv /\ TypeOK' /\ LifeInv' /\ StreamInv'
      /\ [Next]_vars
      => [Returned /\ outcome' # "failed" =>
           /\ ~ (\/ Trace(inPipe', utt) \/ Trace(jobs', utt) \/ Trace(outPipe', utt)
                 \/ Trace(held', utt) \/ Trace(queue', utt))
           /\ queue # <<>> /\ Head(queue).cut => outcome' = "aborted"]_vars
  BY ReturnClean, ReturnSays
<1> QED
  BY <1>1, CutSafe, PTL DEF Safety, CleanEnd

-----------------------------------------------------------------------------
\* Where bookmarks lie.

\* The sound a bookmark lies in is still to be said, or is in the stream behind it.
Owed == IF jobs # <<>> THEN jobs[1].left > 0 ELSE \A k \in DOMAIN Stream : Stream[k].end # TRUE
IsSound(p) == p.type = "Audio" /\ p.size = 1

Marked ==
  /\ \A i \in DOMAIN Stream :
         Stream[i].type = "Audio" /\ Stream[i].end # TRUE => Stream[i].size = 1
  /\ \A i \in DOMAIN Stream : Stream[i].type = "BookMark" /\ Stream[i].size # 0 =>
       /\ Stream[i].size = 1
       /\ Owed \/ \E k \in DOMAIN Stream : k > i /\ IsSound(Stream[k])
  /\ \A i \in DOMAIN pending : pending[i] # 0 =>
       /\ pending[i] = 1
       /\ Owed \/ \E k \in DOMAIN Stream : IsSound(Stream[k])

MarkInv ==
  /\ sinkAborted => discarding \/ pc = "sinkCancel"
  /\ pc \in Rendering /\ ~discarding => Marked

\* The stream grows, and what is owed stays owed or is said.
LEMMA MarkGrows ==
  ASSUME TypeOK, Marked, pending' = pending,
         \A k \in DOMAIN Stream : k \in DOMAIN Stream' /\ Stream'[k] = Stream[k],
         Owed => Owed' \/ \E k \in DOMAIN Stream' : /\ \A i \in DOMAIN Stream : k > i
                                                  /\ IsSound(Stream'[k]),
         \A i \in DOMAIN Stream' : i \notin DOMAIN Stream =>
           /\ Stream'[i].type = "Audio" /\ Stream'[i].end # TRUE => Stream'[i].size = 1
           /\ Stream'[i].type = "BookMark" /\ Stream'[i].size # 0 => Stream'[i].size = 1 /\ Owed'
  PROVE  Marked'
<1>1. \A i \in DOMAIN Stream' :
          Stream'[i].type = "Audio" /\ Stream'[i].end # TRUE => Stream'[i].size = 1
  BY DEF Marked
<1>2. ASSUME NEW i \in DOMAIN Stream', Stream'[i].type = "BookMark" /\ Stream'[i].size # 0
      PROVE  /\ Stream'[i].size = 1
             /\ Owed' \/ \E k \in DOMAIN Stream' : k > i /\ IsSound(Stream'[k])
  <2>1. CASE i \notin DOMAIN Stream
    BY <1>2, <2>1
  <2>2. CASE i \in DOMAIN Stream
    <3>1. /\ Stream'[i] = Stream[i] /\ Stream[i].size = 1
          /\ Owed \/ \E k \in DOMAIN Stream : k > i /\ IsSound(Stream[k])
      BY <1>2, <2>2 DEF Marked
    <3>2. CASE Owed
      BY <2>2, <3>1, <3>2
    <3>3. CASE \E k \in DOMAIN Stream : k > i /\ IsSound(Stream[k])
      BY <3>1, <3>3
    <3> QED
      BY <3>1, <3>2, <3>3
  <2> QED
    BY <2>1, <2>2
<1>3. ASSUME NEW i \in DOMAIN pending, pending[i] # 0
      PROVE  pending[i] = 1 /\ (Owed' \/ \E k \in DOMAIN Stream' : IsSound(Stream'[k]))
  BY <1>3 DEF Marked
<1> QED
  BY <1>1, <1>2, <1>3 DEF Marked, IsSound

\* Nothing is owed to a stream without packets of a text.
LEMMA SilentMarked ==
  ASSUME Stream' = Stream, Silent(Stream), pending' = <<>> PROVE Marked'
<1>1. \A i \in DOMAIN Stream' : Stream'[i].type = "OpenNotify"
  BY DEF Silent
<1>2. DOMAIN pending' = {}
  OBVIOUS
<1>3. /\ \A i \in DOMAIN Stream' :
             Stream'[i].type = "Audio" /\ Stream'[i].end # TRUE => Stream'[i].size = 1
      /\ \A i \in DOMAIN Stream' : Stream'[i].type = "BookMark" /\ Stream'[i].size # 0 => FALSE
  BY <1>1
<1> QED
  BY <1>2, <1>3 DEF Marked

\* The child owes every bookmark the sound it lies in.
LEMMA MarkServer ==
  ASSUME TypeOK, ~IdleDiscardEnds, Mine, Uncut, Marked, ServerSteps PROVE Marked'
<1>0. /\ Stream \in Seq(FromServer) /\ jobs \in Seq(Job)
      /\ pending' = pending
  BY PipesTyped DEF ServerSteps, renderVars
<1>1. jobs # <<>> => \A i \in DOMAIN Stream : Stream[i].end # TRUE
  BY DEF Mine, EndsLast
<1>2. CASE TookText
  <2>1. Stream' = Stream /\ 1 \in DOMAIN inPipe /\ inPipe[1].type = "Text"
    BY <1>2, Reading DEF TookText
  <2>2. Silent(Stream) /\ pending = <<>>
    BY <2>1 DEF Mine, TextMine
  <2> QED
    BY <1>0, <2>1, <2>2, SilentMarked
<1>3. CASE Adjusts \/ Cuts \/ Falls
  <2>1. Stream' = Stream
    BY <1>3 DEF Adjusts, Cuts, Falls
  <2>2. Owed => Owed'
    <3>1. CASE jobs' = jobs
      BY <2>1, <3>1 DEF Owed
    <3>2. CASE Falls
      BY <1>1, <2>1, <3>2 DEF Falls, Owed
    <3>3. CASE Cuts
      <4>1. jobs = <<>>
        <5>1. 1 \in DOMAIN inPipe /\ inPipe[1].type = "Discard"
          BY <3>3, Reading DEF Cuts
        <5> QED
          BY <5>1 DEF Uncut
      <4>2. jobs' = <<>>
        <5>1. jobs' \in Seq(Job)
          BY StepTyped DEF Next, TypeOK, ServerTypeOK
        <5> QED
          BY <1>0, <3>3, <4>1, <5>1, EmptySeq DEF Cuts
      <4> QED
        BY <2>1, <4>1, <4>2 DEF Owed
    <3> QED
      BY <1>3, <3>1, <3>2, <3>3 DEF Adjusts
  <2> QED
    BY <1>0, <2>1, <2>2, MarkGrows
<1>4. CASE Opened \/ Renders \/ Ends
  <2>1. CASE Stream' = Stream
    <3>1. CASE Ends
      <4>1. jobs # <<>> /\ jobs' = <<>>
        <5>1. jobs # <<>> /\ jobs' = Tail(jobs) /\ Len(jobs) = 1
          BY <3>1, HeadJob DEF Ends, Mine, JobMine
        <5> QED
          BY <1>0, <5>1, TakenAt
      <4>2. Owed => Owed'
        BY <1>1, <2>1, <4>1 DEF Owed
      <4> QED
        BY <1>0, <2>1, <4>2, MarkGrows
    <3>2. CASE Opened \/ Renders
      <4>1. \E p \in FromServer : Stream' = Append(Stream, p)
        BY <3>2 DEF Opened, Renders
      <4>2. Len(Stream') = Len(Stream) + 1 /\ Len(Stream) \in Nat
        BY <1>0, <4>1, AppendAt
      <4> QED
        BY <2>1, <4>2
    <3> QED
      BY <1>4, <3>1, <3>2
  <2>2. CASE Stream' # Stream
    <3>1. PICK p \in FromServer :
            /\ Stream' = Append(Stream, p)
            /\ \/ p.type = "OpenNotify" /\ p.end = FALSE /\ jobs' = jobs
               \/ /\ jobs # <<>> /\ jobs' # <<>> /\ p.type \in Packets
                  /\ p.type = "Audio" => p.size = 1
                  /\ p.type # "Audio" => jobs'[1].left = jobs[1].left
                  /\ p.type = "BookMark" => p.size = 0 \/ (p.size = 1 /\ jobs[1].left > 0)
               \/ /\ jobs # <<>> /\ p.type = "Audio" /\ p.end = TRUE
                  /\ jobs[1].left > 0 => p.size = 1
      <4>1. CASE Opened
        BY <4>1 DEF Opened
      <4>2. CASE Renders
        <5>1. jobs # <<>> /\ jobs' # <<>>
          <6>1. jobs # <<>> /\ Len(jobs') = Len(jobs)
            BY <4>2 DEF Renders
          <6>2. Len(jobs) > 0
            BY <6>1, HeadJob
          <6> QED
            BY <6>1, <6>2
        <5> QED
          BY <4>2, <5>1 DEF Renders
      <4>3. CASE Ends
        BY <2>2, <4>3 DEF Ends
      <4> QED
        BY <1>4, <4>1, <4>2, <4>3
    <3>2. /\ \A k \in DOMAIN Stream : k \in DOMAIN Stream' /\ Stream'[k] = Stream[k]
          /\ \A i \in DOMAIN Stream' : i \in DOMAIN Stream \/ Stream'[i] = p
          /\ Len(Stream) + 1 \in DOMAIN Stream' /\ Stream'[Len(Stream) + 1] = p
          /\ \A i \in DOMAIN Stream : Len(Stream) + 1 > i
          /\ Len(Stream) \in Nat
      BY <1>0, <3>1, AddedAt
    <3>3. Owed => Owed' \/ IsSound(p)
      <4>1. CASE p.type = "OpenNotify" /\ p.end = FALSE /\ jobs' = jobs
        BY <3>2, <4>1 DEF Owed
      <4>2. CASE jobs # <<>> /\ ~(p.type = "OpenNotify" /\ p.end = FALSE /\ jobs' = jobs)
        BY <3>1, <4>2 DEF Owed, IsSound
      <4> QED
        BY <3>1, <4>1, <4>2
    <3>4. Owed => Owed' \/ \E k \in DOMAIN Stream' : /\ \A i \in DOMAIN Stream : k > i
                                                    /\ IsSound(Stream'[k])
      BY <3>2, <3>3
    <3>5. /\ p.type = "Audio" /\ p.end # TRUE => p.size = 1
          /\ p.type = "BookMark" /\ p.size # 0 => p.size = 1 /\ Owed'
      BY <3>1 DEF Owed
    <3>6. \A i \in DOMAIN Stream' : i \notin DOMAIN Stream =>
           /\ Stream'[i].type = "Audio" /\ Stream'[i].end # TRUE => Stream'[i].size = 1
           /\ Stream'[i].type = "BookMark" /\ Stream'[i].size # 0 => Stream'[i].size = 1 /\ Owed'
      BY <3>2, <3>5
    <3> QED
      BY <1>0, <3>2, <3>4, <3>6, MarkGrows
  <2> QED
    BY <2>1, <2>2
<1> QED
  BY <1>2, <1>3, <1>4, ServerKinds

\* The oldest packet of the stream is taken; its bookmark joins the pending ones, and an
\* audio packet is where they all lie.
LEMMA MarkTakes ==
  ASSUME TypeOK, GhostInv, Mine, Marked, pc = "wait", LoopTakes PROVE Marked'
<1> DEFINE p == Head(queue)
<1>1. Takes
  BY CallerTakesOne DEF LoopTakes, OpenChannelWaits
<1>2. /\ Stream \in Seq(FromServer) /\ Stream # <<>> /\ p = Stream[1] /\ 1 \in DOMAIN Stream
      /\ jobs' = jobs
      /\ \A i \in DOMAIN Stream' :
             i \in Nat /\ i + 1 \in DOMAIN Stream /\ Stream'[i] = Stream[i + 1]
      /\ \A i \in DOMAIN Stream :
             i # 1 => i \in Nat /\ i - 1 \in DOMAIN Stream' /\ Stream'[i - 1] = Stream[i]
      /\ DOMAIN Stream = 1..Len(Stream) /\ Len(Stream) \in Nat
  BY <1>1, PipesTyped, TakenAt DEF Takes
<1> HIDE DEF p
<1>3. Owed => Owed'
  BY <1>2 DEF Owed
<1>4. \A i \in DOMAIN Stream' :
          Stream'[i].type = "Audio" /\ Stream'[i].end # TRUE => Stream'[i].size = 1
  <2> SUFFICES ASSUME NEW i \in DOMAIN Stream', Stream'[i].type = "Audio" /\ Stream'[i].end # TRUE
               PROVE  Stream'[i].size = 1
    OBVIOUS
  <2>1. i + 1 \in DOMAIN Stream /\ Stream'[i] = Stream[i + 1]
    BY <1>2
  <2>2. \A n \in DOMAIN Stream :
            Stream[n].type = "Audio" /\ Stream[n].end # TRUE => Stream[n].size = 1
    BY DEF Marked
  <2> QED
    BY <2>1, <2>2
<1>5. ASSUME NEW i \in DOMAIN Stream', Stream'[i].type = "BookMark" /\ Stream'[i].size # 0
      PROVE  /\ Stream'[i].size = 1
             /\ Owed' \/ \E k \in DOMAIN Stream' : k > i /\ IsSound(Stream'[k])
  <2>1. i \in Nat /\ i + 1 \in DOMAIN Stream /\ Stream'[i] = Stream[i + 1]
    BY <1>2
  <2>2. /\ Stream[i + 1].size = 1
        /\ Owed \/ \E k \in DOMAIN Stream : k > i + 1 /\ IsSound(Stream[k])
    BY <1>5, <2>1 DEF Marked
  <2>3. ASSUME NEW k \in DOMAIN Stream, k > i + 1, IsSound(Stream[k])
        PROVE  \E n \in DOMAIN Stream' : n > i /\ IsSound(Stream'[n])
    <3>1. k # 1 /\ k \in Nat /\ k - 1 > i
      BY <1>2, <2>1, <2>3
    <3>2. k - 1 \in DOMAIN Stream' /\ Stream'[k - 1] = Stream[k]
      BY <1>2, <3>1
    <3> QED
      BY <2>3, <3>1, <3>2
  <2> QED
    BY <1>3, <2>1, <2>2, <2>3
<1>6. \A i \in DOMAIN pending' : pending'[i] # 0 =>
        pending'[i] = 1 /\ (Owed' \/ \E k \in DOMAIN Stream' : IsSound(Stream'[k]))
  <2>1. CASE p.type = "Audio" /\ ~Foreign(p)
    BY <2>1 DEF LoopTakes, Audio, p
  <2>2. CASE ~(p.type = "Audio" /\ ~Foreign(p))
    <3>1. OtherPacket(p)
      BY <2>2 DEF LoopTakes, p
    <3>2. p.type # "Audio"
      BY <1>2, <2>2 DEF Mine, SaidMine, Owns, Foreign
    <3>3. ASSUME NEW k \in DOMAIN Stream, IsSound(Stream[k])
          PROVE  \E n \in DOMAIN Stream' : IsSound(Stream'[n])
      <4>1. k # 1
        BY <1>2, <3>2, <3>3 DEF IsSound
      <4>2. k - 1 \in DOMAIN Stream' /\ Stream'[k - 1] = Stream[k]
        BY <1>2, <4>1
      <4> QED
        BY <3>3, <4>2
    <3>4. \A i \in DOMAIN pending : pending[i] # 0 =>
            pending[i] = 1 /\ (Owed' \/ \E k \in DOMAIN Stream' : IsSound(Stream'[k]))
      BY <1>3, <3>3 DEF Marked
    <3>5. CASE p.type = "BookMark"
      <4>1. pending \in Seq(Nat) /\ p.size \in Nat
        <5>1. p \in FromServer
          BY <1>2, ElementOfSeq
        <5> QED
          BY <5>1 DEF TypeOK, EngineTypeOK, RenderTypes, FromServer
      <4>2. \A i \in DOMAIN pending' :
                (i \in DOMAIN pending /\ pending'[i] = pending[i]) \/ pending'[i] = p.size
        <5>1. pending' = Append(pending, p.size)
          BY <3>1, <3>5 DEF OtherPacket
        <5> QED
          BY <4>1, <5>1, AddedAt
      <4>3. p.size # 0 => p.size = 1 /\ (Owed \/ \E k \in DOMAIN Stream : IsSound(Stream[k]))
        BY <1>2, <3>5 DEF Marked
      <4> QED
        BY <1>3, <3>3, <3>4, <4>2, <4>3
    <3>6. CASE p.type # "BookMark"
      <4>1. pending' = pending
        BY <3>1, <3>6 DEF OtherPacket
      <4> QED
        BY <3>4, <4>1
    <3> QED
      BY <3>5, <3>6
  <2> QED
    BY <2>1, <2>2
<1> QED
  BY <1>4, <1>5, <1>6 DEF Marked, IsSound

\* MarkInv is inductive.
LEMMA MarkStep ==
  ASSUME TypeOK, LifeInv, StreamInv, CutInv, MarkInv, ~IdleDiscardEnds, MaxCancels = 0,
         [Next]_vars
  PROVE  MarkInv'
<1>0. (pc' \in Rendering /\ ~discarding' => Staying) /\ GhostInv
  BY OnlyStaying DEF LifeInv
<1>1. sinkAborted' => discarding' \/ pc' = "sinkCancel"
  <2>1. CASE LoopTakes
    <3>1. pc = "wait" /\ (sinkAborted => discarding)
      BY <2>1 DEF LoopTakes, MarkInv
    <3> QED
      BY <2>1, <3>1 DEF LoopTakes, Audio, AudioTo, OtherPacket
  <2>2. CASE LoopTop \/ SinkCancel \/ LoopGivesUp \/ \E r \in Requests : SpeakStarts(r)
    BY <2>2 DEF MarkInv, LoopTop, SinkCancel, LoopGivesUp, SpeakStarts
  <2>3. CASE ~LoopTakes /\ ~(LoopTop \/ SinkCancel \/ LoopGivesUp \/
              \E r \in Requests : SpeakStarts(r))
    <3>1. CASE Speak
      <4>1. UNCHANGED renderVars /\ pc # "sinkCancel"
        BY <2>3, <3>1 DEF Speak, EnsureRunning, CloseStdin, KillChild, JoinReader,
           ClearState, Launch, Lookup, SendOpen, OpenChannelWaits, Arm, Activate,
           DropLeftovers, SendParams, SendVolume, SendIf, SendText
      <4> QED
        BY <4>1 DEF MarkInv, renderVars
    <3>2. CASE ~Speak
      <4>1. UNCHANGED renderVars /\ pc' = pc
        BY <2>3, <3>2 DEF Next, Wait, WaitBlocks, WaitWakes, WaitExpires, Reader,
           ReaderReads, ReaderPushes, ReaderFails, ReaderSignals, Canceller,
           CancelStarts, CancelReads, CancelSends, CancelSignals, ServerSteps, Over, vars
      <4> QED
        BY <4>1 DEF MarkInv, renderVars
    <3> QED
      BY <3>1, <3>2
  <2> QED
    BY <2>1, <2>2, <2>3
<1>2. ASSUME pc' \in Rendering, ~discarding', Staying PROVE Marked'
  <2>1. CASE SendText
    <3>1. pc = "text" /\ UNCHANGED renderVars
      BY <2>1 DEF SendText
    <3>2. Silent(Stream) /\ pending = <<>>
      BY <3>1 DEF StreamInv, Quietly, Preparing, LifeInv, CallInv, FreshCall
    <3>3. Stream' = Stream
      BY <2>1, TextSends DEF Sends, Same
    <3>4. pending' = <<>>
      BY <3>1, <3>2 DEF renderVars
    <3> QED
      BY <3>2, <3>3, <3>4, SilentMarked
  <2>2. CASE LoopTop \/ Wait \/ Reader \/ UNCHANGED vars
    <3>1. Same
      BY <2>2, MovesSame DEF Moves
    <3>2. pc \in Rendering /\ ~discarding /\ pending' = pending
      <4>1. CASE LoopTop
        BY <1>2, <4>1 DEF LoopTop, Rendering
      <4>2. CASE Wait \/ Reader \/ UNCHANGED vars
        <5>1. UNCHANGED <<pc, discarding, pending>>
          BY <4>2 DEF Wait, WaitBlocks, WaitWakes, WaitExpires, Reader, ReaderReads,
             ReaderPushes, ReaderFails, ReaderSignals, vars, renderVars
        <5> QED
          BY <1>2, <5>1 DEF Rendering
      <4> QED
        BY <2>2, <4>1, <4>2
    <3> QED
      BY <3>1, <3>2 DEF MarkInv, Marked, Same, Owed
  <2>3. CASE LoopTakes
    <3>1. discarding' = discarding /\ pc = "wait"
      BY <2>3 DEF LoopTakes, Audio, AudioTo, OtherPacket
    <3>2. Marked /\ Mine
      BY <1>2, <3>1 DEF MarkInv, StreamInv, Rendering
    <3> QED
      BY <1>0, <2>3, <3>1, <3>2, MarkTakes
  <2>4. CASE ServerSteps
    <3>1. pc \in Rendering /\ ~discarding
      BY <1>2, <2>4 DEF ServerSteps, renderVars, Rendering
    <3> QED
      BY <2>4, <3>1, MarkServer DEF MarkInv, CutInv, StreamInv
  <2> QED
    BY <1>2, <2>1, <2>2, <2>3, <2>4 DEF Staying
<1> QED
  BY <1>0, <1>1, <1>2 DEF MarkInv, Rendering

-----------------------------------------------------------------------------
\* speakOnce implements SpeakContract.

\* Bookmarks lie in the audio they are handed out with.
LEMMA MarkSafe ==
  ASSUME Prompt, ~IdleDiscardEnds, MaxCancels = 0
  PROVE  Safety => [](TypeOK /\ LifeInv /\ StreamInv /\ CutInv /\ MarkInv)
<1>1. Init => MarkInv
  BY DEF Init, MarkInv, Rendering
<1>2. TypeOK /\ LifeInv /\ StreamInv /\ CutInv /\ MarkInv /\ [Next]_vars => MarkInv'
  BY MarkStep
<1> QED
  BY <1>1, <1>2, CutSafe, PTL DEF Safety

\* The last of the pending bookmarks lies in the audio packet that takes them along.
LEMMA MarksLie ==
  ASSUME TypeOK, GhostInv, Mine, Marked, NEW p \in FromServer, Stream # <<>>, p = Stream[1],
         p.type = "Audio", pending # <<>>
  PROVE  pending[Len(pending)] \in Nat /\ pending[Len(pending)] <= p.size
<1> DEFINE l == Len(pending)
<1>1. /\ pending \in Seq(Nat) /\ Stream \in Seq(FromServer) /\ 1 \in DOMAIN Stream
      /\ DOMAIN Stream \subseteq Nat
  BY PipesTyped, TakenAt DEF TypeOK, EngineTypeOK, RenderTypes
<1>2. l \in DOMAIN pending /\ pending[l] \in Nat
  BY <1>1, TakenAt, LenProperties, EmptySeq
<1> HIDE DEF l
<1>3. p.size \in Nat
  BY DEF FromServer
<1>4. CASE pending[l] = 0
  BY <1>2, <1>3, <1>4 DEF l
<1>5. CASE pending[l] # 0
  <2>1. pending[l] = 1 /\ (Owed \/ \E k \in DOMAIN Stream : IsSound(Stream[k]))
    BY <1>2, <1>5 DEF Marked
  <2>2. p.size = 1
    <3>1. CASE p.end # TRUE
      BY <1>1, <3>1 DEF Marked
    <3>2. CASE p.end = TRUE
      <4>1. jobs = <<>> /\ \A j \in DOMAIN Stream : j > 1 => Stream[j].type = "OpenNotify"
        BY <1>1, <3>2 DEF Mine, EndsLast
      <4>2. ~Owed
        BY <1>1, <3>2, <4>1 DEF Owed
      <4>3. PICK k \in DOMAIN Stream : IsSound(Stream[k])
        BY <2>1, <4>2
      <4>4. k = 1
        <5>1. ~(k > 1)
          BY <4>1, <4>3 DEF IsSound
        <5>2. k >= 1 /\ k \in Nat
          BY <1>1, LenProperties
        <5> QED
          BY <5>1, <5>2
      <4> QED
        BY <4>3, <4>4 DEF IsSound
    <3> QED
      BY <3>1, <3>2
  <2> QED
    BY <1>2, <1>3, <2>1, <2>2 DEF l
<1> QED
  BY <1>4, <1>5

\* Bookmarks and audio handed to the sink in one round keep their order.
LEMMA SinkFed ==
  ASSUME TypeOK, GhostInv, Mine, Marked, NEW p \in FromServer, Stream # <<>>, p = Stream[1],
         p.type = "Audio", emitted' = emitted + p.size, lastMark' = MarkOf(Marks)
  PROVE  /\ emitted' >= emitted
         /\ lastMark' = lastMark \/ (emitted <= lastMark' /\ lastMark' <= emitted')
<1>1. emitted \in Nat /\ p.size \in Nat /\ pending \in Seq(Nat)
  BY DEF TypeOK, EngineTypeOK, RenderTypes, FromServer
<1>2. CASE pending = <<>>
  <2>1. Marks = <<>>
    BY <1>2 DEF Marks
  <2> QED
    BY <1>1, <2>1 DEF MarkOf
<1>3. CASE pending # <<>>
  <2>1. pending[Len(pending)] \in Nat /\ pending[Len(pending)] <= p.size
    BY <1>3, MarksLie
  <2>2. DOMAIN pending = 1..Len(pending) /\ Len(pending) \in Nat /\ Len(pending) > 0
    BY <1>1, <1>3, TailAt
  <2>3. /\ Len(Marks) = Len(pending) /\ Marks # <<>>
        /\ Marks[Len(pending)] = emitted + pending[Len(pending)]
    <3>1. DOMAIN Marks = 1..Len(pending) /\ Len(pending) \in DOMAIN pending
      BY <2>2 DEF Marks
    <3>2. Len(Marks) = Len(pending)
      BY <2>2, <3>1, LenProperties DEF Marks
    <3>3. Marks[Len(pending)] = emitted + pending[Len(pending)]
      BY <3>1 DEF Marks
    <3>4. Marks # <<>>
      BY <2>2, <3>1
    <3> QED
      BY <3>2, <3>3, <3>4
  <2>4. lastMark' = emitted + pending[Len(pending)]
    BY <2>3 DEF MarkOf
  <2> QED
    BY <1>1, <2>1, <2>4
<1> QED
  BY <1>2, <1>3

\* A packet of the loop: the contract's Feed or End, or nothing the sink can see.
LEMMA TakesContract ==
  ASSUME TypeOK, LifeInv, StreamInv, MarkInv, LoopTakes
  PROVE  Contract!Feed \/ Contract!End \/ UNCHANGED Contract!contractVars
<1> DEFINE p == Head(queue)
<1>1. pc = "wait" /\ Mine /\ Takes /\ GhostInv /\ (sinkAborted => discarding)
  BY CallerTakesOne DEF LoopTakes, StreamInv, OpenChannelWaits, Rendering, LifeInv,
     MarkInv
<1>2. p = Stream[1] /\ Stream # <<>> /\ p \in FromServer
  BY <1>1, PipesTyped, TailAt DEF Takes
<1>3. /\ p.end \in BOOLEAN /\ p.size \in Nat /\ emitted \in Nat
      /\ outcome \in {"none", "done", "aborted", "failed"}
  BY <1>2 DEF FromServer, TypeOK, EngineTypeOK, RenderTypes, ControlTypes
<1>4. CASE OtherPacket(p)
  BY <1>1, <1>4 DEF OtherPacket, Contract!contractVars
<1>5. CASE p.type = "Audio" /\ Audio(p)
  <2>1. CASE discarding \/ sinkAborted
    <3>1. /\ discarding' = discarding /\ discarding
          /\ UNCHANGED <<emitted, lastMark, sinkAborted>>
      BY <1>1, <1>5, <2>1 DEF Audio
    <3>2. \/ pc' = "loop" /\ outcome' = outcome
          \/ pc' = "idle" /\ outcome' = "aborted"
      BY <1>5, <2>1, <3>1 DEF Audio, StreamEnds, Return, Ended
    <3>3. CASE pc' = "loop" /\ outcome' = outcome
      BY <1>1, <3>1, <3>3 DEF Contract!contractVars
    <3>4. CASE pc' = "idle" /\ outcome' = "aborted"
      BY <1>1, <1>3, <3>1, <3>4 DEF Contract!End, Contract!Fed
    <3> QED
      BY <3>2, <3>3, <3>4
  <2>2. CASE ~(discarding \/ sinkAborted)
    <3>1. PICK accepted \in BOOLEAN : AudioTo(p, accepted) /\ (p.size = 0 => accepted)
      BY <1>5, <2>2 DEF Audio
    <3>2. /\ emitted' >= emitted
          /\ lastMark' = lastMark \/ (emitted <= lastMark' /\ lastMark' <= emitted')
          /\ emitted' = emitted + p.size
      <4>1. Marked
        BY <1>1, <2>2 DEF MarkInv, Rendering
      <4>2. emitted' = emitted + p.size /\ lastMark' = MarkOf(Marks)
        BY <3>1 DEF AudioTo
      <4> HIDE DEF p
      <4> QED
        BY <1>1, <1>2, <1>5, <4>1, <4>2, SinkFed
    <3>3. CASE accepted = TRUE
      <4>1. sinkAborted' = FALSE /\ sinkAborted = FALSE /\ discarding' = discarding
        BY <2>2, <3>1, <3>3 DEF AudioTo, TypeOK, EngineTypeOK, RenderTypes
      <4>2. \/ pc' = "loop" /\ outcome' = outcome
            \/ pc' = "idle" /\ outcome' = "done"
        BY <2>2, <3>1, <3>3, <4>1 DEF AudioTo, StreamEnds, Return, Ended
      <4>3. CASE pc' = "loop" /\ outcome' = outcome
        BY <1>1, <3>2, <4>1, <4>3 DEF Contract!Feed, Contract!Fed
      <4>4. CASE pc' = "idle" /\ outcome' = "done"
        BY <1>1, <3>2, <4>1, <4>4 DEF Contract!End, Contract!Fed
      <4> QED
        BY <4>2, <4>3, <4>4
    <3>4. CASE accepted = FALSE
      <4>1. sinkAborted' = TRUE /\ pc' = "sinkCancel" /\ outcome' = outcome
        BY <3>1, <3>4 DEF AudioTo
      <4>2. emitted' > emitted
        BY <1>3, <3>1, <3>2, <3>4
      <4> QED
        BY <1>1, <2>2, <3>2, <4>1, <4>2 DEF Contract!Feed, Contract!Fed
    <3> QED
      BY <3>3, <3>4
  <2> QED
    BY <2>1, <2>2
<1> QED
  BY <1>4, <1>5 DEF LoopTakes

\* Every step is one of the contract's, or one the caller of speakOnce cannot see.
LEMMA ContractStep ==
  ASSUME TypeOK, LifeInv, StreamInv, MarkInv, [Next]_vars
  PROVE  [Contract!ContractNext]_(Contract!contractVars)
<1> USE DEF Contract!ContractNext
<1>0. emitted \in Nat /\ outcome \in {"none", "done", "aborted", "failed"}
  BY DEF TypeOK, EngineTypeOK, RenderTypes, ControlTypes
<1>1. CASE \E r \in Requests : SpeakStarts(r)
  <2>1. /\ pc = "idle" /\ pc' = "ensure" /\ emitted' = 0 /\ lastMark' = 0
        /\ sinkAborted' = FALSE
        /\ outcome' = outcome
    BY <1>1 DEF SpeakStarts
  <2> QED
    BY <2>1 DEF Contract!Begin
<1>2. CASE LoopTakes
  BY <1>2, TakesContract
<1>3. CASE LoopGivesUp \/ SinkCancel
  <2>1. UNCHANGED <<emitted, lastMark, sinkAborted>> /\ pc # "idle"
    BY <1>3 DEF LoopGivesUp, SinkCancel
  <2>2. \/ pc' # "idle" /\ outcome' = outcome
        \/ pc' = "idle" /\ outcome' \in {"aborted", "done"} /\ (outcome' = "done" => ~sinkAborted)
    <3>1. CASE LoopGivesUp
      <4>1. pc = "wait" /\ discarding' = discarding /\ (sinkAborted => discarding)
        BY <3>1 DEF LoopGivesUp, MarkInv
      <4> QED
        BY <3>1, <4>1 DEF LoopGivesUp, StreamEnds, Return, Ended
    <3>2. CASE SinkCancel
      BY <3>2 DEF SinkCancel, StreamEnds, Return, Ended
    <3> QED
      BY <1>3, <3>1, <3>2
  <2>3. CASE pc' # "idle" /\ outcome' = outcome
    BY <2>1, <2>3 DEF Contract!contractVars
  <2>4. CASE /\ pc' = "idle" /\ outcome' \in {"aborted", "done"}
             /\ outcome' = "done" => ~sinkAborted
    BY <1>0, <2>1, <2>4 DEF Contract!End, Contract!Fed
  <2> QED
    BY <2>2, <2>3, <2>4
<1>4. CASE Speak /\ ~LoopTakes /\ ~LoopGivesUp /\ ~SinkCancel
  <2>1. UNCHANGED <<emitted, lastMark, sinkAborted>> \/ LoopTop
    BY <1>4 DEF Speak, EnsureRunning, CloseStdin, KillChild, JoinReader, ClearState,
       Launch, Lookup, SendOpen, OpenChannelWaits, Arm, Activate, DropLeftovers,
       SendParams, SendVolume, SendIf, SendText, renderVars
  <2>2. UNCHANGED <<emitted, lastMark, sinkAborted>>
    BY <2>1 DEF LoopTop
  <2>3. pc # "idle" /\ (\/ pc' # "idle" /\ outcome' = outcome
                        \/ pc' = "idle" /\ outcome' = "failed")
    BY <1>4 DEF Speak, EnsureRunning, CloseStdin, KillChild, JoinReader, ClearState,
       Launch, Lookup, SendOpen, OpenChannelWaits, Arm, Activate, DropLeftovers,
       SendParams, SendVolume, SendIf, SendText, LoopTop, Return
  <2>4. CASE pc' # "idle" /\ outcome' = outcome
    BY <2>2, <2>3, <2>4 DEF Contract!contractVars
  <2>5. CASE pc' = "idle" /\ outcome' = "failed"
    BY <1>0, <2>2, <2>3, <2>5 DEF Contract!End, Contract!Fed
  <2> QED
    BY <2>3, <2>4, <2>5
<1>5. CASE Wait \/ Reader \/ Canceller \/ ServerSteps \/ UNCHANGED vars
  <2>1. UNCHANGED <<pc, emitted, lastMark, sinkAborted, outcome>>
    BY <1>5 DEF Wait, WaitBlocks, WaitWakes, WaitExpires, Reader, ReaderReads,
       ReaderPushes, ReaderFails, ReaderSignals, Canceller, CancelStarts, CancelReads,
       CancelSends, CancelSignals, ServerSteps, vars, renderVars
  <2> QED
    BY <2>1 DEF Contract!contractVars
<1> QED
  BY <1>1, <1>2, <1>3, <1>4, <1>5 DEF Next, Over

\* speakOnce implements SpeakContract: audio and bookmarks reach the sink in order, a
\* sink that has refused is left alone, and a refused call is not reported done.
THEOREM SpeakKeepsContract ==
  ASSUME Prompt, ~IdleDiscardEnds, MaxCancels = 0 PROVE Safety => KeepsContract
<1>1. Init => Contract!ContractInit
  BY DEF Init, Contract!ContractInit
<1>2. TypeOK /\ LifeInv /\ StreamInv /\ MarkInv /\ [Next]_vars
      => [Contract!ContractNext]_(Contract!contractVars)
  BY ContractStep
<1> QED
  BY <1>1, <1>2, MarkSafe, PTL DEF Safety, KeepsContract, Contract!ContractSpec
=============================================================================
