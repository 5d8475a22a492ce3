---------------------------- MODULE LucentEngine ----------------------------
(***************************************************************************)
(* LucentEngine (src/lucent_engine.h, .cpp): one child process, the caller *)
(* thread inside speakOnce, the reader thread that drains the child's      *)
(* stdout, and a second thread that may call cancel() at any time.         *)
(*                                                                         *)
(* Every critical section is one step.  What the caller reads or writes    *)
(* outside the locks (cancelRequested_, activeChannel_, readerFailed_,     *)
(* stdinWrite_) is a step of its own wherever another thread can see the   *)
(* difference.  A deadline of waitPacket may pass whenever the caller is   *)
(* blocked; under Prompt it passes only when the child has nothing left    *)
(* to say, which is what the deadlines are chosen for.                     *)
(*                                                                         *)
(* A call of speakOnce gets the number utt.  Calls are bounded by MaxUtts  *)
(* and calls of cancel() by MaxCancels.                                    *)
(***************************************************************************)
EXTENDS TtsServer

CONSTANTS
  MaxUtts,     \* calls of speakOnce
  MaxCancels,  \* calls of cancel() by the second thread
  IdSpace,     \* values of a packet id: 2^16 in the code
  Prompt,      \* the child answers within the deadlines if it answers at all
  Unset        \* a cached parameter that was never sent

ASSUME EngineAssumption ==
  /\ MaxUtts \in Nat /\ MaxCancels \in Nat
  /\ IdSpace \in Nat /\ IdSpace > 2
  /\ Prompt \in BOOLEAN
  /\ Unset \notin Voices \cup Volumes

VARIABLES
  \* members of LucentEngine
  process,          \* pi_.hProcess is set
  stdinOpen,        \* stdinWrite_ is valid
  queue,            \* queue_
  event,            \* packetEvent_, an auto-reset event, is signalled
  readerFailed,     \* readerFailed_
  nextPacketId,     \* nextPacketId_
  channels,         \* channels_: id 0 stands for an absent key
  activeChannel,    \* activeChannel_
  cancelRequested,  \* cancelRequested_
  \* the reader thread
  reader,           \* "none", "reading", "pushed", "failed" or "done"
  held,             \* the packet it has read and not pushed yet, if any
  \* the caller
  pc,               \* where speakOnce is
  utt, req,         \* the number of the call, and its request
  then,             \* where closeHandles returns to: "launch" or "return"
  fresh,            \* launch was called by openChannel, not by ensureRunning
  openPid,          \* packet id of the OpenChannel being waited for
  blocked, late,    \* inside WaitForSingleObject; the deadline has passed
  consumed,         \* textConsumed
  discarding, sinkAborted,
  pending,          \* offsets of the bookmarks waiting for their audio packet
  emitted,          \* units of audio handed to the sink
  lastMark,         \* ghost: offset of the last bookmark handed to the sink
  ending,           \* the audio packet the sink refused was the last
  outcome,          \* how the last call ended
  \* the second thread, inside cancel()
  canceller, target, cancels

handleVars == <<process, stdinOpen>>
queueVars  == <<queue, event, readerFailed>>
cacheVars  == <<channels, activeChannel>>
readerVars == <<reader, held>>
callVars   == <<utt, req, then, fresh, openPid>>
waitVars   == <<blocked, late>>
renderVars == <<consumed, discarding, sinkAborted, pending, emitted, lastMark, ending>>
cancelVars == <<canceller, target, cancels>>

vars == <<serverVars, handleVars, queueVars, nextPacketId, cacheVars, cancelRequested,
          readerVars, pc, callVars, waitVars, renderVars, outcome, cancelVars>>

NoChannel == [id |-> 0, voice |-> Unset, volume |-> Unset]
CachedChannel == [id: Nat, voice: Voices \cup {Unset}, volume: Volumes \cup {Unset}]

\* The channel of the current request.
ch == channels[Key(req)]

Closing == {"closeStdin", "killChild", "joinReader", "clear"}
Sending == {"sendOpen", "params", "volume", "text", "sinkCancel"}
Waiting == {"waitOpen", "wait"}
Places  == Closing \cup Sending \cup Waiting \cup
           {"idle", "ensure", "launch", "lookup", "arm", "activate", "drop", "loop"}

Init ==
  /\ ServerInit
  /\ process = FALSE /\ stdinOpen = FALSE
  /\ queue = <<>> /\ event = FALSE /\ readerFailed = FALSE
  /\ nextPacketId = 1
  /\ channels = [k \in Keys |-> NoChannel] /\ activeChannel = 0
  /\ cancelRequested = FALSE
  /\ reader = "none" /\ held = <<>>
  /\ pc = "idle" /\ utt = 0 /\ req \in Requests
  /\ then = "return" /\ fresh = FALSE /\ openPid = 0
  /\ blocked = FALSE /\ late = FALSE
  /\ consumed = FALSE /\ discarding = FALSE /\ sinkAborted = FALSE
  /\ pending = <<>> /\ emitted = 0 /\ lastMark = 0 /\ ending = FALSE
  /\ outcome = "none"
  /\ canceller = "idle" /\ target = 0 /\ cancels = 0

-----------------------------------------------------------------------------
\* Sending: sendPacket and writeAll.

Packet(type, chan, r, u) ==
  [type |-> type, chan |-> chan, pid |-> nextPacketId, req |-> r, utt |-> u]

\* nextPacketId_ wraps at its width and skips 0.
NextId == IF nextPacketId + 1 = IdSpace THEN 1 ELSE nextPacketId + 1

Sent(m) ==
  /\ stdinOpen
  /\ Accepts(m)
  /\ nextPacketId' = NextId

SendFails ==
  /\ ~stdinOpen \/ up = "dead"
  /\ nextPacketId' = NextId
  /\ UNCHANGED serverVars

\* speakOnce returns.
Return(how) ==
  /\ pc' = "idle"
  /\ outcome' = how

-----------------------------------------------------------------------------
\* The reader thread.

ReaderReads ==
  /\ reader = "reading" /\ held = <<>> /\ outPipe # <<>>
  /\ held' = <<Head(outPipe)>>
  /\ outPipe' = Tail(outPipe)
  /\ UNCHANGED <<gen, up, inPipe, chans, jobs, handleVars, queueVars, nextPacketId,
                 cacheVars, cancelRequested, reader, pc, callVars, waitVars, renderVars,
                 outcome, cancelVars>>

\* Slip: the packet is pushed and nobody is told.
ReaderPushesSilently ==
  /\ reader = "reading" /\ held # <<>>
  /\ queue' = queue \o held
  /\ held' = <<>>
  /\ UNCHANGED <<serverVars, handleVars, event, readerFailed, nextPacketId, cacheVars,
                 cancelRequested, reader, pc, callVars, waitVars, renderVars, outcome,
                 cancelVars>>

\* The push, under cs_; the event is set after the lock is released.
ReaderPushes ==
  /\ reader = "reading" /\ held # <<>>
  /\ queue' = queue \o held
  /\ held' = <<>>
  /\ reader' = "pushed"
  /\ UNCHANGED <<serverVars, handleVars, event, readerFailed, nextPacketId, cacheVars,
                 cancelRequested, pc, callVars, waitVars, renderVars, outcome, cancelVars>>

\* End of the pipe, or a packet readPacket refuses.
ReaderFails ==
  /\ reader = "reading" /\ held = <<>>
  /\ \/ outPipe = <<>> /\ up = "dead"
     \/ outPipe # <<>>
  /\ readerFailed' = TRUE
  /\ reader' = "failed"
  /\ UNCHANGED <<serverVars, handleVars, queue, event, nextPacketId, cacheVars,
                 cancelRequested, held, pc, callVars, waitVars, renderVars, outcome,
                 cancelVars>>

ReaderSignals ==
  /\ reader \in {"pushed", "failed"}
  /\ event' = TRUE
  /\ reader' = IF reader = "pushed" THEN "reading" ELSE "done"
  /\ UNCHANGED <<serverVars, handleVars, queue, readerFailed, nextPacketId, cacheVars,
                 cancelRequested, held, pc, callVars, waitVars, renderVars, outcome,
                 cancelVars>>

Reader == ReaderReads \/ ReaderPushes \/ ReaderFails \/ ReaderSignals

-----------------------------------------------------------------------------
\* The second thread inside cancel(): it sets the flag, reads activeChannel_, and
\* writes to whatever stdin is open by then.

CancelStarts ==
  /\ canceller = "idle" /\ cancels < MaxCancels
  /\ cancelRequested' = TRUE
  /\ cancels' = cancels + 1
  /\ canceller' = "read"
  /\ UNCHANGED <<serverVars, handleVars, queueVars, nextPacketId, cacheVars, readerVars,
                 pc, callVars, waitVars, renderVars, outcome, target>>

CancelReads ==
  /\ canceller = "read"
  /\ IF activeChannel # 0 /\ stdinOpen
       THEN target' = activeChannel /\ canceller' = "send"
       ELSE target' = 0 /\ canceller' = "signal"
  /\ UNCHANGED <<serverVars, handleVars, queueVars, nextPacketId, cacheVars,
                 cancelRequested, readerVars, pc, callVars, waitVars, renderVars, outcome,
                 cancels>>

CancelSends ==
  /\ canceller = "send"
  /\ Sent(Packet("Discard", target, NoRequest, 0)) \/ SendFails
  /\ canceller' = "signal"
  /\ UNCHANGED <<handleVars, queueVars, cacheVars, cancelRequested, readerVars, pc,
                 callVars, waitVars, renderVars, outcome, target, cancels>>

CancelSignals ==
  /\ canceller = "signal"
  /\ event' = TRUE
  /\ canceller' = "idle" /\ target' = 0
  /\ UNCHANGED <<serverVars, handleVars, queue, readerFailed, nextPacketId, cacheVars,
                 cancelRequested, readerVars, pc, callVars, waitVars, renderVars, outcome,
                 cancels>>

Canceller == CancelStarts \/ CancelReads \/ CancelSends \/ CancelSignals

-----------------------------------------------------------------------------
\* speakOnce: the child is started if needed.

SpeakStarts(r) ==
  /\ pc = "idle" /\ utt < MaxUtts
  /\ pc' = "ensure"
  /\ utt' = utt + 1 /\ req' = r
  /\ consumed' = FALSE /\ discarding' = FALSE /\ sinkAborted' = FALSE
  /\ pending' = <<>> /\ emitted' = 0 /\ lastMark' = 0 /\ ending' = FALSE
  /\ UNCHANGED <<serverVars, handleVars, queueVars, nextPacketId, cacheVars,
                 cancelRequested, readerVars, then, fresh, openPid, waitVars, outcome,
                 cancelVars>>

IsRunning == process /\ up # "dead" /\ ~readerFailed

EnsureRunning ==
  /\ pc = "ensure"
  /\ fresh' = FALSE
  /\ IF IsRunning THEN pc' = "lookup" /\ UNCHANGED then
                  ELSE pc' = "closeStdin" /\ then' = "launch"
  /\ UNCHANGED <<serverVars, handleVars, queueVars, nextPacketId, cacheVars,
                 cancelRequested, readerVars, utt, req, openPid, waitVars, renderVars,
                 outcome, cancelVars>>

\* closeHandles, in its four parts: stdin, child, reader thread, bookkeeping.
CloseStdin ==
  /\ pc = "closeStdin"
  /\ stdinOpen' = FALSE
  /\ pc' = "killChild"
  /\ UNCHANGED <<serverVars, process, queueVars, nextPacketId, cacheVars,
                 cancelRequested, readerVars, callVars, waitVars, renderVars, outcome,
                 cancelVars>>

KillChild ==
  /\ pc = "killChild"
  /\ IF process THEN Kill ELSE UNCHANGED serverVars
  /\ pc' = "joinReader"
  /\ UNCHANGED <<handleVars, queueVars, nextPacketId, cacheVars, cancelRequested,
                 readerVars, callVars, waitVars, renderVars, outcome, cancelVars>>

\* Slip: closeHandles does not wait for the reader thread.
ForgetReader ==
  /\ pc = "joinReader"
  /\ reader' = "none"
  /\ outPipe' = <<>>
  /\ process' = FALSE
  /\ pc' = "clear"
  /\ UNCHANGED <<gen, up, inPipe, chans, jobs, stdinOpen, queueVars, nextPacketId,
                 cacheVars, cancelRequested, held, callVars, waitVars, renderVars,
                 outcome, cancelVars>>

\* The 3 s bound on this wait is abstracted: the child is gone, so the reader ends.
JoinReader ==
  /\ pc = "joinReader"
  /\ reader \in {"none", "done"}
  /\ reader' = "none"
  /\ outPipe' = <<>>                       \* stdoutRead_ is closed
  /\ process' = FALSE
  /\ pc' = "clear"
  /\ UNCHANGED <<gen, up, inPipe, chans, jobs, stdinOpen, queueVars, nextPacketId, cacheVars,
                 cancelRequested, held, callVars, waitVars, renderVars, outcome,
                 cancelVars>>

ClearState ==
  /\ pc = "clear"
  /\ queue' = <<>>
  /\ channels' = [k \in Keys |-> NoChannel]
  /\ activeChannel' = 0
  /\ IF then = "launch" THEN pc' = "launch" /\ UNCHANGED outcome ELSE Return("failed")
  /\ UNCHANGED <<serverVars, handleVars, event, readerFailed, nextPacketId,
                 cancelRequested, readerVars, callVars, waitVars, renderVars, cancelVars>>

LaunchStarts ==
  /\ Spawn
  /\ process' = TRUE /\ stdinOpen' = TRUE

\* Slip: packet ids restart at 0.
ZeroPacketId == 0
FirstPacketId == 1

Launch ==
  /\ pc = "launch"
  /\ readerFailed' = FALSE
  /\ nextPacketId' = FirstPacketId
  /\ \/ /\ LaunchStarts
        /\ reader' = "reading"
        /\ pc' = IF fresh THEN "sendOpen" ELSE "lookup"
        /\ UNCHANGED <<then, outcome>>
     \/ /\ LaunchStarts                     \* CreateThread fails
        /\ pc' = "closeStdin" /\ then' = "return"
        /\ UNCHANGED <<reader, outcome>>
     \/ /\ Return("failed")                 \* no ttsserver.exe, no pipe, no process
        /\ UNCHANGED <<serverVars, handleVars, reader, then>>
  /\ UNCHANGED <<queue, event, cacheVars, cancelRequested, held, utt, req, fresh, openPid,
                 waitVars, renderVars, cancelVars>>

-----------------------------------------------------------------------------
\* openChannel.

\* Slip: the exclusive front end is not noticed.
NeverRelaunch == FALSE

\* Another channel of a language that cannot host two.
MustRelaunch ==
  /\ req.lang \in Exclusive
  /\ \E k \in Keys : k[1] = req.lang /\ channels[k].id # 0

Lookup ==
  /\ pc = "lookup"
  /\ IF ch.id # 0 THEN pc' = "arm" /\ UNCHANGED <<then, fresh>>
     ELSE IF MustRelaunch THEN pc' = "closeStdin" /\ then' = "launch" /\ fresh' = TRUE
     ELSE pc' = "sendOpen" /\ UNCHANGED <<then, fresh>>
  /\ UNCHANGED <<serverVars, handleVars, queueVars, nextPacketId, cacheVars,
                 cancelRequested, readerVars, utt, req, openPid, waitVars, renderVars,
                 outcome, cancelVars>>

SendOpen ==
  /\ pc = "sendOpen"
  /\ \/ /\ Sent(Packet("Open", 0, req, 0))
        /\ openPid' = nextPacketId
        /\ pc' = "waitOpen" /\ UNCHANGED outcome
     \/ /\ SendFails \/ UNCHANGED <<serverVars, nextPacketId>>   \* no channel file
        /\ Return("failed")
        /\ UNCHANGED openPid
  /\ UNCHANGED <<handleVars, queueVars, cacheVars, cancelRequested, readerVars, utt, req,
                 then, fresh, waitVars, renderVars, cancelVars>>

-----------------------------------------------------------------------------
\* waitPacket: the queue first, then the failure flag, then the deadline.

WaitBlocks ==
  /\ pc \in Waiting /\ ~blocked
  /\ queue = <<>> /\ ~readerFailed /\ ~late
  /\ blocked' = TRUE
  /\ UNCHANGED <<serverVars, handleVars, queueVars, nextPacketId, cacheVars,
                 cancelRequested, readerVars, pc, callVars, late, renderVars, outcome,
                 cancelVars>>

WaitWakes ==
  /\ blocked /\ event
  /\ blocked' = FALSE /\ event' = FALSE
  /\ UNCHANGED <<serverVars, handleVars, queue, readerFailed, nextPacketId, cacheVars,
                 cancelRequested, readerVars, pc, callVars, late, renderVars, outcome,
                 cancelVars>>

WaitExpires ==
  /\ blocked /\ ~event
  /\ Prompt => Quiet /\ reader = "reading" /\ held = <<>>
  /\ blocked' = FALSE /\ late' = TRUE
  /\ UNCHANGED <<serverVars, handleVars, queueVars, nextPacketId, cacheVars,
                 cancelRequested, readerVars, pc, callVars, renderVars, outcome,
                 cancelVars>>

\* Slip: the deadline is not looked at.
GivesUpOnFailure ==
  /\ ~blocked /\ queue = <<>>
  /\ readerFailed
  /\ late' = FALSE
  /\ UNCHANGED <<queueVars, blocked>>

\* The caller leaves waitPacket with the oldest packet, or with nothing.
Pops ==
  /\ ~blocked /\ queue # <<>>
  /\ queue' = Tail(queue)
  /\ late' = FALSE
  /\ UNCHANGED <<event, readerFailed, blocked>>

GivesUp ==
  /\ ~blocked /\ queue = <<>>
  /\ readerFailed \/ late
  /\ late' = FALSE
  /\ UNCHANGED <<queueVars, blocked>>

\* openChannel's loop takes the OpenNotify that answers its own packet and drops
\* everything else.
IsOpenReply(p) == p.type = "OpenNotify" /\ p.pid = openPid

OpenChannelWaits ==
  /\ pc = "waitOpen"
  /\ \/ /\ Pops
        /\ LET p == Head(queue) IN
           IF ~IsOpenReply(p) THEN UNCHANGED <<pc, channels, outcome>>
           ELSE IF p.ok /\ p.chan # 0
             THEN /\ channels' = [channels EXCEPT ![Key(req)] =
                                    [NoChannel EXCEPT !.id = p.chan]]
                  /\ pc' = "arm" /\ UNCHANGED outcome
             ELSE Return("failed") /\ UNCHANGED channels
     \/ /\ GivesUp
        /\ Return("failed") /\ UNCHANGED channels
  /\ UNCHANGED <<serverVars, handleVars, nextPacketId, activeChannel, cancelRequested,
                 readerVars, callVars, renderVars, cancelVars>>

-----------------------------------------------------------------------------
\* speakOnce: from the channel to the text.

Arm ==
  /\ pc = "arm"
  /\ cancelRequested' = FALSE
  /\ pc' = "activate"
  /\ UNCHANGED <<serverVars, handleVars, queueVars, nextPacketId, cacheVars, readerVars,
                 callVars, waitVars, renderVars, outcome, cancelVars>>

Activate ==
  /\ pc = "activate"
  /\ activeChannel' = ch.id
  /\ pc' = "drop"
  /\ UNCHANGED <<serverVars, handleVars, queueVars, nextPacketId, channels,
                 cancelRequested, readerVars, callVars, waitVars, renderVars, outcome,
                 cancelVars>>

DropLeftovers ==
  /\ pc = "drop"
  /\ queue' = <<>>
  /\ pc' = "params"
  /\ UNCHANGED <<serverVars, handleVars, event, readerFailed, nextPacketId, cacheVars,
                 cancelRequested, readerVars, callVars, waitVars, renderVars, outcome,
                 cancelVars>>

\* A packet that must be sent when the cache says so; the cache is updated only once
\* the packet is in the pipe.
SendIf(stale, type, place, cache) ==
  /\ IF stale
       THEN \/ /\ Sent(Packet(type, ch.id, req, 0))
               /\ channels' = [channels EXCEPT ![Key(req)] = cache]
               /\ pc' = place /\ UNCHANGED outcome
            \/ SendFails /\ Return("failed") /\ UNCHANGED channels
       ELSE /\ pc' = place
            /\ UNCHANGED <<serverVars, nextPacketId, channels, outcome>>
  /\ UNCHANGED <<handleVars, queueVars, activeChannel, cancelRequested, readerVars,
                 callVars, waitVars, renderVars, cancelVars>>

\* Slip: parameters go out with the first text of a channel only.
SendParamsOnce ==
  /\ pc = "params"
  /\ SendIf(ch.voice = Unset, "Params", "volume", [ch EXCEPT !.voice = req.voice])

SendParams ==
  /\ pc = "params"
  /\ SendIf(ch.voice # req.voice, "Params", "volume", [ch EXCEPT !.voice = req.voice])

SendVolume ==
  /\ pc = "volume"
  /\ SendIf(ch.volume # req.volume, "Volume", "text", [ch EXCEPT !.volume = req.volume])

SendText ==
  /\ pc = "text"
  /\ \/ Sent(Packet("Text", ch.id, req, utt)) /\ pc' = "loop" /\ UNCHANGED outcome
     \/ SendFails /\ Return("failed")
  /\ UNCHANGED <<handleVars, queueVars, cacheVars, cancelRequested, readerVars, callVars,
                 waitVars, renderVars, cancelVars>>

-----------------------------------------------------------------------------
\* speakOnce: the packet loop.

LoopTop ==
  /\ pc = "loop"
  /\ discarding' = (discarding \/ cancelRequested)
  /\ pc' = "wait"
  /\ UNCHANGED <<serverVars, handleVars, queueVars, nextPacketId, cacheVars,
                 cancelRequested, readerVars, callVars, waitVars, consumed, sinkAborted,
                 pending, emitted, lastMark, ending, outcome, cancelVars>>

Ended == IF discarding' THEN "aborted" ELSE "done"

\* End of stream: speakOnce returns true.
StreamEnds == Return(Ended) /\ activeChannel' = 0

Foreign(p) == p.type = "Audio" /\ p.chan # ch.id /\ p.chan # 0

\* Bookmarks go to the sink with the audio packet that follows them.
Marks == [i \in DOMAIN pending |-> emitted + pending[i]]
MarkOf(ms) == IF ms = <<>> THEN lastMark ELSE ms[Len(ms)]

AudioTo(p, accepted) ==
  /\ emitted' = emitted + p.size
  /\ lastMark' = MarkOf(Marks)
  /\ sinkAborted' = ~accepted
  /\ IF accepted
       THEN /\ UNCHANGED <<discarding, ending>>
            /\ IF p.end THEN StreamEnds ELSE pc' = "loop" /\ UNCHANGED <<outcome, activeChannel>>
       ELSE /\ pc' = "sinkCancel"
            /\ ending' = p.end
            /\ UNCHANGED <<discarding, outcome, activeChannel>>

\* Slip: the sink is fed although it has refused audio.
AudioRegardless(p) ==
  /\ pending' = <<>>
  /\ \E accepted \in BOOLEAN : (p.size = 0 => accepted) /\ AudioTo(p, accepted)
  /\ UNCHANGED consumed

Audio(p) ==
  /\ pending' = <<>>
  /\ IF discarding \/ sinkAborted
       THEN /\ UNCHANGED <<emitted, lastMark, sinkAborted, discarding, ending>>
            /\ IF p.end THEN StreamEnds ELSE pc' = "loop" /\ UNCHANGED <<outcome, activeChannel>>
       ELSE \E accepted \in BOOLEAN :
              /\ p.size = 0 => accepted      \* the sink is not called for an empty packet
              /\ AudioTo(p, accepted)
  /\ UNCHANGED consumed

\* Slip: the utterance is taken to be over once its text has been consumed.
OtherPacketEnds(p) ==
  /\ consumed' = (consumed \/ p.type = "TextRange")
  /\ pending' = IF p.type = "BookMark" THEN Append(pending, p.size) ELSE pending
  /\ UNCHANGED <<emitted, lastMark, sinkAborted, discarding, ending>>
  /\ IF p.type = "TextRange" THEN StreamEnds
     ELSE pc' = "loop" /\ UNCHANGED <<outcome, activeChannel>>

\* The range notified for another text may or may not reach the end of this one.
OtherPacket(p) ==
  /\ consumed' \in IF p.type # "TextRange" THEN {consumed}
                   ELSE IF p.utt = utt THEN {TRUE} ELSE {consumed, TRUE}
  /\ pending' = IF p.type = "BookMark" THEN Append(pending, p.size) ELSE pending
  /\ pc' = "loop"
  /\ UNCHANGED <<emitted, lastMark, sinkAborted, discarding, ending, outcome, activeChannel>>

LoopTakes ==
  /\ pc = "wait"
  /\ Pops
  /\ LET p == Head(queue) IN
     IF p.type = "Audio" /\ ~Foreign(p) THEN Audio(p) ELSE OtherPacket(p)
  /\ UNCHANGED <<serverVars, handleVars, nextPacketId, channels, cancelRequested,
                 readerVars, callVars, cancelVars>>

\* Silence after the text was consumed is the end of a text with nothing to say;
\* any other silence costs the child its life.
LoopGivesUp ==
  /\ pc = "wait"
  /\ GivesUp
  /\ UNCHANGED discarding
  /\ IF consumed /\ ~readerFailed
       THEN StreamEnds /\ UNCHANGED then
       ELSE pc' = "closeStdin" /\ then' = "return" /\ UNCHANGED <<outcome, activeChannel>>
  /\ UNCHANGED <<serverVars, handleVars, nextPacketId, channels, cancelRequested,
                 readerVars, utt, req, fresh, openPid, consumed, sinkAborted, pending,
                 emitted, lastMark, ending, cancelVars>>

\* Slip: the call returns as soon as the sink has refused, without draining the stream.
SinkCancelReturns ==
  /\ pc = "sinkCancel"
  /\ cancelRequested' = TRUE
  /\ discarding' = TRUE
  /\ IF activeChannel # 0 /\ stdinOpen
       THEN Sent(Packet("Discard", activeChannel, NoRequest, 0)) \/ SendFails
       ELSE UNCHANGED <<serverVars, nextPacketId>>
  /\ event' = TRUE
  /\ StreamEnds
  /\ UNCHANGED <<handleVars, queue, readerFailed, channels, readerVars, callVars,
                 waitVars, consumed, sinkAborted, pending, emitted, lastMark, ending,
                 cancelVars>>

\* cancel() on the caller's own thread, after the sink has refused audio.
SinkCancel ==
  /\ pc = "sinkCancel"
  /\ cancelRequested' = TRUE
  /\ discarding' = TRUE
  /\ IF activeChannel # 0 /\ stdinOpen
       THEN Sent(Packet("Discard", activeChannel, NoRequest, 0)) \/ SendFails
       ELSE UNCHANGED <<serverVars, nextPacketId>>
  /\ event' = TRUE
  /\ IF ending THEN StreamEnds ELSE pc' = "loop" /\ UNCHANGED <<outcome, activeChannel>>
  /\ UNCHANGED <<handleVars, queue, readerFailed, channels, readerVars, callVars,
                 waitVars, consumed, sinkAborted, pending, emitted, lastMark, ending,
                 cancelVars>>

-----------------------------------------------------------------------------
Wait == WaitBlocks \/ WaitWakes \/ WaitExpires

Speak ==
  \/ EnsureRunning \/ CloseStdin \/ KillChild \/ JoinReader \/ ClearState \/ Launch
  \/ Lookup \/ SendOpen \/ OpenChannelWaits
  \/ Arm \/ Activate \/ DropLeftovers \/ SendParams \/ SendVolume \/ SendText
  \/ LoopTop \/ LoopTakes \/ LoopGivesUp \/ SinkCancel

ServerSteps ==
  /\ Server
  /\ UNCHANGED <<handleVars, queueVars, nextPacketId, cacheVars, cancelRequested,
                 readerVars, pc, callVars, waitVars, renderVars, outcome, cancelVars>>

\* The callers have nothing more to say.
Over ==
  /\ pc = "idle" /\ utt = MaxUtts
  /\ UNCHANGED vars

Next ==
  \/ \E r \in Requests : SpeakStarts(r)
  \/ Speak \/ Wait \/ Reader \/ Canceller \/ ServerSteps \/ Over

Safety == Init /\ [][Next]_vars

\* Threads run, and deadlines pass.  Nothing is assumed of the child.
Fairness == WF_vars(Speak \/ Wait) /\ WF_vars(Reader)

Spec == Safety /\ Fairness

-----------------------------------------------------------------------------
ControlTypes ==
  /\ process \in BOOLEAN /\ stdinOpen \in BOOLEAN
  /\ nextPacketId \in 1..(IdSpace - 1)
  /\ cancelRequested \in BOOLEAN
  /\ pc \in Places
  /\ outcome \in {"none", "done", "aborted", "failed"}
QueueTypes == queue \in Seq(FromServer) /\ event \in BOOLEAN /\ readerFailed \in BOOLEAN
CacheTypes == channels \in [Keys -> CachedChannel] /\ activeChannel \in Nat
ReaderTypes ==
  /\ reader \in {"none", "reading", "pushed", "failed", "done"}
  /\ held \in Seq(FromServer)
CallTypes ==
  /\ utt \in Nat /\ req \in Requests /\ then \in {"launch", "return"}
  /\ fresh \in BOOLEAN /\ openPid \in Nat
WaitTypes == blocked \in BOOLEAN /\ late \in BOOLEAN
RenderTypes ==
  /\ consumed \in BOOLEAN /\ discarding \in BOOLEAN /\ sinkAborted \in BOOLEAN
  /\ pending \in Seq(Nat) /\ emitted \in Nat /\ lastMark \in Nat /\ ending \in BOOLEAN
CancelTypes ==
  /\ canceller \in {"idle", "read", "send", "signal"}
  /\ target \in Nat /\ cancels \in Nat

EngineTypeOK ==
  /\ ControlTypes /\ QueueTypes /\ CacheTypes /\ ReaderTypes
  /\ CallTypes /\ WaitTypes /\ RenderTypes /\ CancelTypes

TypeOK == ServerTypeOK /\ EngineTypeOK

\* Everything in flight was written by the child that is running now, and a reader
\* failure that is believed is that of its own reader: closeHandles joins the reader
\* before it clears the queue, and launch forgets the failure only after that.
FromThisChild(q) == \A i \in DOMAIN q : q[i].gen = gen
OnlyThisChild ==
  /\ FromThisChild(outPipe) /\ FromThisChild(held) /\ FromThisChild(queue)
  /\ pc \notin Closing \cup {"idle", "ensure", "launch"} =>
       (readerFailed <=> reader \in {"failed", "done"})

\* A reader is never forgotten with a packet in its hands or a failure to report: from
\* the join in closeHandles to the end of launch there is none, and the queue launch
\* starts with is empty.
ReaderJoined ==
  /\ held # <<>> => reader = "reading"
  /\ reader \in {"failed", "done"} => readerFailed
  /\ pc \in {"clear", "launch"} => reader = "none"
  /\ pc = "launch" => queue = <<>>

\* A text is rendered on a channel of the language and rate, with the voice and at the
\* volume its caller asked for, although parameters are sent only when the cache says
\* they have changed (channels_, Channel::last, Channel::lastVolume).
RendersAsAsked ==
  \A i \in DOMAIN jobs :
    LET j == jobs[i] IN
    /\ chans[j.chan].key = Key(j.req)
    /\ j.voice = j.req.voice /\ j.volume = j.req.volume

\* A caller asleep in waitPacket is woken for every packet pushed and for the reader's
\* failure: the event is set, or the reader is about to set it.
NoLostWakeup ==
  blocked /\ (queue # <<>> \/ readerFailed) => event \/ reader \in {"pushed", "failed"}

\* The child is never asked for a second channel of an exclusive language: openChannel
\* relaunches it first.
NeverStuck ==
  ~ (/\ up = "up" /\ inPipe # <<>> /\ Head(inPipe).type = "Open"
     /\ Head(inPipe).req.lang \in Exclusive /\ Hosts(Head(inPipe).req.lang))

\* The sink hears only the text it was called for, never the leftovers of an earlier
\* utterance (speakOnce, "Drop anything left over from an earlier, aborted utterance").
OwnSound == [][emitted' > emitted => Head(queue).utt = utt]_vars

\* When speakOnce returns true nothing of its text is left in the pipes, the queue or
\* the child, and if it does not say "aborted" the text was not cut by a Discard.
Trace(q, u) == \E i \in DOMAIN q : q[i].utt = u
Returned == pc # "idle" /\ pc' = "idle"
CleanEnd ==
  [][Returned /\ outcome' # "failed" =>
       /\ ~ (\/ Trace(inPipe', utt) \/ Trace(jobs', utt) \/ Trace(outPipe', utt)
             \/ Trace(held', utt) \/ Trace(queue', utt))
       /\ queue # <<>> /\ Head(queue).cut => outcome' = "aborted"]_vars

\* speakOnce keeps the promises of SpeakContract.
Contract == INSTANCE SpeakContract WITH
  speaking <- (pc # "idle"), heard <- emitted, mark <- lastMark,
  refused <- sinkAborted, how <- outcome
KeepsContract == Contract!ContractSpec

\* Every call of speakOnce returns, whatever the child does (lucent_engine.h: "Blocks
\* until the engine reports end of stream, the sink aborts, or a deadline passes").
SpeakReturns == (pc # "idle") ~> (pc = "idle")

\* A call that fails because the transport did leaves no child the next call would take
\* for a running one (lucent_engine.h: "Returns false on transport failure (the child is
\* restarted on the next call)").  A channel file that cannot be written and a channel the
\* child refuses are not transport failures.
FailureRestarts ==
  [][Returned /\ outcome' = "failed" /\ pc # "sendOpen" /\ queue = <<>> => ~IsRunning']_vars

\* A call whose text was cut short by cancel() says so (test/engine_test.cpp, "thread
\* cancel": the call returns true and aborted).
CancelReported ==
  [][Returned /\ outcome' # "failed" /\ queue # <<>> /\ Head(queue).cut
       => outcome' = "aborted"]_vars
=============================================================================
