------------------------------ MODULE TtsServer ------------------------------
(***************************************************************************)
(* ttsserver.exe as src/lucent_engine.cpp uses it: a child process that    *)
(* reads packets from its stdin and writes packets to its stdout, both     *)
(* bounded anonymous pipes.  The child is not part of the repository: its  *)
(* behaviour is what PROTOCOL.md and the wrapper's code expect of it, plus *)
(* the ways it can fail (die, hang, refuse a channel, reject a text).      *)
(*                                                                         *)
(* A packet is one element of a pipe; an audio packet holds one unit of    *)
(* sound.  Fields gen, utt, req and cut are ghosts: which child wrote the  *)
(* packet, for which utterance, what the caller had asked for, and whether *)
(* the stream was cut by a Discard.                                        *)
(***************************************************************************)
EXTENDS Naturals, Sequences

CONSTANTS
  Langs,            \* languages
  Exclusive,        \* languages whose front end cannot host two channels
  Rates,            \* sample rates
  Voices,           \* speaker parameters (pitch, vocal tract, speed, gender)
  Volumes,          \* values of the Volume symbol
  Requests,         \* the voice requests the callers make
  NoRequest,        \* what a packet that carries no request holds
  InCap, OutCap,    \* packets the child's stdin and stdout pipes hold
  MaxSound,         \* audio packets a text renders to, at most
  MaxMarks,         \* bookmarks in a text, at most
  IdleDiscardEnds   \* the child answers a Discard that finds nothing to drop

ASSUME ServerAssumption ==
  /\ Exclusive \subseteq Langs
  /\ Requests \subseteq [lang: Langs, rate: Rates, voice: Voices, volume: Volumes]
  /\ NoRequest \notin Requests
  /\ InCap \in Nat \ {0} /\ OutCap \in Nat \ {0}
  /\ MaxSound \in Nat /\ MaxMarks \in Nat
  /\ IdleDiscardEnds \in BOOLEAN

VARIABLES
  gen,       \* ghost: how many children have been started
  up,        \* the current child: "up", "hung" or "dead"
  inPipe,    \* its stdin, oldest packet first
  outPipe,   \* its stdout
  chans,     \* its channels; the id of a channel is its position
  jobs       \* texts it has accepted and not finished

serverVars == <<gen, up, inPipe, outPipe, chans, jobs>>

Keys == Langs \X Rates
Key(r) == <<r.lang, r.rate>>

\* Only a Discard carries no request.
ToServer ==
  [type: {"Open", "Params", "Volume", "Text"}, chan: Nat, pid: Nat, req: Requests,
   utt: Nat]
  \cup [type: {"Discard"}, chan: Nat, pid: Nat, req: {NoRequest}, utt: Nat]
FromServer ==
  [type: {"OpenNotify", "TextRange", "BookMark", "Audio"}, chan: Nat, pid: Nat,
   ok: BOOLEAN, size: Nat, end: BOOLEAN, cut: BOOLEAN, utt: Nat, gen: Nat]
ServerChannel == [key: Keys, voice: Voices, volume: Volumes]
Job == [chan: Nat, utt: Nat, req: Requests, voice: Voices, volume: Volumes,
        left: Nat, marks: Nat, ends: BOOLEAN, told: BOOLEAN, cut: BOOLEAN]

Blank == [type |-> "Audio", chan |-> 0, pid |-> 0, ok |-> TRUE, size |-> 0,
          end |-> FALSE, cut |-> FALSE, utt |-> 0, gen |-> gen]
OpenNotify(p, id, ok) ==
  [Blank EXCEPT !.type = "OpenNotify", !.pid = p, !.chan = id, !.ok = ok]
TextRange(j) == [Blank EXCEPT !.type = "TextRange", !.chan = j.chan, !.utt = j.utt]
BookMark(j, offset) ==
  [Blank EXCEPT !.type = "BookMark", !.chan = j.chan, !.utt = j.utt, !.size = offset]
Sound(j) == [Blank EXCEPT !.chan = j.chan, !.utt = j.utt, !.size = 1]
EndOfStream(c, u, n, cut) ==
  [Blank EXCEPT !.chan = c, !.utt = u, !.size = n, !.end = TRUE, !.cut = cut]

ServerInit ==
  /\ gen = 0
  /\ up = "dead"
  /\ inPipe = <<>> /\ outPipe = <<>>
  /\ chans = <<>> /\ jobs = <<>>

-----------------------------------------------------------------------------
\* What the wrapper does to the child.

\* CreateProcess with two new pipes.
Spawn ==
  /\ gen' = gen + 1
  /\ up' = "up"
  /\ inPipe' = <<>> /\ outPipe' = <<>>
  /\ chans' = <<>> /\ jobs' = <<>>

\* WriteFile on the child's stdin: blocks while the pipe is full, fails when the
\* child is gone.
Accepts(m) ==
  /\ up # "dead"
  /\ Len(inPipe) < InCap
  /\ inPipe' = Append(inPipe, m)
  /\ UNCHANGED <<gen, up, outPipe, chans, jobs>>

\* What the child has written stays in the stdout pipe; the rest dies with it.
Kill ==
  /\ up' = "dead"
  /\ inPipe' = <<>> /\ chans' = <<>> /\ jobs' = <<>>
  /\ UNCHANGED <<gen, outPipe>>

\* Nothing more will come from the child until somebody writes to it.
Quiet ==
  /\ outPipe = <<>>
  /\ up = "hung" \/ (up = "up" /\ inPipe = <<>> /\ jobs = <<>>)

-----------------------------------------------------------------------------
\* What the child does.

Says(p) ==
  /\ Len(outPipe) < OutCap
  /\ outPipe' = Append(outPipe, p)

Reads(type) ==
  /\ up = "up"
  /\ inPipe # <<>>
  /\ Head(inPipe).type = type
  /\ inPipe' = Tail(inPipe)
  /\ UNCHANGED gen

Hosts(lang) == \E c \in DOMAIN chans : chans[c].key[1] = lang

ServerOpens ==
  /\ Reads("Open")
  /\ LET m == Head(inPipe) IN
     /\ ~ (m.req.lang \in Exclusive /\ Hosts(m.req.lang))
     /\ \/ /\ \E voice \in Voices, volume \in Volumes :
                chans' = Append(chans, [key |-> Key(m.req), voice |-> voice,
                                        volume |-> volume])
           /\ Says(OpenNotify(m.pid, Len(chans) + 1, TRUE))
        \/ /\ Says(OpenNotify(m.pid, 0, FALSE))
           /\ UNCHANGED chans
  /\ UNCHANGED <<up, jobs>>

\* A second channel of an exclusive language hangs the child.
ServerStuck ==
  /\ Reads("Open")
  /\ Head(inPipe).req.lang \in Exclusive
  /\ Hosts(Head(inPipe).req.lang)
  /\ up' = "hung"
  /\ jobs' = <<>>
  /\ UNCHANGED <<outPipe, chans>>

Adjusted(c, m) ==
  IF m.type = "Params" THEN [c EXCEPT !.voice = m.req.voice]
                       ELSE [c EXCEPT !.volume = m.req.volume]

ServerAdjusts(type) ==
  /\ Reads(type)
  /\ LET m == Head(inPipe) IN
     chans' = [c \in DOMAIN chans |->
                 IF c = m.chan THEN Adjusted(chans[c], m) ELSE chans[c]]
  /\ UNCHANGED <<up, outPipe, jobs>>

\* A text renders to sound, or is rejected (a clean end after no sound), or has
\* nothing speakable in it (no audio packet at all, not even the end).
ServerAccepts ==
  /\ Reads("Text")
  /\ LET m == Head(inPipe) IN
     IF m.chan \in DOMAIN chans
       THEN \E n \in 0..MaxSound, marks \in 0..MaxMarks, ends \in BOOLEAN :
              /\ ~ends => n = 0
              /\ jobs' = Append(jobs,
                   [chan |-> m.chan, utt |-> m.utt, req |-> m.req,
                    voice |-> chans[m.chan].voice, volume |-> chans[m.chan].volume,
                    left |-> n, marks |-> marks, ends |-> ends, told |-> FALSE,
                    cut |-> FALSE])
       ELSE UNCHANGED jobs
  /\ UNCHANGED <<up, outPipe, chans>>

\* Discard drops what is left of a channel's texts; each ends with an empty packet.
Cut(j) ==
  [j EXCEPT !.left = 0, !.marks = 0, !.ends = TRUE, !.told = TRUE, !.cut = TRUE]

ServerDiscards ==
  /\ Reads("Discard")
  /\ LET c == Head(inPipe).chan IN
     /\ jobs' = [i \in DOMAIN jobs |-> IF jobs[i].chan = c THEN Cut(jobs[i]) ELSE jobs[i]]
     /\ IF IdleDiscardEnds /\ \A i \in DOMAIN jobs : jobs[i].chan # c
          THEN Says(EndOfStream(c, 0, 0, TRUE))
          ELSE UNCHANGED outPipe
  /\ UNCHANGED <<up, chans>>

ServerReads ==
  \/ ServerOpens
  \/ ServerStuck
  \/ ServerAdjusts("Params")
  \/ ServerAdjusts("Volume")
  \/ ServerAccepts
  \/ ServerDiscards

Works ==
  /\ up = "up"
  /\ jobs # <<>>
  /\ UNCHANGED <<gen, up, inPipe, chans>>

\* A bookmark precedes the audio packet it belongs to, and its offset lies in it.
SaysBookMark ==
  /\ Works
  /\ LET j == Head(jobs) IN
     /\ j.marks > 0
     /\ \E offset \in 0..(IF j.left > 0 THEN 1 ELSE 0) : Says(BookMark(j, offset))
     /\ jobs' = [jobs EXCEPT ![1].marks = @ - 1]

SaysSound ==
  /\ Works
  /\ Head(jobs).left > 0
  /\ Says(Sound(Head(jobs)))
  /\ jobs' = [jobs EXCEPT ![1].left = @ - 1]

\* The notification that the whole text has been consumed.
SaysRange ==
  /\ Works
  /\ ~Head(jobs).told
  /\ Says(TextRange(Head(jobs)))
  /\ jobs' = [jobs EXCEPT ![1].told = TRUE]

\* The last packet may still carry sound.
Finishes ==
  /\ Works
  /\ LET j == Head(jobs) IN
     /\ j.told /\ j.left <= 1 /\ j.marks = 0
     /\ IF j.ends THEN Says(EndOfStream(j.chan, j.utt, j.left, j.cut))
                  ELSE UNCHANGED outPipe
  /\ jobs' = Tail(jobs)

ServerWorks == SaysBookMark \/ SaysSound \/ SaysRange \/ Finishes

\* The child stops answering for good but keeps its pipes open.
ServerHangs ==
  /\ up = "up"
  /\ up' = "hung"
  /\ jobs' = <<>>
  /\ UNCHANGED <<gen, inPipe, outPipe, chans>>

\* The child dies, of itself or because its stdin was closed.
ServerDies ==
  /\ up # "dead"
  /\ Kill

Server == ServerReads \/ ServerWorks \/ ServerHangs \/ ServerDies

ServerTypeOK ==
  /\ gen \in Nat
  /\ up \in {"up", "hung", "dead"}
  /\ inPipe \in Seq(ToServer)
  /\ outPipe \in Seq(FromServer)
  /\ chans \in Seq(ServerChannel)
  /\ jobs \in Seq(Job)
=============================================================================
