----------------------------- MODULE ConfigTest -----------------------------
(***************************************************************************)
(* Test and Stop of the configuration utility (src/config_main.cpp): the   *)
(* window's thread, the thread that renders a test, the messages posted    *)
(* from one to the other, and the player, which plays asynchronously from  *)
(* the memory of g_wav.                                                    *)
(*                                                                         *)
(* Tests are numbered; a buffer has the number of the test whose sound it  *)
(* holds, 0 stands for none.  speak is what the engine's modules show of   *)
(* it: it calls onAudio any number of times, not again once that refused,  *)
(* and returns.  cancel(), which stopTest calls after it has set the flag, *)
(* only makes it return sooner; speak may return at any time here.         *)
(* g_testRunning is written and never read.                                *)
(***************************************************************************)
EXTENDS Integers, Sequences

CONSTANT MaxTests   \* tests in one session

ASSUME TestAssumption == MaxTests \in Nat

VARIABLES
  ui,        \* where the window's thread is
  then,      \* what it does once stopTest returns: "test", "stop", "close" or "exit"
  stop,      \* g_stopRequested
  engine,    \* g_engine exists
  tests,     \* number of the newest test
  worker,    \* where that test's thread is
  pcm,       \* it has heard audio
  queue,     \* messages posted to the window: [what, of], of being the test that posted
  wav,       \* the sound in g_wav
  old,       \* the buffer the thread swapped out of g_wav and frees when it ends
  playing,   \* the buffer the player reads
  stopped,   \* tests that stopTest was called on
  late       \* those of them that had looked for the last time by then and were still to be heard

testVars == <<ui, then, stop, engine, tests, worker, pcm, queue, wav, old, playing,
              stopped, late>>
windowVars == <<ui, then, stop, engine, tests>>
workVars   == <<worker, pcm, wav, old>>
ghosts     == <<stopped, late>>

\* The newest test has looked at the flag for the last time, and its sound is to come.
OnItsWay ==
  \/ worker \in {"swaps", "posts"}
  \/ \E i \in 1..Len(queue) : queue[i] = [what |-> "play", of |-> tests]

TestInit ==
  /\ ui = "idle" /\ then = "stop" /\ stop = FALSE /\ engine = FALSE
  /\ tests = 0 /\ worker = "none" /\ pcm = FALSE /\ queue = <<>>
  /\ wav = 0 /\ old = 0 /\ playing = 0
  /\ stopped = {} /\ late = {}

-----------------------------------------------------------------------------
(* The window's thread.  Posted messages are taken before input. *)

\* Test, Stop, or the dialog is closed.
Clicks ==
  /\ ui = "idle" /\ queue = <<>>
  /\ then' \in {"test", "stop", "close"}
  /\ then' = "test" => tests < MaxTests
  /\ ui' = "flags"
  /\ UNCHANGED <<stop, engine, tests, queue, playing>> /\ UNCHANGED workVars /\ UNCHANGED ghosts

\* Slip: the flag is not set; cancel() alone must do.
ForgetsFlag ==
  /\ ui = "flags" /\ ui' = "silences"
  /\ stopped' = stopped \cup (1..tests)
  /\ late' = late \cup (IF OnItsWay THEN {tests} ELSE {})
  /\ UNCHANGED <<then, stop, engine, tests, queue, playing>> /\ UNCHANGED workVars

\* stopTest sets the flag and cancels ...
SetsFlag ==
  /\ ui = "flags" /\ ui' = "silences"
  /\ stop' = TRUE
  /\ stopped' = stopped \cup (1..tests)
  /\ late' = late \cup (IF OnItsWay THEN {tests} ELSE {})
  /\ UNCHANGED <<then, engine, tests, queue, playing>> /\ UNCHANGED workVars

\* Slip: a new test does not silence the one before.
SilencesUnlessTest ==
  /\ ui = "silences" /\ ui' = "joins"
  /\ playing' = IF then = "test" THEN playing ELSE 0
  /\ UNCHANGED <<then, stop, engine, tests, queue>> /\ UNCHANGED workVars /\ UNCHANGED ghosts

\* ... stops the player ...
Silences ==
  /\ ui = "silences" /\ ui' = "joins"
  /\ playing' = 0
  /\ UNCHANGED <<then, stop, engine, tests, queue>> /\ UNCHANGED workVars /\ UNCHANGED ghosts

\* ... and waits for the thread, if there is one.
Joins ==
  /\ ui = "joins" /\ worker \in {"none", "ended"}
  /\ worker' = "none" /\ ui' = then
  /\ UNCHANGED <<then, stop, engine, tests, pcm, wav, old, queue, playing>> /\ UNCHANGED ghosts

\* runTest after stopTest: it returns if there is no engine directory, which does not change
\* while an engine exists.
Launches ==
  /\ ui = "test" /\ ui' = "idle"
  /\ \/ /\ stop' = FALSE /\ engine' = TRUE
        /\ tests' = tests + 1 /\ worker' = "asks" /\ pcm' = FALSE
     \/ /\ ~engine
        /\ UNCHANGED <<stop, engine, tests, worker, pcm>>
  /\ UNCHANGED <<then, wav, old, queue, playing>> /\ UNCHANGED ghosts

\* Stop is done; or the dialog ends, taking its messages with it, and wWinMain stops once
\* more and deletes the engine.
AfterStop ==
  /\ \/ ui = "stop"  /\ ui' = "idle"  /\ UNCHANGED <<then, engine, queue>>
     \/ ui = "close" /\ ui' = "flags" /\ then' = "exit" /\ queue' = <<>> /\ UNCHANGED engine
     \/ ui = "exit"  /\ ui' = "gone"  /\ engine' = FALSE /\ UNCHANGED <<then, queue>>
  /\ UNCHANGED <<stop, tests, playing>> /\ UNCHANGED workVars /\ UNCHANGED ghosts

\* WM_APP_STATUS shows a text; WM_APP_PLAY plays what g_wav holds now.
TakesMessage ==
  /\ ui = "idle" /\ queue # <<>>
  /\ queue' = Tail(queue)
  /\ playing' = IF Head(queue).what = "play" THEN wav ELSE playing
  /\ UNCHANGED windowVars /\ UNCHANGED workVars /\ UNCHANGED ghosts

Window == SetsFlag \/ Silences \/ Joins \/ Launches \/ AfterStop \/ TakesMessage

-----------------------------------------------------------------------------
(* The thread of a test. *)

\* Slip: SendMessage, which returns when the window has handled the message.
Sends(what) == ui = "idle" /\ queue' = Append(queue, [what |-> what, of |-> tests])

Posts(what) == queue' = Append(queue, [what |-> what, of |-> tests])

\* The voice is looked up; an unknown one ends the test.
Asks ==
  /\ worker = "asks"
  /\ \/ worker' = "speaks" /\ UNCHANGED queue
     \/ worker' = "ends"   /\ Posts("status")
  /\ UNCHANGED windowVars /\ UNCHANGED <<pcm, wav, old, playing>> /\ UNCHANGED ghosts

\* onAudio keeps what it is given and refuses more once the flag is set; what the engine
\* still does with the text cannot be heard.
Hears ==
  /\ worker = "speaks" /\ engine
  /\ pcm' = TRUE
  /\ worker' = IF stop THEN "refused" ELSE "speaks"
  /\ UNCHANGED windowVars /\ UNCHANGED <<wav, old, queue, playing>> /\ UNCHANGED ghosts

\* speak returns: false if it failed.
SpeakReturned ==
  /\ worker \in {"speaks", "refused"}
  /\ \/ worker' = "looks" /\ UNCHANGED queue
     \/ worker' = "ends"  /\ Posts("status")
  /\ UNCHANGED windowVars /\ UNCHANGED <<pcm, wav, old, playing>> /\ UNCHANGED ghosts

Looks ==
  /\ worker = "looks"
  /\ IF stop \/ ~pcm THEN worker' = "ends" /\ Posts("status")
                     ELSE worker' = "swaps" /\ UNCHANGED queue
  /\ UNCHANGED windowVars /\ UNCHANGED <<pcm, wav, old, playing>> /\ UNCHANGED ghosts

Swaps ==
  /\ worker = "swaps" /\ worker' = "posts"
  /\ wav' = tests /\ old' = wav
  /\ UNCHANGED windowVars /\ UNCHANGED <<pcm, queue, playing>> /\ UNCHANGED ghosts

PostsPlay ==
  /\ worker = "posts" /\ worker' = "ends"
  /\ Posts("play")
  /\ UNCHANGED windowVars /\ UNCHANGED <<pcm, wav, old, playing>> /\ UNCHANGED ghosts

\* The thread ends; its buffer, which was g_wav's, is freed.
WorkerEnds ==
  /\ worker = "ends" /\ worker' = "ended" /\ old' = 0
  /\ UNCHANGED windowVars /\ UNCHANGED <<pcm, wav, queue, playing>> /\ UNCHANGED ghosts

Worker == Asks \/ Hears \/ SpeakReturned \/ Looks \/ Swaps \/ PostsPlay \/ WorkerEnds

\* The player comes to the end of the sound.
SoundEnds ==
  /\ playing # 0 /\ playing' = 0
  /\ UNCHANGED windowVars /\ UNCHANGED workVars /\ UNCHANGED queue /\ UNCHANGED ghosts

TestNext == Clicks \/ Window \/ Worker \/ SoundEnds

\* Threads are scheduled; speak returns (SpeakReturns of LucentEngine).
TestFairness ==
  /\ WF_testVars(Window)
  /\ WF_testVars(Asks \/ Looks \/ Swaps \/ PostsPlay \/ WorkerEnds)
  /\ WF_testVars(SpeakReturned)

TestSafety == TestInit /\ [][TestNext]_testVars
TestSpec   == TestSafety /\ TestFairness

-----------------------------------------------------------------------------
Buffers == 0..MaxTests
Messages == [what : {"play", "status"}, of : Buffers]

FlagsOK == stop \in BOOLEAN /\ engine \in BOOLEAN /\ pcm \in BOOLEAN

TestTypeOK ==
  /\ FlagsOK
  /\ ui \in {"idle", "flags", "silences", "joins", "test", "stop", "close", "exit", "gone"}
  /\ then \in {"test", "stop", "close", "exit"}
  /\ tests \in Buffers /\ wav \in Buffers /\ old \in Buffers /\ playing \in Buffers
  /\ worker \in {"none", "asks", "speaks", "refused", "looks", "swaps", "posts", "ends",
                 "ended"}
  /\ queue \in Seq(Messages)
  /\ stopped \subseteq Buffers /\ late \subseteq Buffers

\* Why the properties below hold.  The window's thread: once stopTest has set the flag the
\* tests so far are stopped, then the player is silent, then the thread is gone.
WindowInv ==
  /\ stopped \subseteq 1..tests /\ late \subseteq stopped
  /\ ui \in {"silences", "joins", "test", "stop", "close", "exit"} => 1..tests \subseteq stopped
  /\ ui \in {"joins", "test", "stop", "close", "exit", "gone"} => playing = 0
  /\ ui \in {"test", "stop", "close", "exit", "gone"} => worker = "none"
  /\ ui = "test" \/ (ui \in {"flags", "silences", "joins"} /\ then = "test") => tests < MaxTests

\* The test's thread: it has an engine, sees that it was stopped, or has looked too early.
WorkerInv ==
  /\ worker # "none" => engine /\ tests > 0
  /\ worker \in {"asks", "speaks", "refused", "looks"} /\ tests \in stopped => stop
  /\ worker \in {"swaps", "posts"} => tests \in late \/ tests \notin stopped
  /\ worker = "posts" => wav = tests

\* The messages: what an order to play will play, and that it is the newest test's if the
\* window did not wait for the newest message.
QueueInv ==
  \A i \in 1..Len(queue) :
    /\ queue[i].of <= tests /\ (ui # "idle" => queue[i].of = tests)
    /\ queue[i].what = "play" =>
         /\ wav # 0 /\ (wav \in late \/ (wav = tests /\ tests \notin stopped))
         /\ queue[i].of = tests => wav = tests

\* The player, at the moment between flag and silence too.
PlayerInv ==
  playing # 0 => playing \in late \/ (playing = tests /\ playing = wav)

\* A test that was stopped while it could still look at the flag is not heard afterwards:
\* not when Stop is over, not behind the next test (stopTest, 224-230, and the look in
\* runTest, 296).  What is heard is the newest test, or one that had looked too early: its
\* WM_APP_PLAY is already on its way and nothing takes it back.
SilentIfAsked ==
  playing # 0 /\ ui # "silences" =>
    \/ playing \in late
    \/ playing = tests /\ playing \notin stopped

\* What the player reads is in g_wav and not a buffer a later test has swapped out and freed
\* (310), and a thread that speaks has an engine (wWinMain deletes it after the join).  The
\* sound of a late test is the exception: stopTest silenced the player before it came.
AliveWhileUsed ==
  /\ playing # 0 /\ playing \notin late => playing = wav
  /\ worker \in {"speaks", "refused"} => engine

\* Test, Stop and closing come to an end: the join does not wait for a thread that waits for
\* the window.
StopReturns == (ui = "flags") ~> (ui \in {"idle", "gone"})
=============================================================================
