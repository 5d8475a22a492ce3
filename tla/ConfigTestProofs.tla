-------------------------- MODULE ConfigTestProofs --------------------------
(***************************************************************************)
(* Test and Stop of the configuration utility, for any number of tests: a  *)
(* stopped test is silent, and what plays is not freed.                    *)
(*                                                                         *)
(* SilentIfAsked is inductive together with what ConfigTest states of the  *)
(* window's thread, the test's thread, the messages and the player; there  *)
(* is one lemma for each of these, and AliveWhileUsed follows.             *)
(***************************************************************************)
EXTENDS ConfigTest, TLAPS

TestInv ==
  TestTypeOK /\ WindowInv /\ WorkerInv /\ QueueInv /\ PlayerInv /\ SilentIfAsked

USE TestAssumption DEF windowVars, workVars, ghosts, Posts

LEMMA FlagsStep == FlagsOK /\ [TestNext]_testVars => FlagsOK'
BY Zenon DEF FlagsOK, testVars, TestNext, Window, Worker, Clicks, SetsFlag, Silences, Joins, Launches, AfterStop, TakesMessage, Asks, Hears, SpeakReturned, Looks, Swaps, PostsPlay, WorkerEnds, SoundEnds

LEMMA TypesStep == TestTypeOK /\ WindowInv /\ [TestNext]_testVars => TestTypeOK'
<1> SUFFICES ASSUME TestTypeOK, WindowInv, [TestNext]_testVars PROVE TestTypeOK'
  OBVIOUS
<1>0. FlagsOK' BY FlagsStep DEF TestTypeOK
<1> USE <1>0 DEF TestTypeOK, Buffers, Messages
<1>1. CASE Clicks BY <1>1 DEF Clicks
<1>2. CASE SetsFlag BY <1>2 DEF SetsFlag
<1>3. CASE Silences BY <1>3 DEF Silences
<1>4. CASE Joins BY <1>4 DEF Joins
<1>5. CASE Launches BY <1>5 DEF Launches, WindowInv
<1>6. CASE AfterStop
  <2>1. CASE UNCHANGED queue BY <1>6, <2>1 DEF AfterStop
  <2>2. CASE queue' = <<>> BY <1>6, <2>2 DEF AfterStop
  <2>3. QED BY <1>6, <2>1, <2>2 DEF AfterStop
<1>7. CASE TakesMessage BY <1>7 DEF TakesMessage
<1>8. CASE Asks
  <2>1. CASE UNCHANGED queue BY <1>8, <2>1 DEF Asks
  <2>2. CASE Posts("status") BY <1>8, <2>2 DEF Asks
  <2>3. QED BY <1>8, <2>1, <2>2 DEF Asks
<1>9. CASE Hears BY <1>9 DEF Hears
<1>10. CASE SpeakReturned
  <2>1. CASE UNCHANGED queue BY <1>10, <2>1 DEF SpeakReturned
  <2>2. CASE Posts("status") BY <1>10, <2>2 DEF SpeakReturned
  <2>3. QED BY <1>10, <2>1, <2>2 DEF SpeakReturned
<1>11. CASE Looks
  <2>1. CASE UNCHANGED queue BY <1>11, <2>1 DEF Looks
  <2>2. CASE Posts("status") BY <1>11, <2>2 DEF Looks
  <2>3. QED BY <1>11, <2>1, <2>2 DEF Looks
<1>12. CASE Swaps BY <1>12 DEF Swaps
<1>13. CASE PostsPlay BY <1>13 DEF PostsPlay
<1>14. CASE WorkerEnds BY <1>14 DEF WorkerEnds
<1>15. CASE SoundEnds BY <1>15 DEF SoundEnds
<1>16. CASE UNCHANGED testVars BY <1>16 DEF testVars, FlagsOK
<1>17. QED
  BY <1>1, <1>2, <1>3, <1>4, <1>5, <1>6, <1>7, <1>8, <1>9, <1>10, <1>11, <1>12, <1>13, <1>14, <1>15, <1>16
     DEF TestNext, Window, Worker

LEMMA WindowStep == TestInv /\ [TestNext]_testVars => WindowInv'
<1> SUFFICES ASSUME TestInv, [TestNext]_testVars PROVE WindowInv'
  OBVIOUS
<1> USE DEF TestInv, WindowInv
<1>1. CASE Clicks BY <1>1 DEF Clicks
<1>2. CASE SetsFlag
  <2>1. OnItsWay => tests > 0
    BY DEF OnItsWay, WorkerInv, QueueInv, TestTypeOK, Buffers, Messages
  <2>2. stopped' = stopped \cup (1..tests) /\ late' \subseteq stopped'
    BY <1>2, <2>1 DEF SetsFlag, TestTypeOK, Buffers
  <2>3. QED BY <1>2, <2>2 DEF SetsFlag, TestTypeOK, Buffers
<1>3. CASE Silences BY <1>3 DEF Silences
<1>4. CASE Joins BY <1>4 DEF Joins
<1>5. CASE Launches BY <1>5 DEF Launches, TestTypeOK, Buffers
<1>6. CASE AfterStop BY <1>6 DEF AfterStop
<1>7. CASE TakesMessage BY <1>7 DEF TakesMessage
<1>8. CASE Asks BY <1>8 DEF Asks
<1>9. CASE Hears BY <1>9 DEF Hears
<1>10. CASE SpeakReturned BY <1>10 DEF SpeakReturned
<1>11. CASE Looks BY <1>11 DEF Looks
<1>12. CASE Swaps BY <1>12 DEF Swaps
<1>13. CASE PostsPlay BY <1>13 DEF PostsPlay
<1>14. CASE WorkerEnds BY <1>14 DEF WorkerEnds
<1>15. CASE SoundEnds BY <1>15 DEF SoundEnds
<1>16. CASE UNCHANGED testVars BY <1>16 DEF testVars
<1>17. QED
  BY <1>1, <1>2, <1>3, <1>4, <1>5, <1>6, <1>7, <1>8,
     <1>9, <1>10, <1>11, <1>12, <1>13, <1>14, <1>15, <1>16 DEF TestNext, Window, Worker

LEMMA WorkerStep == TestInv /\ [TestNext]_testVars => WorkerInv'
<1> SUFFICES ASSUME TestInv, [TestNext]_testVars PROVE WorkerInv'
  OBVIOUS
<1> USE DEF TestInv, WorkerInv
<1>1. CASE Clicks BY <1>1 DEF Clicks
<1>2. CASE SetsFlag BY <1>2 DEF SetsFlag, OnItsWay, WindowInv, TestTypeOK, Buffers
<1>3. CASE Silences BY <1>3 DEF Silences
<1>4. CASE Joins BY <1>4 DEF Joins, TestTypeOK, Buffers
<1>5. CASE Launches BY <1>5 DEF Launches, WindowInv, TestTypeOK, Buffers
<1>6. CASE AfterStop BY <1>6 DEF AfterStop, WindowInv
<1>7. CASE TakesMessage BY <1>7 DEF TakesMessage
<1>8. CASE Asks BY <1>8 DEF Asks
<1>9. CASE Hears BY <1>9 DEF Hears
<1>10. CASE SpeakReturned BY <1>10 DEF SpeakReturned
<1>11. CASE Looks BY <1>11 DEF Looks
<1>12. CASE Swaps BY <1>12 DEF Swaps, TestTypeOK, Buffers
<1>13. CASE PostsPlay BY <1>13 DEF PostsPlay
<1>14. CASE WorkerEnds BY <1>14 DEF WorkerEnds
<1>15. CASE SoundEnds BY <1>15 DEF SoundEnds
<1>16. CASE UNCHANGED testVars BY <1>16 DEF testVars
<1>17. QED
  BY <1>1, <1>2, <1>3, <1>4, <1>5, <1>6, <1>7, <1>8,
     <1>9, <1>10, <1>11, <1>12, <1>13, <1>14, <1>15, <1>16 DEF TestNext, Window, Worker

LEMMA QueueStep == TestInv /\ [TestNext]_testVars => QueueInv'
<1> SUFFICES ASSUME TestInv, [TestNext]_testVars PROVE QueueInv'
  OBVIOUS
<1> USE DEF TestInv, QueueInv
<1>1. CASE Clicks BY <1>1 DEF Clicks, TestTypeOK, Buffers, Messages
<1>2. CASE SetsFlag
  <2> SUFFICES ASSUME NEW i \in 1..Len(queue)
               PROVE  /\ queue[i].of <= tests /\ queue[i].of = tests
                      /\ queue[i].what = "play" => wav # 0 /\ wav \in late' /\ wav = tests
    BY <1>2 DEF SetsFlag
  <2>1. queue[i] \in Messages BY DEF TestTypeOK
  <2>2. queue[i].of = tests BY <1>2 DEF SetsFlag
  <2>3. queue[i].what = "play" => queue[i] = [what |-> "play", of |-> tests]
    BY <2>1, <2>2 DEF Messages
  <2>4. queue[i].what = "play" => tests \in late' BY <1>2, <2>3 DEF SetsFlag, OnItsWay
  <2>5. QED BY <2>2, <2>4 DEF TestTypeOK, Buffers
<1>3. CASE Silences BY <1>3 DEF Silences, TestTypeOK, Buffers, Messages
<1>4. CASE Joins BY <1>4 DEF Joins, TestTypeOK, Buffers, Messages
<1>5. CASE Launches BY <1>5 DEF Launches, WindowInv, TestTypeOK, Buffers, Messages
<1>6. CASE AfterStop BY <1>6 DEF AfterStop, TestTypeOK, Buffers, Messages
<1>7. CASE TakesMessage BY <1>7 DEF TakesMessage, TestTypeOK, Buffers, Messages
<1>8. CASE Asks BY <1>8 DEF Asks, TestTypeOK, Buffers, Messages
<1>9. CASE Hears BY <1>9 DEF Hears, TestTypeOK, Buffers, Messages
<1>10. CASE SpeakReturned
  <2>1. CASE UNCHANGED queue BY <1>10, <2>1 DEF SpeakReturned
  <2>2. CASE Posts("status") BY <1>10, <2>2 DEF SpeakReturned, TestTypeOK, Buffers, Messages
  <2>3. QED BY <1>10, <2>1, <2>2 DEF SpeakReturned
<1>11. CASE Looks
  <2>1. CASE UNCHANGED queue BY <1>11, <2>1 DEF Looks
  <2>2. CASE Posts("status") BY <1>11, <2>2 DEF Looks, TestTypeOK, Buffers, Messages
  <2>3. QED BY <1>11, <2>1, <2>2 DEF Looks
<1>12. CASE Swaps BY <1>12 DEF Swaps, WorkerInv, TestTypeOK, Buffers, Messages
<1>13. CASE PostsPlay BY <1>13 DEF PostsPlay, WorkerInv, TestTypeOK, Buffers, Messages
<1>14. CASE WorkerEnds BY <1>14 DEF WorkerEnds, TestTypeOK, Buffers, Messages
<1>15. CASE SoundEnds BY <1>15 DEF SoundEnds, TestTypeOK, Buffers, Messages
<1>16. CASE UNCHANGED testVars BY <1>16 DEF testVars
<1>17. QED
  BY <1>1, <1>2, <1>3, <1>4, <1>5, <1>6, <1>7, <1>8,
     <1>9, <1>10, <1>11, <1>12, <1>13, <1>14, <1>15, <1>16 DEF TestNext, Window, Worker

LEMMA PlayerStep == TestInv /\ [TestNext]_testVars => PlayerInv'
<1> SUFFICES ASSUME TestInv, [TestNext]_testVars PROVE PlayerInv'
  OBVIOUS
<1> USE DEF TestInv, PlayerInv
<1>1. CASE Clicks BY <1>1 DEF Clicks
<1>2. CASE SetsFlag BY <1>2 DEF SetsFlag
<1>3. CASE Silences BY <1>3 DEF Silences
<1>4. CASE Joins BY <1>4 DEF Joins
<1>5. CASE Launches BY <1>5 DEF Launches, WindowInv
<1>6. CASE AfterStop BY <1>6 DEF AfterStop
<1>7. CASE TakesMessage BY <1>7 DEF TakesMessage, QueueInv, TestTypeOK, Buffers, Messages
<1>8. CASE Asks BY <1>8 DEF Asks
<1>9. CASE Hears BY <1>9 DEF Hears
<1>10. CASE SpeakReturned BY <1>10 DEF SpeakReturned
<1>11. CASE Looks BY <1>11 DEF Looks
<1>12. CASE Swaps BY <1>12 DEF Swaps, WorkerInv, SilentIfAsked
<1>13. CASE PostsPlay BY <1>13 DEF PostsPlay
<1>14. CASE WorkerEnds BY <1>14 DEF WorkerEnds
<1>15. CASE SoundEnds BY <1>15 DEF SoundEnds
<1>16. CASE UNCHANGED testVars BY <1>16 DEF testVars
<1>17. QED
  BY <1>1, <1>2, <1>3, <1>4, <1>5, <1>6, <1>7, <1>8,
     <1>9, <1>10, <1>11, <1>12, <1>13, <1>14, <1>15, <1>16 DEF TestNext, Window, Worker

LEMMA SilentStep == TestInv /\ [TestNext]_testVars => SilentIfAsked'
<1> SUFFICES ASSUME TestInv, [TestNext]_testVars PROVE SilentIfAsked'
  OBVIOUS
<1> USE DEF TestInv, SilentIfAsked
<1>1. CASE Clicks BY <1>1 DEF Clicks
<1>2. CASE SetsFlag BY <1>2 DEF SetsFlag
<1>3. CASE Silences BY <1>3 DEF Silences
<1>4. CASE Joins BY <1>4 DEF Joins, WindowInv
<1>5. CASE Launches BY <1>5 DEF Launches, WindowInv
<1>6. CASE AfterStop BY <1>6 DEF AfterStop, WindowInv
<1>7. CASE TakesMessage BY <1>7 DEF TakesMessage, QueueInv, TestTypeOK, Buffers, Messages
<1>8. CASE Asks BY <1>8 DEF Asks
<1>9. CASE Hears BY <1>9 DEF Hears
<1>10. CASE SpeakReturned BY <1>10 DEF SpeakReturned
<1>11. CASE Looks BY <1>11 DEF Looks
<1>12. CASE Swaps BY <1>12 DEF Swaps
<1>13. CASE PostsPlay BY <1>13 DEF PostsPlay
<1>14. CASE WorkerEnds BY <1>14 DEF WorkerEnds
<1>15. CASE SoundEnds BY <1>15 DEF SoundEnds
<1>16. CASE UNCHANGED testVars BY <1>16 DEF testVars
<1>17. QED
  BY <1>1, <1>2, <1>3, <1>4, <1>5, <1>6, <1>7, <1>8,
     <1>9, <1>10, <1>11, <1>12, <1>13, <1>14, <1>15, <1>16 DEF TestNext, Window, Worker

-----------------------------------------------------------------------------
LEMMA TestInvariant == TestSafety => []TestInv
<1>1. TestInit => TestInv
  <2> SUFFICES ASSUME TestInit PROVE TestInv
    OBVIOUS
  <2>1. FlagsOK BY Zenon DEF TestInit, FlagsOK
  <2>2. TestTypeOK BY <2>1 DEF TestInit, TestTypeOK, Buffers, Messages
  <2>3. WindowInv BY DEF TestInit, WindowInv
  <2>4. WorkerInv BY DEF TestInit, WorkerInv
  <2>5. QueueInv BY DEF TestInit, QueueInv
  <2>6. PlayerInv /\ SilentIfAsked BY DEF TestInit, PlayerInv, SilentIfAsked
  <2>7. QED BY <2>2, <2>3, <2>4, <2>5, <2>6 DEF TestInv
<1>2. TestInv /\ [TestNext]_testVars => TestInv'
  BY TypesStep, WindowStep, WorkerStep, QueueStep, PlayerStep, SilentStep DEF TestInv
<1>3. QED BY <1>1, <1>2, PTL DEF TestSafety

\* However the window's thread, the test's thread, the posted messages and the player
\* interleave, and for any number of tests: a test that was stopped while it could still look
\* at g_stopRequested (config_main.cpp 296) is not heard.
THEOREM StoppedIsSilent == TestSafety => []SilentIfAsked
<1>1. TestInv => SilentIfAsked BY DEF TestInv
<1>2. QED BY TestInvariant, <1>1, PTL

\* The player never reads a buffer that a later test swapped out of g_wav and freed, the
\* sound of a late test excepted, and no thread speaks with a deleted engine.
THEOREM BufferAlive == TestSafety => []AliveWhileUsed
<1>1. TestInv => AliveWhileUsed BY DEF TestInv, WorkerInv, PlayerInv, AliveWhileUsed
<1>2. QED BY TestInvariant, <1>1, PTL
=============================================================================
