# Lucent TTS for SAPI 5 - formal models

TLA+ models of the wrapper that lets SAPI 5 programs speak through the Lucent
`ttsserver.exe`, the TLC configurations that check them, and theorems about them
checked by TLAPS. Paths are relative to the repository; the C++ is in `src/`.

## The system

| Part | State it keeps | Operations | What makes it correct |
|---|---|---|---|
| `ttsserver.exe` (external child process) | channels with their parameters, texts being rendered, two bounded pipes | open a channel, set parameters, render, discard | - (it may die, hang, refuse, reject) |
| `LucentEngine` transport (`src/lucent_engine.*`) | process and pipe handles, packet queue, event, failure flag, packet ids, channel cache, cancel flag, active channel | `ensureRunning`, `launch`, `closeHandles`, `openChannel`, `speakOnce`, `cancel`, the reader thread | the sink hears its own text as asked, in order; nothing of one child or text reaches the next; every call returns; `cancel` is reported |
| `LucentEngine::speak` | the stage of the repair ladder, audio of the words so far | plain, three repairs, word by word | ends; offsets stay in step |
| `lucent_textfix` | none | `repairText`, `splitIntoWords`, `hasSpeakableContent` | tags survive; nothing lost or repeated |
| `ISpTTSEngineImpl` | the engine and its lock, the settings cache, one `Speak` call | `Speak`, `build_request`, `write_audio`, `fire_marker`, `SetObjectToken`, `GetOutputFormat` | events lie where they belong in the stream; aborts and rate changes are honoured; text and channel agree |
| settings, installed voices (`lucent_settings`, `installed_voices`) | `settings.ini`, its cached copy and file time, the voices manifest | load, save, fall back to an installed voice | a reader sees a usable, current configuration |
| configuration utility (`config_main`) | worker thread, stop flag, WAV buffer, posted messages | edit, save, test, stop | a stopped test is not heard |
| COM and DLL lifetime (`com.*`, `sapi_main`) | reference counts, object count, pinning | create, AddRef, Release, `DllCanUnloadNow` | not unloaded while used |
| token enumerator (`IEnumSpObjectTokensImpl`) | voices, position | Next, Skip, Reset, Item, Clone | every voice once; references balance |
| tokens, attributes, registry, logger, installer | constants, or Win32 only | - | - |

`Speak` runs on a SAPI thread and holds `g_engineCs` while it renders, so an engine
has one speaking caller; it calls `LucentEngine::speak`, which calls `speakOnce`
once or many times, which writes packets to the child and takes packets from a
queue a reader thread fills. Audio and bookmarks go back through call-backs to the
SAPI site, which also says (through its action flags) that it wants to stop, skip
or speak faster. Any thread may call `cancel`; only the configuration utility does.

The hard behaviours: three threads and a process around one queue and one event;
children that are replaced while packets of the old one are in flight; caches that
mirror the child's state; deadlines; aborted streams that still drain; retries on two
levels, each of which renders the same text again; offsets that are rebased twice.
COM objects are shared by threads of SAPI's and die wherever the last reference goes; the
utility renders on one thread what another thread plays from a third one's memory.
`PROJECT.json` lists each hazard with its line and the properties aimed at it.

## Modules

- **TtsServer** - the child as the wrapper uses it: two bounded FIFO pipes, channels,
  jobs. Nearly all of it is external; `docs/PROTOCOL.md` and the wrapper's own code are
  what it is built from. It may die or hang at any step, refuse a channel, reject a text
  (end of stream after no audio) or accept one with nothing to say (no packet but the
  text range). A packet is one element of a pipe and an audio packet one unit of
  sound. Ghost fields say which child wrote a packet and for which call.
- **SpeakContract** - what one call of `speakOnce` promises its caller.
- **LucentEngine** - `src/lucent_engine.cpp` 44-572: the caller thread (`pc`), the reader
  thread (`reader`, `held`) and a second thread in `cancel` (`canceller`). A critical
  section is one action; what is read or written outside the locks and visible to
  another thread is an action of its own, so the reset of the cancel flag (`Arm`), the
  store to `activeChannel_` (`Activate`) and the clearing of the queue (`DropLeftovers`)
  are three, and so are push and `SetEvent` in the reader. `closeHandles` is
  `CloseStdin`, `KillChild`, `JoinReader`, `ClearState`.
- **SpeakLadder** - `LucentEngine::speak`, 574-644, over SpeakContract: each call of
  `speakOnce` does whatever the contract allows. A text is known by the number of words
  it splits into; whether a repair gives a new text is a free choice.
- **SapiSpeak** - `ISpTTSEngineImpl::Speak` 455-669 with `check_actions`, `write_audio`,
  `fire_marker` and `build_request`, over SpeakLadder; the application (the SAPI site) and
  the configuration utility are environment actions. Audio is counted in slices of
  `write_audio`. The model is the custom voice's: a fixed voice reads no settings. The
  site's rate stands for rate and volume, which are flagged and fetched alike.
- **TextFix** - `src/lucent_textfix.cpp` on sequences of character classes. The texts are
  those `Speak` puts together: escaped user text and well-formed tags.
- **SpeakText** - the first half of `ISpTTSEngineImpl::Speak` (483-592): one `Fragment` per turn
  of the loop (`append_escaped`, `add_marker`, words, spelling, pauses, bookmarks), then
  `split_chunks`, one `Chunk` per turn of its loop. It extends TextFix, whose `Parts` is the
  engine's own view of tags and escapes, so that what the one half writes is read by the
  other's definition.
- **ConfigTest** - `runTest`, `stopTest`, the two posted messages and closing in
  `config_main.cpp`: the window's thread (`ui`), the worker (`worker`), the message queue and
  the player. Tests are numbered and a buffer is known by the test whose sound it
  holds. The engine is what engine_slow and SpeakContract show of it: `onAudio` is not called
  again after it refused, and `speak` returns. `late` is a ghost: tests that had
  looked at the stop flag for the last time when they were stopped.
- **ComObjects** - `com.hpp`, the entry points of `sapi_main.cpp`, the enumerator, `OpenKey`,
  and the engine object as holder of a token and creator of the engine. A reference is
  a slot: a pointer variable of the client, a local of a call, or `token_`. `rc` and `count` are
  the code's counters; that they agree with the slots is a property. A call is a series of
  steps (`new`, `count`, `query`, `get`, `scope`, `hand`, `leave`), each of which may fail where the
  code may; what is left in scope is dropped in `Drops`. `delete this` is two steps,
  `Uncounts` (`~IUnknownImpl`) and `Destroys` (the rest, and the release of `token_`).
  `AsksUnload` and `Unloads` are the two reads of `DllCanUnloadNow` and what COM does then.
  SAPI's SpObjectToken is external; it holds one reference to its voice_token and is taken
  for one object with it.
- **Settings** - one `settings.ini` and the two programs at its ends. The utility
  (`config_main.cpp`) edits its copy and saves it key by key (`WritesKey`); any key may
  fail, and it may end between two. The process that speaks reads it through
  `current_settings`: the lock and the file time (`Enters`), the keys one by one into the
  shared copy (`LoadsKey`), the fallbacks to an installed voice (`FallsBack`), the copy out
  (`Copies`, with what SetObjectToken and build_request make of it). The first call is
  InitEngine's. Of the sixteen keys the three that constrain each other are modelled:
  language, speaker, sample rate. A missing key reads as its default, so every key has a
  value.
- **LucentEngineProofs**, **LucentStreamProofs**, **LucentRenderProofs**,
  **SapiSpeakProofs**, **TextProofs**, **SettingsProofs**, **ConfigTestProofs**,
  **ComObjectsProofs** - the theorems. The engine's come in layers, each extending the one
  before: the types of the child and the engine, children and wakeups; what is in the stream of
  packets; what is in the channel cache. TextProofs has those of TextFix and SpeakText.
- **MCEngine**, **MCSapi**, **MCSettings**, **MCCom** - constants of the runs. **MCParts** puts
  TextFix, SpeakText and ConfigTest in one run; only one of them moves in a behaviour.

Definitions marked `Slip:` are plausible mistakes, one for each property: with the slip
in place of the definition after it, TLC finds the property violated. They take no part in any
specification.

How the layers fit: LucentEngine implements SpeakContract (checked as a refinement,
`KeepsContract`), and SpeakLadder and SapiSpeak use SpeakContract in its place, so the
thread-level state space and the SAPI-level one are never multiplied. The composition
is for the caller that cancels only from its own sink, which is how SAPI uses the
engine. With a second thread in `cancel` the contract does not hold as stated: a
bookmark whose audio was discarded can then be handed out with the empty last packet.

## Runs

| Run | Question | Bounds |
|---|---|---|
| engine_prompt | Does every call keep SpeakContract, render as asked and leave nothing for the next? `TypeOK RendersAsAsked NeverStuck KeepsContract OwnSound CleanEnd` | 2 calls, three requests of an exclusive language (two voices of one channel, two sample rates), 2 audio packets, 1 bookmark, stdout of 1 packet, packet ids that wrap at 4, deadlines that pass only when the child is quiet |
| engine_slow | Is anything of one child taken for another's, or a wakeup lost, and does every call return? `OnlyThisChild ReaderJoined NoLostWakeup SpeakReturns` | 2 calls, deadlines at any moment, 1 cancel from a second thread, a child that answers idle discards, stdin that never fills |
| sapi_speak | Offsets, stops, rate changes, end of `Speak`: `TypeOK InStepUnlessRetried RateNotLost EventsPlaced QuietAfterStop SpeakEnds` | 2 chunks of up to 2 words, 2 repair passes, packets of up to 2 slices, 2 slices in all, 2 transport failures, 1 request of the application, 1 change of the configured language, 1 call |
| settings | Is what a reader gets usable, current, and what the utility showed? `TypeOK SnapshotUsable SnapshotCurrent SavedIsSpoken RateSupportedIfKept` | 2 languages, one without 11 kHz, 3 speakers, every manifest and every initial file, 2 objects, 1 save |
| parts | Do repairs and splitting keep tags and words? `RepairKeepsTagsIfEndsWell RepairOnce WordsSayItAll SpeakableHasWords` Do markers stand where they belong, and chunks cut where they may? `EventsInText ChunksWhole` Is a stopped test silent, does the player read live memory, does Stop return? `SilentIfAsked AliveWhileUsed StopReturns` | all texts of up to 4 pieces of 8 kinds; up to 3 fragments of 12 contents, every set of wanted events, chunks of 8 characters; 3 tests, any number of stops |
| com_objects | Do references and counts agree, does anything leak, is the DLL freed too early? `ComTypeOK RefsBalance UnloadSafe NoLeak` | 2 client threads with 2 and 1 pointer variables, memory for 3 objects, 2 voices, 1 lock |
| engine_stuck_open, engine_cancel, sapi_retry, sapi_encoding, settings_rate, textfix_escape | disagreements, below | as small as shows them |

Why these bounds are enough: everything one call can leave behind is seen by the next,
so two calls show it; two units of audio give a packet before and after a cut; three
requests over one exclusive language are the smallest set with a shared channel and a
forbidden pair. Two words make the second one start behind the first, two chunks do
the same one level up, two failures reach both the retry and `E_FAIL`, and two passes
already include a pass after a silent one (`Passes` is 3 in the code). A piece of each kind before and
after a tag, an escape and a space needs four pieces. For the settings one save is
three writes, each of which a load can meet before, between or after its own three reads;
the initial file is any file, as if earlier saves had been cut short; two objects are enough for one
to load while the other waits for the lock or holds an older copy. Two speakers of one
language and one of another make every branch of the fallbacks differ. Three fragments
put something before and after a marker or a pause; a window of four characters is one
less than a tag, so tags fall on every side of its edges. Three tests are one to be
stopped, one that takes its place, and one whose swap frees the first one's buffer.
Three objects are a factory or enumerator with two of its products, two voices let Next fail at the
second with the first in its hands; two threads and three variables let an object
be passed on and dropped while the other thread is in a call. The theorems
below lift these bounds for every safety property of every passing run.

`Prompt` deserves a word. The deadlines of `waitPacket` are tens of seconds (1.5 s once
the text is consumed) and are meant for children that will not answer. `Prompt = TRUE`
takes them at their word: a deadline passes only when the child has nothing to say.
`Prompt = FALSE` lets them pass at any time. The identity, wakeup and termination
properties hold either way; `OwnSound`, `CleanEnd`, `NeverStuck` and `KeepsContract` need Prompt, because
a call that gives up on a merely slow child leaves its answer, or a channel nobody
recorded, for the next one. `RendersAsAsked` needs it only where packet ids wrap around an
unanswered OpenChannel.

### Fairness

`LucentEngine!Spec`: weak fairness of the caller (its own steps and `waitPacket`,
including the passing of a deadline) and of the reader thread. Threads are scheduled and
time passes; nothing is assumed of the child. `SapiSpeak!Spec`: weak fairness of the
thread that runs `Speak`; that each `speakOnce` ends is what engine_slow shows. Both
without it for the application, the configuration utility and `cancel`. SpeakReturns needs one thing more, which engine_slow says in its bounds: the child's
stdin takes what is written. WriteFile has no deadline, and with a full pipe and a hung
child the caller waits for ever. `ConfigTest!TestFairness`: the window's thread handles its
messages and goes on with its call, the worker goes on, and `speak` returns, which is SpeakReturns
again; nothing is assumed of the user or of the player. `Settings!Spec` and
`ComObjects!ComSpec` have no fairness: only safety is stated.

## Where code and documents disagree

- **engine_stuck_open** - an open that times out leaves the hung child in place
  (`lucent_engine.cpp` 398), though `lucent_engine.h` 51-52 says the child is restarted on
  the next call.
- **engine_cancel** - `cancel` from a second thread may go unreported (`lucent_engine.cpp`
  497, 546): the caller sleeps in `waitPacket`, takes the end of the cut stream and returns
  "not aborted". `test/engine_test.cpp` 198-199 expects `aborted`. `speak` may then repair
  and re-speak the cancelled text.
- **sapi_retry** - the retry of a chunk (`ISpTTSEngineImpl.cpp` 651) counts bookmarks from
  where the first attempt began, though audio of it was written; README 222-223 says
  sample accuracy.
- **sapi_encoding** - a rate change between chunks re-reads the language, not the text
  (`ISpTTSEngineImpl.cpp` 643): old code page, new channel. `lucent_engine.h` 49.
- **settings_rate** - SetObjectToken fixes the rate, build_request re-reads the language
  (`ISpTTSEngineImpl.cpp` 409): after a change to Castilian Spanish 11025 Hz is asked of a language
  that has 8000 Hz only (README 156, 382-383), and SAPI was told 11025 Hz.
- **textfix_escape** - a full stop is put inside a final escaped backslash
  (`lucent_textfix.cpp` 48), which makes it a tag; the comments promise the contrary.

Without a run of its own: `split_chunks` promises cuts "never inside a tag" (`ISpTTSEngineImpl.cpp`
220) and falls back to a byte count (248) where the window has no space; `ChunksWhole` says
exactly when.

Properties that such behaviour would break are stated with the exception in their name
(`InStepUnlessRetried`, `RateSupportedIfKept`, `RepairKeepsTagsIfEndsWell`) or guard (`~retried` in
`QuietAfterStop` and `EventsPlaced`), so that they still say everything that does hold.

## What is proved

Engine. For all values of the constants allowed by `ServerAssumption` and `EngineAssumption` -
any requests, pipe capacities, numbers of calls and cancels, width of packet ids, prompt
or not:

- `TypeCorrect`: `Safety => []TypeOK`. `ServerTyped` gives the child's part:
  every server step keeps the types of the pipes, channels and jobs. The engine's part has
  one lemma for each group of actions.
- `ChildIdentity`, `ReaderIsJoined`, `WakeupsKept`: `OnlyThisChild`, `ReaderJoined` and
  `NoLostWakeup` are invariants. None of them is inductive alone. That the queue holds packets
  of this child only needs that no old reader is left to push one when a child is
  spawned, which is `ReaderJoined`; that in turn needs the failure flag to agree with the reader.
  The wakeup argument needs that a blocked caller is at one of its two
  waits, so that nobody clears the queue or the flag under it. The inductive invariant is
  `TypeOK /\ OnlyThisChild /\ ReaderJoined /\ (blocked => pc \in Waiting)`, and
  `NoLostWakeup` is proved on top of it.

These are statements about interleavings no test schedules; TLC has checked the same
formulas in engine_prompt and engine_slow.

Engine, with a prompt child. The other properties of engine_prompt do not hold of every child and
every caller, and their theorems name what they need in an `ASSUME`. Requests, pipe
capacities, the width of packet ids and the number of calls stay free, and the child may die,
hang, refuse and reject wherever it likes.

- `Prompt`, in all five. Without it TLC finds each of them violated; `RendersAsAsked` only if the
  packet ids wrap while an OpenChannel is unanswered, so that a late answer for one channel is taken
  for that of another.
- `~IdleDiscardEnds`, in the three about the stream: the child says nothing to a Discard it has no
  text for. Otherwise that answer ends the *next* text early, and the call after it hears the
  rest; TLC shows it for `CleanEnd` in two calls and for `OwnSound` in three. For `KeepsContract` it is
  what the argument uses; TLC knows no counterexample in three calls.
- `MaxCancels = 0`, in `ReturnsClean` and `SpeakKeepsContract`: with a second thread in `cancel` both
  properties are violated (engine_cancel is why). Only the configuration utility has one.

- `SinkHearsItsOwn`: `Safety => OwnSound`. The queue, the reader's hands and the child's stdout are read
  as one sequence, `Stream`. Each step of any thread leaves it alone, adds to its end, takes its head, or empties
  it, which is what turns three threads into a question about one list. `StreamInv`: until it
  drops the leftovers and sends its text, a call finds no text anywhere, only answers to
  OpenChannel (`Quietly`); from then on all else that comes is its own, and nothing comes after
  the end (`Mine`); a caller whose deadline has passed has nothing left to come (`Nothing`). It
  needs `LifeInv`: a dead child has nothing, and until `text` a call is as it was when it
  started.
- `ReturnsClean`: `Safety => CleanEnd`, from `CutInv`: while the call is not discarding nothing is cut.
- `SpeakKeepsContract`: `Safety => KeepsContract`, the refinement of SpeakContract, step by step: each
  engine step is a step of the contract or a stutter. `MarkInv` adds how a bookmark's position, the
  audio still owed and what the sink has heard go together.
- `RendersWhatIsAsked`: `Safety => []RendersAsAsked`. The child is always some packets behind
  the cache, so the two cannot just be compared. `CacheInv` looks through the pipe: what the
  cache says of a channel's voice or volume is what the *last* packet on its way to that
  channel will set, or what the child has if there is none (`InForce`); the same up to each
  text in the pipe. `CallerInv` says at which `pc` which of the two is the request's.
- `ChildIsNeverStuck`: `Safety => []NeverStuck`, from `OpenInv`: at most one OpenChannel is
  under way at a time, counting its answer, and the cache knows every channel of the child
  but the one being waited for. `MustRelaunch` reads the cache, so it sees what the child
  would hang on. Once a deadline has passed no answer may be on its way, which is where the
  prompt child comes in.

Speak. For all values allowed by `SapiAssumption` and `LadderAssumption` - any number of
chunks, words, repair passes, slices of a packet, failures, requests of the application - every safety
property of sapi_speak: `SapiTypeCorrect`, `StaysInStep`, `RateIsNotLost`, `EventsLieInTheAudio`,
`StopIsQuiet`. The inductive invariant `SapiInv` has, besides the types:

- `SyncInv`, the reason offsets are right: at each place of the ladder what has been written
  is the chunk's base, plus the audio of the words before, plus what this call was heard to
  say, less what is still in the sink's hands. `InStep` alone holds only between packets, and
  is lost at the first step that moves one of these numbers before another. `LadderInv` gives
  that plain and repair calls have no base, and that a pass follows a silent call.
- `StoppedInv` and `RefusedInv`: a sink that has refused is in a call on its way out, and such
  a call never ends "done", which is what keeps the ladder from trying the next word.
- `RateInv`: the rate in use, `rate` before the request is built and `reqRate` after it, is
  the site's or the flag is up, also when the application asks between the two.

Settings. For all values allowed by `SettingsAssumption` - any tables of languages and
speakers, any number of objects and saves:

- `TypeCorrect`: `Spec => []TypeOK`, together with the fact that no manifest is without a voice.
- `SnapshotsUsable` and `SnapshotsCurrent`. The invariant says who has the lock (`Locked`), that no time
  lies ahead of the file's (`TimesPassed`), that a load that began at the present file time has the
  file's keys so far (`Loading`), that between loads the shared copy is usable and, if it has
  the file's time, is the file (`Coherent`), and the same of each copy handed out (`Kept`).
  `SnapshotCurrent` alone is not inductive: it holds because the time is read *before*
  the file, so that a load which a save overtakes leaves a time behind that differs from
  the file's. The other order is the slip `NowTime`, which TLC refutes.
- `SavedVoiceIsSpoken`: the dialog always shows a usable voice, and a save that has not failed has
  written the keys before the current one (`UtilityInvariant`); a usable voice is a fixed
  point of the fallbacks (`FallBackKeeps`).
- `KeptRateIsSupported`: what SetObjectToken told an object came from a language that had the rate
  (`ToldSupported`), and that language is the one it asks in now.

Test and Stop. For any number of tests (`TestAssumption`), `StoppedIsSilent` and `BufferAlive`:
`SilentIfAsked` and `AliveWhileUsed` are invariants of `TestSafety`. The inductive invariant is
`TestTypeOK` with four parts: once stopTest has set the flag every test so far counts as
stopped, after its second step the player is silent and after its third the worker is gone (`WindowInv`); a
worker that has been stopped sees the flag or has looked too early (`WorkerInv`); an order to
play finds in g_wav the newest test's sound or a late one's (`QueueInv`); and so does the player, between
the flag and the silence too (`PlayerInv`).

COM. For all values allowed by `ComAssumption` - any finite sets of threads and objects, any numbers
of variables, voices and locks - all four invariants of com_objects: `ReferencesBalance`,
`UnloadIsSafe`, `ComTypesCorrect`, `NothingLeaks`. Three layers, each proved on top of the one
before:

- `Inv`: each object's `rc` is the number of slots that refer to it, `count` the number of counted
  objects plus locks, objects not yet counted and dying ones have the references their state says, and every call
  holds its own object, so that after "freed" there is nothing left that could be called. Balance
  is not inductive without the life of an object: a slot of a deleted object must be known to be empty.
- `Positions`: an enumerator's `index_` plus what Next is about to add does not pass the voices. That
  needs that no second call moves an enumerator Next has read (`Exclusive`) - the client's side of the bargain,
  since the code does not lock - and what the step of the call says of its vector (`MakingOK`).
- `Alive`: an object without a reference is being deleted by some thread, one that is not counted is being
  made or deleted, and only an engine object holds a reference, to a token, so that no cycle
  can keep anything. With empty hands and no calls nothing is left.

Texts. For texts of every length over the character classes of TextFix, all six invariants of
`parts` that are about texts: `RepairsKeepTags`, `RepairsOnce`, `WordsSay`, `SpeakableWords` (of `Spec`,
any number of pieces), `EventsComeInText` and `ChunksAreWhole` (of `SpeakTextSpec`, any set of contents,
any number of fragments, any chunk size above 1).

What the walks compute is proved by induction on the length of a prefix. The library's induction
theorems take an operator, which no backend can instantiate; `WFMin` takes a set. So a set of
natural numbers has a least element (`LeastNat`), a set with 0 and all successors has every number
(`SetInduction`, `UpToInduction`), and a step that stays in a set can be repeated (`Recursion`), which gives each
of the models' recursive functions its recursion equation (`PartsRule`, `KeptRule`, `FlattenRule`,
`SplitRule`, `ReadsGood`). On this rest, in order:

- *Parts.* Two stretches of text that begin alike play the same parts (`PartsAgree`). A text put behind one
  in which nothing is open (`Closed`) is read as if it stood alone (`PartsConcat`), and so is
  one cut out where nothing is open (`PartsSub`); then the characters kept of both are the
  characters kept of each (`ThoseConcat`).
- *Repairs.* `terminate` changes nothing, or puts a full stop between two halves of a text of which the
  second has no content (`TerminateHalves`); the exception, a final escaped backslash, is a third form
  (`TerminateEscape`) in which letters survive and tags do not. From the first two: tags are kept
  (`RepairKeeps`) and a repaired text has nothing left to repair (`RepairOnceLemma`).
- *Words.* `SaysUpTo` is the invariant of splitIntoWords: the words so far say the first `b`
  characters, the piece being read is the rest, nothing is open between them, and a piece that has a
  word does not end in a tag (`SaysStep`, `SplitSays`). Letters survive the full stop each word gets in any case,
  tags if no word ends in an escaped backslash, which is why `WordsSayItAll` asks for it.
- *Markers.* `Good` is the invariant of what Speak builds: nothing is open, every tag has one letter, there are as many
  tags with an "m" as ids given out, each marker's id is the rank of one of them with only spaces up to the
  marker's place (`Marked`), and so is `last_marker_id` up to the end (`Behind`), for which reason it
  may be shared. Each of append_escaped, add_marker and the two kinds of reading keeps it.
- *Chunks.* A cut at a sentence or a space cannot be in a tag or an escaped backslash, given the shape of the tags in `Good`;
  a cut at the byte count can, and then the window had no space (`CutRule`).

Only model-checked: liveness (`SpeakReturns`, `SpeakEnds`, `StopReturns`), which is out of the prover's reach
with the fairness it rests on, and the disagreements, each of which is a counterexample.

## Not modelled

Packet framing and byte layout; the content of channel files; shutdown under the loader
lock at process exit (`setDetaching`, `CleanupEngine`); the 3 s bound on joining the reader (the child is
gone by then, so it ends); double-byte code pages; the thirteen settings that stand alone, and their
conversions; file times coarser than a write (in Settings a write that changes the
file has a time of its own; two writes in one tick would let a load between them pass for
the newest); the steps of the last Release after the object is deleted, which COM
protects by unloading later; calls into one enumerator or engine object from two threads at once, which
the code does not guard against; look-ups in tokens and attributes, registry, logger,
installer. A packet id wraps, but stale `OpenNotify`
packets with a reused id are only met at the small width of engine_prompt. One call of `Speak` is
checked at a time: calls share the engine only through LucentEngine, where two are. A call that
produced nothing may have fired bookmarks, which each repair fires again: that an event
comes once is promised nowhere and not checked.

## Plan

Done: all modules above with their proofs. Left, by weight of what can go wrong:

1. **Coarse file times** in Settings: a clock that may stand still between writes, and which part of
   `SnapshotCurrent` then remains.
2. **Double-byte texts** in TextFix and SpeakText: characters of two bytes, the second of which may be a
   backslash; `split_chunks` between them.
3. **PacketFraming** - `readPacket` against `sendPacket`: a stream cut anywhere.
4. Proofs: every safety property has its theorem. Left are the weakest hypotheses:
   `RendersAsAsked` with a slow child whose packet ids do not wrap, `KeepsContract` without
   `~IdleDiscardEnds`, and what is left of the contract under `cancel`.
