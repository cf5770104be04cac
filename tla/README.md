# TGSpeechBox in TLA+

TGSpeechBox is a formant speech synthesizer: a C++ engine that turns frames of
formant parameters into samples, a C++ frontend that turns IPA into frames, and
one driver per platform (an NVDA add-on, a Speech Dispatcher module, an iOS audio
unit, an Android service, a SAPI engine). These modules model the part of it
where the order of events matters: the queue of frames between the threads that
speak and the thread that plays, the generator that pulls from it, the words of a text
matched with what eSpeak said of them, the passes that rewrite tokens and the frames they
become, the packs and the programs that edit them, and, on each platform, the threads,
processes and shared settings around them.

## Inventory

| Component | State | Operations | Talks to | Hard behaviour |
|---|---|---|---|---|
| Frame manager, `src/frame.cpp` | request queue, old and new request, current frame, flags for silence and purge, sample counter, last user index | queueFrame(Ex) with or without purge, getCurrentFrameWithEx, getLastIndex, checkAndClearPurgeFlag | callers queue from any thread, the generator pulls | purges in any phase, fades from and to silence, reads after the unlock, counter wrap |
| Wave generator, `src/speechWaveGenerator.cpp` | wasSilence, fade counters, lookahead line, time-stretch accumulator, filters | generate, setters | pulls from the frame manager | purge in mid-buffer, underrun and recovery, early return |
| Player API, `src/speechPlayer.cpp` | the two objects above | wrappers | every driver | none of its own |
| Frontend: text and IPA to frames, `src/frontend/nvspFrontend.cpp`, `text_prepare.cpp`, `text_parser.cpp`, `dict_lookup.cpp`, `ipa_parser.cpp`, `ipa_engine.cpp`, `frame_emit.cpp` | pronunciations kept from prepareText to runTextParser, the tokens of a chunk, what the stream ended with, the frame emitter's locals | prepareText, runTextParser, queueIPA, setLanguage, overrides, pitch mode | the drivers call it, eSpeak reads the text between two calls, frames go to the player | words and IPA divided by different rules and matched by position; passes that insert, erase and merge under indices and flags of other passes; frames that repeat each other's commands |
| Frontend passes, `src/frontend/passes` | tokens | one function per pass | the frontend | as above |
| Language packs, `src/frontend/pack.cpp`, `frontend_data_api.cpp`, `data_query.cpp` | the pack in force, a cached listing, the dictionaries switched off | load, setData, queryData, overrides | files, preferences, the editors | a pack is replaced as a whole and loses what was set in it; the same files are read by two routes |
| NVDA driver, `nvdaAddon/.../audio.py`, `speech_pipeline.py`, `__init__.py` | isSpeaking, allFramesQueued, wake event, generation, job queue | speak, cancel, pause, terminate, the loops of BgThread and AudioThread | NVDA's main thread, the player, nvwave's WavePlayer | unlocked flags shared by three threads, generation checks, callbacks |
| Speech Dispatcher module, `src/platforms/speechd/sd_tgsb.cpp` | read buffer, settings, player | SPEAK, STOP, PAUSE, SET, LIST VOICES, AUDIO, QUIT | one thread, stdin and stdout | a STOP that arrives during synthesis or is already buffered |
| Android service, `TgsbTtsService.kt`, `tgsb_jni.cpp`; application, `TgsbViewModel.kt`, `DictionaryEditorScreen.kt` | stored overrides and their version, the native engine's pack, language and mode, two stop flags, eSpeak | onSynthesizeText, onStop, onLoadVoice, onLoadLanguage, the editor's edits and imports | four threads and a system that kills the process; both parts share preferences and eSpeak | settings that change under a request, failed loads, a stop before the start |
| iOS audio unit, `TGSBAudioUnit.swift` and bridge; host application, `TgsbEngine.swift` | the buffer handed to the render block, cancel flag, cached voice, language and version | synthesizeSpeechRequest, cancelSpeechRequest, render; edits in another process | the host's audio thread, shared preferences | the hand-over against cancel and render, a version written after its value |
| SAPI engine, `src/sapi` | one runtime per COM object, a cached one, eSpeak, the token | SetObjectToken, Speak, GetOutputFormat, construction and destruction | the site's actions and its audio | abort and skip anywhere, a full device, runtimes that outlive their object |
| Pack editor for Windows, `tools/tgsbPhonemeEditorWin32` | phonemes, a language and a dictionary in memory with their dirty flags, the language box, a runtime with its own copy of the files | open, clone, edit, save, the dictionary dialog, Speak | files that others edit, the frontend library | documents, box and runtime that a failed step leaves apart; saves over changed files |
| NVDA settings, `nvdaAddon/.../__init__.py`, `voice_management.py`, `voicing_tone.py`, `lang_pack_settings.py`, `langPackYaml.py`, `langPackSettingsPanel.py`; `yaml_min.cpp` | the driver's voice, language and sliders, the panel's edits, NVDA's configuration, YAML files | choose, save, import, reset, load, restart | the frontend, the player, eSpeak; both programs write the files | one value that reaches three parts by many routes; files edited by lines and read by two parsers |
| Signal processing, other tools | numbers, data files, dialogs | mostly pure functions | | none a model checker reaches |

What makes each modelled part correct: the frame manager loses, repeats and
reorders nothing but what a purge drops, keeps its copy of the current frame in
step with the requests, and leaves and enters silence at zero gain; the generator
never lets purged sound out and always ends; the text parser gives every pronunciation and
stress of a dictionary to its own word and moves no sound; the passes lose no word, no stress and no
closure, and every command of the pitch model is heard once; the drivers speak each
text in the voice and with the settings that are stored for it, play utterances in
order, report an index or a bookmark at its place, go quiet on a cancel, and answer
every request; the editors show what is in force, speak what they show, and lose no change
that the user did not give up.

## Modules

    RequestQueue          what the callers of the frame manager may rely on
      ^ implemented by
    FrameManager          frame.cpp                      WaveGeneratorProofs
      ^ extended by
    WaveGenerator         speechWaveGenerator.cpp        WaveGeneratorProofs

    TextPrepare           text_parser.cpp (prepareTextForEspeak), text_prepare.cpp,
                          dict_lookup.cpp: text for eSpeak
      ^ extended by
    TextParser            eSpeak (external), text_parser.cpp (runTextParser)

    IpaTokens             ipa_parser.cpp: IPA to tokens
      ^ extended by
    TokenPasses           ipa_engine.cpp, passes/
      ^ extended by
    FrameEmit             nvspFrontend.cpp, frame_emit.cpp, and the player's side of
                          the commands

    FrontendHandle        the frontend's language, pack and overrides, as operators
      ^ extended by
    AndroidTts            TgsbTtsService.kt, tgsb_jni.cpp, TgsbViewModel.kt
                                                         AndroidTtsProofs
    AudioUnit             TGSBAudioUnit.swift, tgsb_bridge.cpp, TgsbEngine.swift
                                                         AudioUnitProofs

    PackFiles             pack.cpp, data_query.cpp: the files of a language
      ^ extended by
    PackData              frontend_data_api.cpp, TgsbViewModel.kt,
                          DictionaryEditorScreen.kt      PackDataProofs

    PhonemeEditor         tools/tgsbPhonemeEditorWin32   PhonemeEditorProofs

    NvdaDriver            audio.py, speech_pipeline.py, __init__.py
                                                         NvdaDriverProofs

    SettingsStore         what the add-on's settings promise
      ^ implemented by
    NvdaSettings          __init__.py and the modules of settings, NVDA's configuration;
                          it extends PackFiles and
    YamlText              yaml_min.cpp, langPackYaml.py, nvspFrontend.cpp: files as lines

    SpeechdEvents         what the Speech Dispatcher server may rely on
      ^ implemented by
    SpeechdModule         sd_tgsb.cpp                    SpeechdProofs

    SapiRuntime           sapi/tgsb_runtime.cpp, the runtime cache
      ^ extended by
    SapiEngine            ISpTTSEngineImpl.cpp           SapiEngineProofs

    MCWaveGenerator, MCTextParser, MCFrameEmit, MCAndroidTts, MCAudioUnit, MCNvdaDriver, MCNvdaSettings, MCSpeechdModule, MCSapiEngine, MCPackData, MCPhonemeEditor
                          instances for TLC

**RequestQueue** is the abstract specification: a sequence of pending requests, the
one playing, the index reported. Requests start in order; a purging one drops the
rest.

**FrameManager** has the fields of `FrameManagerImpl` under short names: `queue`,
`old`, `new`, `cur`, `curNull`, `curHasEx`, `counter`, `lastIndex`, `purgeFlag`. A
frame of 47 numbers is abstracted to the request its formants come from, its gain
(zero, the residual gain of an aspirated tail, its own), and whether voice and
aspiration sound: what the silences and purges of the code change. The blend of a
fade is the pair of frames it is between. `QueueFrame` and `QueueFramePurging` are
queueFrameEx; the five branches of updateCurrentFrame are `FinishFade`,
`Crossfade`, `StartRequest`, `RunDry` and `Hold`, of which `UpdateCurrentFrame` takes one
under the lock; `ReturnFrame` is the unlocked read of curFrameIsNULL at
frame.cpp:648. Pitch and formant ramps inside one request are abstracted away.
`submitted`, `purgeId`, `started` and `heard` are history.

**WaveGenerator** adds the locals and members of generate that control it. Each
sample is a `Pull`, its `Pulled`, and one of `RenderFrame`, `RenderTail` and `GiveUp`;
`NextSample` closes it, and time-stretch pulls again. A rendered sample is only its tag,
which the lookahead line delays: the number of the request whose formants the frame that was
pulled has, not of the request last started, which need not be the same (a pause sounds the
frame it cuts). Requests may be queued or purged between any two steps. `cutAt` and `seenCut` are
history: the oldest request that the last purge, and the last purge that generate has noticed,
let be heard. The constant `StretchStep / StretchUnit`
is timeStretchFactor - 1. `setTimeStretch` and the other setters are left out. The
fade-in of 4 ms that a purge sets is in `BeginBuffer`; the next rendered frame
always replaces it by the one of 5 ms, in the code as in the model.

**TextPrepare** turns a text into what eSpeak reads: a text is a sequence of words, a word of
atoms (a group of letters, a digit, a punctuation mark), so that the cuts of the code (years,
clock times, ordinals, hyphens, suffixes, compounds, commas) are cuts between atoms. Words
whose entry is IPA go in as they are and are kept for later (`overrides`).
**TextParser** is the rest of it, from the caller's text to the chunks of IPA. `Read` is
eSpeak, known only by what the comments of the code say of it: it gives a syllable structure
to every group of letters, says numbers in a chunk of its own choosing, and may put a word in
two chunks or two words in one. `RunTextParser` is runTextParser: the words once more by its own
rules (mixed tokens, expanded numbers), chunks cut at a second main stress, compounds merged,
overrides put in, and then either the words of equal number corrected one by one (`CorrectEach`) or
realigned at words of known length (`Realign`). Languages and dictionaries change between the two
calls. A syllable is its stress and whether its vowel is a weak one; `of` remembers which
atoms a chunk comes from and is history, as is `src` of a word.

**IpaTokens** reads one chunk of IPA, symbol by symbol, as the text might be any: a
phoneme is its set of flags, a token what later passes look at (its phoneme, the symbol it was
read from, word, syllable and word starts, stress, ties, length, the glide merged into it, the kind
of silence it is). A long sound has the flags of the short one. Each read step ends with the insertions parseToTokens makes: closures,
aspiration, hiatus gaps, the move of a stress mark to the start of its syllable.
**TokenPasses** is the rest of convertIpaToTokens: every pass that replaces, inserts, splits,
merges or erases tokens, or changes their words, syllables, stresses and ties, is one action on
the whole sequence, in the order of pass_pipeline.cpp (`AutoTie`, `SpellingDiphthongs`,
`SyllableMarking`, `Allophones`, `LiquidDynamics`, `LengthContrast`, `DiphthongCollapse`, `FadeTail`), and
so is what gives them commands (`Prominence`, which says which vowels are accented where the pack
scores prominence, and `Pitch` of the fujisaki style). The passes that only move formants, durations
or pitches in Hz have no action. Three passes decide on numbers, which are abstracted as follows.

* `Allophones` has the rules that replace a token or insert one, with the positions, stresses and
  contexts these use in the shipped packs. Rules that scale or shift, and the conditions only they
  use (lists of neighbours, other positions), are left out; a rule whose new phoneme does not
  exist is not written.
* `Prominence` keeps what lies on either side of its threshold of 0.05: stress, the tie to the vowel
  before, function words, the only vowel of a word and full vowels. The boost of a first and the
  reduction of a last syllable carry nothing across it. Not modelled: long vowels as a source
  (the one shipped pack that counts them, Finnish, accents by stress) and the step for compounds, which could take a vowel to zero.
* `LiquidDynamics` splits any subset of the sounds it may split, where the code splits those of at
  least 8 ms.

**FrameEmit** is queueIPA for a stream of chunks: the gap between two chunks, and a
frame or several for each token, each with the commands it carries (glides, voice
bars, tapers, taps and trills, bursts, NULL frames). The queue, the NULL frame that keeps the
commands of the one before, and the rising edges that the voice generator acts on are
the player's side, cut down to what happens to a command. Emitting and playing interleave.

**FrontendHandle** is the frontend's handle as operators: what setLanguage, the overrides
and setPitchMode leave in a pack, and what a failed load leaves alone. A pack is its
differences from its files.

**AndroidTts** is the service and the editor of the application in one process. The service's
`Begin` to `Take` are onSynthesizeText: choose the language, compare the version, reload
or re-apply, settings, queue, pull. `OnStop` raises two flags in two steps on a binder thread.
The editor writes overrides and their version, and loads languages into an engine of its own,
which moves the eSpeak both engines use. `Killed` is the system: preferences alone survive.

**AudioUnit** is the extension and the host application, two processes. A request is prepared
(voice, tone, language, overrides, settings, each skipped when its cached value says so),
synthesized, and handed over under the semaphore; `Render` is the audio block, which
takes up to `MaxFrames` samples; `CancelStop` and `CancelClear` are the two halves of
cancelSpeechRequest. The host writes a value first and its version in a later step.

**PackFiles** is the chain of YAML and TSV files of a language in two directories, and how
they replace, append to and skip each other. It has both routes of the code: LoadPackSet into
the handle, and the listing that reads the dictionaries for the editors.
**PackData** is the frontend handle with setData and queryData under the application's
dictionary screen and settings editor. The user's changes live in preferences, one store for
each dictionary and language, and are put into the handle when they are made, when a
language is selected and when the dictionary screen opens, each with what it leaves out.

**PhonemeEditor** is the main window, its documents and the runtime of the editor for
Windows. A document is the set of changes it contains, so a save or a load moves a set; a file
that cannot be parsed is `Broken`. A save opens its file with truncation and does not look at the
stream afterwards, so `Rest` is any part of what was to be written, or a file that cannot be
parsed, and the editor takes it for saved; a file that cannot be opened changes nothing. A dictionary
that cannot be read opens as an empty one (`ShowDictionary`), which the next save writes. `spoilt`
is history: the files to which either happened. `EditClass` is the one edit that makes no document
dirty. `LoadLanguage` and `LoadPackRoot` return the state they leave when a step of them fails. A
second editor writes the files at any time.

**NvdaDriver** has the shared Python attributes as variables, and a program counter
for each of the main thread (`main`), BgThread (`bg`) and AudioThread (`audio`). No
lock protects the attributes, so each write and each test is an action; under the
GIL that is the grain at which the threads interleave. The player is the request
queue of `RequestQueue`: frames are taken in order, a purge drops them. A clause is
one frame; an utterance is `Chunks` clauses, of which any may yield nothing, then one
index marker and a tail, or an utterance has no text and its job only notifies
(`NotifyIndexesAndDone`). `PlayChunk` is the device, modelled from its use (the chunk's
onDone reports the index). `BgError` is an exception inside a clause. The event
_framesReady only shortens a wait that ends after 5 ms in any case and is left out.

**YamlText** has a YAML file as its sequence of lines (indentation, key, value), and the four
programs over it: the frontend's parser, whose result is the scalars by their paths (`Tree`),
the add-on's index of dotted keys (`KeyLineIndex`), its insertion and replacement of a line
(`UpsertSetting`), and the walk by which the frontend saves the sliders of a profile, with the
locals of its loop as a record (`StartWalk` to `SaveVoiceProfileSliders`).
**NvdaSettings** is the driver's settings on NVDA's main thread: one record `s` of files,
driver, frontend, player and eSpeak, functions of it for the driver's methods, and actions for
what the user or NVDA does. NVDA's replay of its configuration (external, known from the
driver's comments) sets the voice, the language and the rest, completely or only what
changed. A tone is in the units of its sliders; only the tilt is an offset.
**SettingsStore** is what this amounts to: a map for each language, one for the voices, and
loads.

**SpeechdModule** is the one thread of `sd_tgsb.cpp` against a server that sends lines at
any time. `ReadMore` is the blocking read of sd_readline and `Poll` the non-blocking one of
sd_poll_stop: both take everything the pipe holds into the same buffer. The command loop
is one action per command, `PollFirst` and `Skip` the look at the pipe before a message,
and `Clause` to `EndMessage` the loops of synthesize. A message is its number of clauses, a
clause any number of chunks up to a bound. The server (external, known from the comments
of the code) waits for 202 before it sends a text, and for nothing else.
**SpeechdEvents** is the order of replies it expects.

**SapiRuntime** has the runtimes (initialized or not, language of the frontend, language and
identifier last chosen for eSpeak, profile, tone, the silence a purge queues), the cache with
one place, and eSpeak, of which the process has one. `Create` and `Destroy` are the constructor
and destructor of the COM object; `LanguageSet` and `VoiceSet` are set_language and the
start of queue_text.

**SapiEngine** is Speak. `Batches` folds the fragments of SAPI into batches; `BeginBatch`,
`QueueClause`, `BeginPlay`, `ReportDue`, `WriteChunk`, `EndBatch` and `PadEnd` are its loops in
their order, `GiveUp` the two places where the site's actions are asked for. The site takes
any part of a chunk, or fails. Between calls the host creates and releases objects, gives
them tokens and asks for formats. One object speaks at a time, though: the code guards
eSpeak with a mutex per runtime, so hosts that overlap calls of two objects are outside
what this model says.

Operators introduced by "Slip" are not part of the specifications. Each is a
definition with a plausible mistake, listed in PROJECT.json under "mutants" with the
property that notices it.

## Runs

TLC checks these with the .cfg of the same name. The last checks what a comment of the code says
of it and ends in a counterexample (*Finding*).

| Run | Question | Result |
|---|---|---|
| WaveGenerator | the request queue under the generator: order, purges, silences, copies, indices, durations, fades, refinement of RequestQueue, progress | holds, 777580 states |
| TextParser | no sound is lost or moved, an override and a stress entry find their word | holds, 227936 states |
| FrameEmit | closures keep their stop, words their start and their stress; every command of the pitch model is heard once | holds, 5.89 million states |
| AndroidTts | the pack, mode and language a text is spoken with, failed loads, stop | holds, 1.23 million states |
| AudioUnit | the pack and settings a request is spoken with, order of samples, cancel, completion | holds, 983106 states |
| NvdaDriver | order, indices, cancel, done notifications; the audio starts, and the thread goes back to sleep | holds, 2.4 million states |
| NvdaSettings | what is heard is what is shown; files edited by lines are a store to both of their readers | holds, 91728 states |
| SpeechdModule | the protocol of replies, a STOP cuts its own message and soon, every message is answered | holds, 103665 states |
| SapiEngine | bookmarks keep their place, an abort cuts the speech and Speak returns, a clause is in the voice of its token | holds, 2.49 million states |
| PackData | what is listed, edited, removed and spoken agree | holds, 387186 states |
| PhonemeEditor | a clean document is a saved one, Speak hears the files, no change is lost unasked but in a file that was spoilt | holds, 1.9 million states |
| WaveGeneratorFade | does speech that stops end in a whole fade-out? | violated: not after a fade-out that was interrupted |

### Bounds

* WaveGenerator: four requests, of three kinds: phones with and without aspiration and a pause,
  with and without an index, minima shorter and longer than the fade, a fade of zero (which
  becomes one). Two requests make a fade, a third is purged by or follows it, a fourth meets
  the silence after it. `CounterMod` is 5 instead of 2^32, so that the counter wraps
  in every idle behaviour; the longest minimum is then 3, in the code 2^32 - 2.
  Buffers of three samples (an utterance and a fade-out cross them), a lookahead of two, fades of
  two and three samples, and a time-stretch that pulls an extra sample every other sample.
  WaveGeneratorFade: the same with three requests, all phones, so that every gap is an underrun.
* TextParser: texts of up to three of the six words a dictionary or a chunk boundary treats
  specially, and of two with everything else (a year, a date, a clock time, thousands, a
  percentage, AM, a suffix, a hyphen, a comma, a bracket); English with all its dictionaries
  and a language without number words; one dictionary off. What goes wrong here is a shift between
  words and chunks, which needs a word that is divided differently and one that is matched.
* FrameEmit: up to three phonemes of six kinds (two vowels, a lateral, a voiceless stop, a voiced
  affricate, and a fricative that a whole key names), with the tied vowel and the long stop among
  them, and three marks (stress, dot, space, the start of a chunk): one chunk with two marks or two
  chunks with one. The aspiration, the tap and the glottal stop are only inserted. There are two
  packs: one like English (ties, flapping, prominence, split laterals, spelling) and one that joins
  what Spanish and German set (the hiatus gap, closures everywhere, geminates, a rule that inserts,
  no gap left out). A pass looks at a token and its neighbours, or at a word, so three sounds give it
  one that it changes between two. Every clause is a question, which has the most accents: the last
  nucleus of each gets one. Not in these bounds are nasals and what a pack sets for them, closures
  after vowels only (closures everywhere include them), and texts whose clauses differ in kind.
  The queue has one frame, so that the audio thread can be ahead of the emitter, run dry and resume.
* AndroidTts: two languages, one value to override with, two pitch modes, one edit, one
  failed load, two chunks of audio; kills, stops and loads of voices are unbounded.
* AudioUnit: two languages and two voices, two requests, one edit, utterances of up to two
  samples and blocks of up to two frames: a block can end inside, at and beyond a buffer.
* NvdaDriver: an utterance of two clauses and one of one clause, or without text, and one
  cancel: the cancelled one, the wake-up the cancel itself causes, and the next one are in the
  threads at once. That audio starts is asked of one utterance without a cancel, that polling
  ends of what was not cancelled (see below).
* NvdaSettings: three steps of the user after the start: a change, what saves or replays it,
  and what shows the difference. A language, its dialect and the automatic one; files with
  all settings, with a nested one, and without the section; one setting of every kind (Boolean,
  nested, scaled, once Boolean); a profile with a tone and one without. The files put voicingTone
  first in a profile and voiceProfiles last in the file: a tone behind classScales, and a profile
  appended under a later section (nvspFrontend.cpp:857-881), are outside these bounds.
* SpeechdModule: two messages of at most two clauses of two chunks, two STOPs, one PAUSE or
  SET, and the end of the server at any point: a STOP can be late for the first message,
  in time for the second, or in the same read as a text.
* SapiEngine: two objects, two runtimes, two voices, two calls of Speak, four other calls of
  the host, clauses of up to two units of audio and a chunk of two. The texts have bookmarks
  within, before and behind a batch.
* PackData: a language and its dialect, in one installation without files of the dialect and one
  with them, user files and an override directory; two words, pages of one entry, two edits: one
  can follow what another, or a change of language, left.
* PhonemeEditor: two directories, two languages, one type of dictionary, two changes, one spoilt
  file, and a start with all files whole or with some of either directory that cannot be parsed: one
  change is in memory while the other reaches the disk, or is cut off there.

  The TextParser, FrameEmit, NvdaDriver, NvdaSettings, SpeechdModule and SapiEngine runs allow the
  system to stop (the calls are bounded), hence CHECK_DEADLOCK FALSE.

### Fairness

WaveGenerator assumes that the audio thread goes on calling generate (weak fairness of
`Generate`), which the drivers do as long as the player is open; the queueing threads may stop at
any point. AudioUnit assumes that a request or cancel that was begun runs on, and that the system
keeps rendering. SpeechdModule assumes that its thread runs and that a server asked for a text
sends it or closes the pipe. SapiEngine assumes only that the thread in Speak runs: the device
may stay full for ever. NvdaDriver assumes that both threads are scheduled, that the device plays
what it was fed, and that a cancel that was begun is finished; nobody has to call
speak or cancel, and no exception has to happen.

## Finding

`SpeechEndsInAFadeOut`, run WaveGeneratorFade: speechWaveGenerator.cpp:747 says of a missing frame "If
we were mid-speech, fade out for a few ms". A fade-out begins only while stopFadeTotal is 0 (749),
and frames that come back during one do not reset it: the next stop has what was left of the
fade-out, or none. `FadeOutIsSmooth` therefore says nothing of the length of a fade-out.

## Noticed while modelling

These follow from the code as it is read for the models; the properties are stated around them.

* frame.cpp: a NULL request (a pause, an index marker, the frame cancel queues) after a purge or an
  underrun takes the branch at 388: it sounds the stale old frame at that frame's own gain, and
  fades it out once more, where the comments at 446 and 610 say that a silence ends at zero gain. Its
  commands are the stale ones as well. `NoClicks` is therefore stated for frames that are not NULL,
  and `PurgedSoundNeverHeard` lets a pause that purges be heard as the frame it cuts.
* audio.py: a flag is tested and then acted on in four places (287, 334, 348, 362), each with
  a window in which another thread can change it: stale audio after a cancel, a last
  clause that waits for the next kick, a synthDoneSpeaking after a cancel, a lost wake-up with
  two utterances. BgThread's writes at speech_pipeline.py:481-482 can fall between the two
  phases of a cancel and leave the audio thread polling. That is why `AudioWakesAndSleeps` asks for
  one utterance where audio has to start, and for no cancel where polling has to end. A speak without text answers ahead of the audio before it.
* sd_tgsb.cpp: sd_poll_stop returns before it looks at the buffer when there is nothing new to
  read. A STOP that was read together with the end of the text is found only when something
  else arrives, and the message is spoken.
* Android: eSpeak is one per process, so the editor can change or terminate it under the
  service, which confirmedNativeLang (TgsbTtsService.kt:171) cannot tell; `FailedLoadIsRetried`
  excepts it.
* iOS: phoneme and dictionary edits announce themselves under a version
  (TgsbEngine.swift:1312) the extension does not read (TGSBAudioUnit.swift:361).
* Frontend: Tuning.md:225 and the comment at ipa_parser.cpp:597 keep the stops of an onset
  cluster (the t of "style") out of the onset taper by `!wordStart`; the test is on the stop,
  which does not start the word in such a cluster, so it gets the taper. An accent that
  rises while another is held is lost (Tuning.md:631, voiceGenerator.h:695-707; `CommandsHeardOnce`
  excepts it). The spelling mode monophthong erases the offglide's
  token without a look at its syllableStart, so an i that is a letter of its own goes with
  it (Tuning.md:321, ipa_parser.cpp:769-782).
* Passes: the German rule called Knacklaut, "glottal stop before vowel-initial stressed syllables"
  (packs/lang/de.yaml:44), matches a voiceless stop that ends a word after a vowel, and puts the
  glottal stop before it. A liquid that is split loses the ties on its outer edges
  (liquid_dynamics.cpp:136), which are those that the comments at 63 and 135 keep, so that
  diphthong_collapse does not find the pair. A sound that a rule inserts before the first of a word has no wordStart
  (allophones.cpp:632), so it ends the word before, and it stands between a closure and its
  stop; `ClosurePrecedesItsStop` and `WordsKeepTheirMarks` except it. length_contrast puts a closure
  before a long stop that has one.
* Packs: a child's own replacements are removed by an inherited skip (Tuning.md:923,
  loadPackSet in pack.cpp).
* Text parser: splitMixedTokens cuts "window," into "window" and "," (text_prepare.cpp:230 asks
  for a letter before a comma; the comments at 209 and 228 speak of commas between digits, and leave
  words to stripPunct). A clause with a comma behind a word thus has more words than chunks and
  gets no stress correction, and when nothing else changes its overrides are dropped too
  (text_parser.cpp:993 returns the old IPA without a look at hadIpaSplice, 1030 with one). A
  bracket that stands alone does the same. Overrides are put in before words and chunks are
  aligned: after a word that eSpeak divides they replace the wrong chunk. A word without letters
  counts as silent there. The skip of numbers at 864 is never reached: their empty key is taken
  before. With equal numbers and an unchanged stress the returned IPA is the original one, which
  undoes a compound merge. An ordinal such as "6th" becomes two words, of which eSpeak says one.
  Compound pairs are remembered as words, not places. frontend_handle.h:68-71 says that overrides
  are cleared after runTextParser; the next prepareText does it, so that they outlive a change
  of language. They are kept under the lower-case word: "Parton" with IPA changes "parton" as well.
* Dictionary editing: setData for a language that is not loaded (nvspFrontend.h:667: not
  applied) and opening its dictionary put its words into the loaded one. The application stores
  stress, compound and character edits under a key it never applies again, and a compound gets
  the JSON text as its parts; iOS stores every dictionary under the bare language. Masking a
  word replaces the text that was stored for it. "Load more" goes on at the old offset after an
  edit, and an edit resets the search. deleteDictEntry leaves the engine in the edited
  language, without its settings, until the next text. Switching a dictionary off does not
  raise pack_overrides_version. The weights that pack.cpp:2137-2148 migrates are not shown by
  getEffectiveSettings; the phoneme list shows what phonemes.yaml says of a phoneme that the
  language replaces; stress browsing falls back on the base language, speech does not.
* NVDA settings: saving or importing a voice loads the language "auto" by that name, which is
  the default pack (langPackSettingsPanel.py:1388). A saved tilt is the slider's offset and is
  added to the slider's again; saved frame sliders are never read back. After the start,
  Escape replays NVDA's configuration into the YAML files, which lang_pack_settings.py:148
  calls authoritative: int() takes one off three slider positions (29, 57, 58), so that the
  inflection scale drifts with every save and Escape. A profile whose tone stands behind
  classScales gets a second block, and a profile behind a comment in the first column is not
  found (nvspFrontend.cpp:714-796); a one-line voicingTone, which
  VoiceProfileEditor.cpp:505 writes, is unreadable after a save. A setting equal to what another
  program wrote is not reloaded.
* Pack editor: a refused change of language leaves the box on the refused one
  (appcontroller.cpp:2475), so that a clone puts its rule into the document of another language;
  a save writes over a file that another program changed (comment at 1433). The members of a class
  are edited in place and only the names of the classes are compared (628): the change is lost
  unasked when the language is closed, and `CleanMeansSaved` and `ChangesSurvive` except it. Every save
  truncates its file, does not check what it writes and reports success (DictionaryEditor.cpp:220-254,
  VoiceProfileEditor.cpp:577-589, yaml_edit.cpp:250-256 and 1401-1407): a write that is cut off loses
  changes that count as saved, and voice profiles take the phonemes of the same file with them; the
  two properties except the file it happened to, and that only. A save of voice sliders
  drops array scales; an unreadable dictionary opens as empty (DictionaryEditor.cpp:306-310), and
  saving it empties the file; a failed change of directory leaves the root and the documents apart.
* SAPI: two COM objects that were alive together are released: the first one's runtime goes to the
  cache, the second one finds it taken, and ~runtime calls espeak_Terminate. The cached
  runtime goes on to hold espeak_initialized_ and the next object uses it without
  initializing eSpeak again.
* SAPI: when a device takes part of a chunk and is then full, the rest of the chunk is dropped
  (write_bytes asks its caller to retry, the play loop goes on behind the chunk); the
  bookmarks of a batch without audio are never reported; after an abort the remaining bookmarks
  of the batch are; the first clause after a change from a profile to a preset has the tone of
  the profile; a skip is treated as an abort.

## Proofs

The first part of `WaveGeneratorProofs` proves of FrameManager, for every set of shapes, every bound on the requests and
every counter width the theorems listed in PROJECT.json: `TypeCorrect`, the invariants
and action properties, some of which (`TypeOK`, `QueueIsContiguous`,
`SettledPauseIsVoiceless`, `NoDroppedIndexReported`) no run repeats, and `Refinement` (Spec
implements the abstract queue). `FrameIsKept`, `PurgeIsTakenOver` and `NothingClicks` join those
that a run checks as one property. The one assumption is
`ConstantsAssumption`: requests have the fields and ranges the code gives them, a
minimum fits below the counter's wrap by two, and the NULL values are not requests.

The inductive invariant `IInv` joins `TypeOK` with: the numbering of the queue (it is
exactly the unstarted requests since the last purge), the relation of the current
frame to the old and new requests, the source of an audible old request (never older
than the last purge), the silence of settled pauses, the stability of what was
returned, and the count of samples heard against the counter. `QueueIsContiguous` and
the others are not inductive by themselves: that the frame tracks the request after a
purge depends on what purging leaves in `old` and `curNull`, and that a request plays
out depends on the counter not having wrapped while it sounds. The action properties
follow from `IInv` and a lemma for each branch of updateCurrentFrame.

Its second part stands on it, for every buffer, lookahead, fade length and
time-stretch (`GeneratorAssumption`: these are positive). A step of the generator is one of
the frame manager or leaves it alone, so `IInv` holds below it (`BelowHolds`). Its own
invariant `GInv` joins the types (`GenTypes`) with six parts: the requests that old, new and
current frame come from are in order, and silence comes from a purge or from nothing
(`SoundsInOrder`); what a purge lets be heard is what is still sounding or comes later
(`CutIsHeard`); once a purge was noticed, no frame from before it can be pulled (`FrameMayBeHeard`);
the lookahead line holds zeroes or tags in order (`LookaheadInOrder`); behind the reset after a purge
it holds nothing older (`TagsSincePurge`); a tail sample belongs to the fade in force
(`TailIsTheFade`). `LookaheadSafety`, `PurgeIsFinal` and `FadeOutSafety` follow. `PurgeIsFinal` speaks
of the frames that were pulled: after a purge by a pause, the frame that it cuts may be heard to its
end, and nothing from before that frame. `FadeOutSafety` says that a fade-out goes down step by step
to silence, not how long it is (*Finding*).

`SapiEngineProofs` proves the three invariants of SapiEngine for every set of objects, runtimes,
languages and voices and every bound (`RuntimeAssumption`: None, NoLang and the built-in voice
are outside the sets they stand beside, English is a language eSpeak has; `EngineAssumption`:
tokens have a language and a voice, the bounds are natural numbers). `AbortSafety`: an abort
is followed by at most one write and the silence of the end; its invariant `WritesAreAsked`
says where in the loops the site was asked since the last write. `VoiceSafety`: every clause is in
the profile of its token, from the second one on in its tone, and in its language and eSpeak voice where
the pack can be read and no other runtime has terminated eSpeak. Its invariant `VInv` is needed because a runtime outlives its object: it
ties the identifier of eSpeak to the tag it was chosen for in every runtime, used or cached
(`Identified`), says that an object with a runtime has a token (`ObjectsAreWhole`), and that
between the start of Speak and a clause the runtime has the language (`LanguageIsWanted`) and from
the first clause on the profile (`ProfileIsWanted`) of this call. `BookmarkSafety` is about the
arithmetic of the play loop, for texts of any length. Its invariant `MInv` says of the batches that
their marks come in the order of the text, at places that do not fall and lie within the batch
(`AllWhole`: what joining the fragments keeps, shown fragment by fragment), that what is reported
is in order, before what is still to come and at its place (`EventsInOrder`), that every mark of
the text is reported, waiting or in a batch without sound (`MarksAccounted`), that what was written is
behind the position (`AudioFits`), and that no mark waits a whole chunk (`NotYetLate`): the
thresholds of ordered places are ordered, so the marks that are due are the first ones.

`NvdaDriverProofs` proves the three safety invariants of NvdaDriver for every number of calls of
speak and cancel and every number of clauses in an utterance (`DriverAssumption`: natural numbers).
Three threads take turns line by line, so that each needs an invariant of its own, over
`DriverTypeOK` and `JobsInOrder` (the jobs wait in the order of the calls, behind the one that runs).
`OrderInv`, for the order of speech, follows an utterance from the running job through the player
(`FramesInOrder`, `MarkersInOrder`), what synthesize has in hand and the device holds
(`AudioInOrder`), to the index that is reported: what an index came to is over but for its tail
(`PassedAreOver`). `DonesBelongToJobs` counts the notifications: those sent, the one the audio
thread is about to send and the one the running job may still cause are no more than the jobs
taken. `CancelInv`, for what is heard after a cancel, says at each line of cancel what has become
stale (`CancelledAreStale`) and bounds what is on the player of the jobs that were cut, with
what the stale job will still queue from the line it is at (`CancelledRunOut`).

`SpeechdProofs` proves `StopIsHeeded` and that SpeechdModule implements SpeechdEvents
(`ModuleImplementsEvents`), for every number of messages, clauses, chunks and stops. `SInv` ties the
lines in the pipe and in the buffer to the line of code the module is at: at most one SPEAK is on
its way (`OneSpeak`), a text has its dot behind it (`DotComes`), what was reported of each message
is what the line of code implies (`StatusByPc`), a STOP that is found was sent for this message
(`StopIsMeant`), and one that was sent in mid-message is still in the pipe (`StopIsFound`). Each action
is then a step of SpeechdEvents or leaves what it sees alone.

`AudioUnitProofs` proves two invariants of AudioUnit, for every set of languages, voices and
values and every bound (`AudioUnitAssumption`: the default language and voice exist, NoLang is
no voice, the states of the host application are not languages, a render takes at least a
frame). `BufferInv` says of the buffer under the
semaphore that it is what one request pulled and not drained (`BufferOfOne`), that a request is
handed over or silenced when it is over (`OverBefore`), and what was heard last
(`HeardUpToOffset`); `RenderedInOrder` and `CancelSilences` (of requests that the cancel
finds complete) follow. `SoundInv` says what the caches of
the extension are worth: no version is known before it is written (`VersionsRead`), the
caches name the request (`CachesNameTheRequest`), and an engine whose cached version is the
written one is as the preferences say, but between the steps that drop the pack's overrides and those
that put them back (`EngineAsStored`).

`AndroidTtsProofs` proves the invariants of AndroidTts in the same generality
(`AndroidAssumption`). `TtsInv` says when what the service believes of the native engine is
true (`NativeAsConfirmed`, with the exception of onCreate, which does not look whether the language
loaded, and of the eSpeak that the editor has taken), when the overrides in the pack are those stored
(`PackAsStored`, but for an import that is half written), and that a request past the check has its
language or is known to have failed (`RequestConfirmed`). The last part needs
`cachedOverridesVersion # -1`: without it, a service that has just been created could pass the check.

`PhonemeEditorProofs` proves the invariants and the action property of PhonemeEditor, for every
set of directories, languages and types of dictionaries, every content of the files at the start and every
number of changes (`EditorAssumption`: languages are numbers, as
they are opened in order; the marks Broken and None are no contents of a file). `CleanMeansSaved`
is not inductive, as a save of a document that misses a change of its file would lose
it: `EditorInv` adds that a document that is open contains every change of the user's that is
in its file, for the phonemes, the language and the dictionary alike (`PhonMatches`, `DocMatches`,
`DlgMatches`), and that nothing is open without a directory. Every step is shown to keep it, to take
no change from the files, and to drop none from memory unless it is in a file or was
given up (`StepKeeps`); `ChangesSurvive` is that. `SpeakHearsSavedFiles` has an invariant of its own,
about the runtime alone (`Fits`).

`PackDataProofs` proves the two invariants and the action property of PackData, for every set of
languages and dictionaries, every pack that an installation may have and every number of edits
(`LangAssumption`: a dialect has a base, which has none, None and the default are no languages;
`FilesAssumption`: the rules of a file are a sequence; `DataAssumption`: there are finitely many words,
a page is not empty). The inductive invariant `DInv`
says that the stored changes of a dictionary are finitely many (`StoredIsFinite`), that what is
switched off in the handle is switched off in the preferences (`OffIsStored`), that an
editor is on a dictionary of a language (`EditorOK`) and that a cached listing is
the one the handle would make (`ListingIsFresh`). Changes are applied, and the layers of a pack
merged, by folds, in an order that the code leaves open for the changes (a hash map). What a fold
returns is read off its accumulators, one for each prefix: they exist by induction on the length
(`Iterates`, `Accumulators`), and what one step keeps, they all have (`UpTo`). `SetAllEdits` is the
result that matters: applied in any order, the changes leave each changed word as the
change says and every other as it was, for a change touches only its own word
(`OtherWordStays`). `RemovedEntryReverts` then rests on the reload: a pack read anew has nothing but
its files, and the changes that are left do not mention the word.

Only model-checked:

* all liveness (`EventuallySilent`, `EveryRequestResolved`, `EveryRequestCompletes`,
  `EveryMessageIsAnswered`, `AudioWakesAndSleeps`, `AbortedSpeakReturns`), which rests on fairness;
* TextParser, and FrameEmit with the passes: one step reads or rewrites a whole text or all the
  tokens, with nested folds whose result depends on what stands before and behind a place, so
  that an invariant would have to restate each pass;
* NvdaSettings, whose files are lines, found, cut and put in by recursive operators.

Where the result of a fold or a recursive function is needed above (batches of fragments, changes
of a dictionary, layers of a pack), its induction is one over a set of natural numbers (the least
number for which something fails), as no induction theorem that takes an operator can be used.

## Not modelled

* Signal processing, the passes that only move formants, durations and pitch, the replacement
  rules of IPA, numbers above the thousands: sequential numeric or textual code without states.
* Quotes, lists and one-line maps of YAML, what a voice profile does to formants, the export of packs.
* Creation and destruction of players; the setters of the generator.
* NVDA: terminate and pause, a change of output device, an exception of synthesize; rate, pitch
  and volume; the panel's downloads and lists; a crash in the middle of a write.
* Speech Dispatcher: start-up, what SET changes, and LIST VOICES, which only prints.
* Android: the speak engine of the application's own preview, its screens, the loss of
  preferences that apply() had not written when the process was killed.
* iOS: the phonemizer extension and what the host application speaks itself.
* SAPI: voice tokens, the registry and COM's class factories, settings.ini, the edits a
  preset, pitch and volume make to frames, calls of two objects that overlap.
* Other tools (renderers, converters, generators of packs, fitting of formants): batch programs of
  one thread around the same engine.

## Plan

Done, in this order: RequestQueue and FrameManager with its proofs, WaveGenerator with its
proofs, NvdaDriver, SpeechdModule, FrontendHandle with AndroidTts and AudioUnit, the chain from
IpaTokens to FrameEmit, SapiRuntime and SapiEngine, PackFiles with PackData, PhonemeEditor,
TextPrepare with TextParser, YamlText with NvdaSettings.

What could follow: terminate and pause in NvdaDriver; the languages of the frontend and of
eSpeak after SET in SpeechdModule; a proof of what
NvdaSettings promises of the order in which settings are read and written.
