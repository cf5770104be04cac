------------------------------ MODULE FrameEmit ------------------------------
(***************************************************************************)
(* From tokens to the synthesizer: queueIPA and generateAcousticEvents     *)
(* (nvspFrontend.cpp, frame_emit.cpp) turn the tokens of a chunk into      *)
(* frames for the player's queue; the frame manager (frame.cpp) takes them *)
(* from there, and the voice generator (voiceGenerator.h) reacts to the    *)
(* commands of the pitch model that the frames carry.                      *)
(*                                                                         *)
(* A frame is whether it is a NULL frame and its commands.  The chunk      *)
(* being queued and the audio thread interleave: the player's lock is held *)
(* for one frame at a time.                                                *)
(***************************************************************************)
EXTENDS TokenPasses

CONSTANTS
    MaxChunks,  \* bound: calls of queueIPA
    MaxFrames   \* bound: frames that wait in the player's queue

ASSUME FrameAssumption == MaxChunks \in Nat \ {0} /\ MaxFrames \in Nat \ {0}

VARIABLES
    chunk,     \* the chunk of text: its number
    stream,    \* streamHasSpeech and lastEndsVowelLike of the handle; solo: the last
               \* chunk with speech was a single sound (history)
    emit,      \* the locals of generateAcousticEvents
    queue,     \* frameRequestQueue
    dsp,       \* what the frame manager carries and the voice generator remembers
    log        \* history: what the properties need to know of the commands

frameVars == <<chunk, stream, emit, queue, dsp, log>>
vars == <<tokenVars, frameVars>>

\* A command is who asked for it: chunk and place for an accent, <<chunk, 0>> for the
\* phrase.  NoCmd is amplitude 0.
NoCmd == <<0, 0>>
NoEx == [on |-> FALSE, reset |-> FALSE, phrase |-> NoCmd, accent |-> NoCmd]
NullFrame == [null |-> TRUE, ex |-> NoEx]
Frame(ex) == [null |-> FALSE, ex |-> ex]

NewEmit == [next |-> 0, frame |-> 1, had |-> FALSE, base |-> FALSE, ex |-> NoEx, wasStop |-> FALSE]
Silent ==
    [wasSilence |-> TRUE, carry |-> NoEx,
     reset |-> FALSE, phrase |-> NoCmd, accent |-> NoCmd, fired |-> << >>]

FrameInit ==
    /\ TokenInit
    /\ chunk = 0
    /\ stream = [speech |-> FALSE, endsVowel |-> FALSE, solo |-> FALSE]
    /\ emit = NewEmit /\ queue = << >> /\ dsp = Silent
    /\ log = [asked |-> {}, near |-> {}, heard |-> {}]

-----------------------------------------------------------------------------
(* generateAcousticEvents: the frames of one token                         *)

ExOf(t, i) ==
    [on |-> TRUE, reset |-> t.reset,
     phrase |-> IF t.reset THEN <<chunk, 0>> ELSE NoCmd,
     accent |-> IF t.accent THEN <<chunk, i>> ELSE NoCmd]

\* The exs of the frames that repeat the sound before: without its commands.
VoiceBarEx(ex) == [ex EXCEPT !.phrase = NoCmd, !.accent = NoCmd, !.reset = FALSE]
TaperEx(ex) == [ex EXCEPT !.phrase = NoCmd, !.accent = NoCmd]

\* Slip: every micro-frame of a glide carries the commands.
GlideAgain(ex) == ex
GlideEx(ex) == [ex EXCEPT !.phrase = NoCmd, !.accent = NoCmd, !.reset = FALSE]

\* The near-silent frame in front of a word.
Dip(t, ex) == IF pack.dip /\ t.wordStart /\ emit.had THEN <<Frame(ex)>> ELSE << >>

\* The micro-frames of a glide after the first are one, and so are the phases of a trill.
GlideFrames(ex)      == <<Frame(ex), Frame(GlideEx(ex))>>
TrillFrames(ex)      == <<Frame(ex), Frame(ex)>>
StopFrames(t, ex)    == Dip(t, ex) \o <<Frame(ex), Frame(ex)>>
FricativeFrames(ex)  == <<Frame(ex), Frame(ex), Frame(ex)>>
AspirationFrames(ex) == <<Frame(ex), Frame(ex)>>
TapFrames(ex)        == <<Frame(ex), Frame(ex), Frame(ex)>>
PlainFrames(t, ex)   == Dip(t, ex) \o <<Frame(ex)>>

\* The frames of a real token.
Sound(t, ex) ==
    IF t.glide # NoDef THEN GlideFrames(ex)
    ELSE IF pack.trill /\ Is(t, "trill") THEN TrillFrames(ex)
    ELSE IF StopLike(t) THEN StopFrames(t, ex)
    ELSE IF Is(t, "fricative") /\ ~t.aspiration /\ ~emit.wasStop THEN FricativeFrames(ex)
    ELSE IF t.aspiration THEN AspirationFrames(ex)
    ELSE IF Is(t, "tap") THEN TapFrames(ex)
    ELSE PlainFrames(t, ex)

Frames(t, i) ==
    CASE t.voicedClosure /\ emit.had ->
            IF emit.base THEN <<Frame(VoiceBarEx(emit.ex))>> ELSE <<NullFrame>>
      [] ~t.voicedClosure /\ t.gap = "closure" /\ t.taper /\ emit.had /\ emit.base ->
            <<Frame(TaperEx(emit.ex)), Frame(TaperEx(emit.ex))>>
      [] OTHER -> IF Real(t) THEN Sound(t, ExOf(t, i)) ELSE <<NullFrame>>

Commands(ex) == {ex.phrase, ex.accent} \ {NoCmd}

\* The commands for which the sound before leaves no rising edge: its last frame carries
\* one of the same kind.  A chunk starts with the edge of its reset, unless the chunk
\* before was one sound, whose reset is still up.
Near(t, i) ==
    LET p == PrevReal(tokens, i) IN
    IF p = 0 THEN (IF stream.solo THEN Commands(ExOf(t, i)) ELSE {})
    ELSE IF tokens[p].accent /\ tokens[p].glide = NoDef THEN {ExOf(t, i).accent} \ {NoCmd} ELSE {}

-----------------------------------------------------------------------------
(* queueIPA                                                                *)

FBeginParse ==
    /\ BeginParse /\ chunk < MaxChunks /\ chunk' = chunk + 1
    /\ UNCHANGED <<stream, emit, queue, dsp, log>>

FConvert == Convert /\ UNCHANGED frameVars

VowelLike(t) == Is(t, "vowel") \/ Is(t, "semivowel")
LiquidLike(t) == Is(t, "liquid") \/ Is(t, "tap") \/ Is(t, "trill")

\* The pause between two chunks, left out where a vowel would be cut from a vowel or liquid.
GapNeeded ==
    LET first == tokens[NextReal(tokens, 0)] IN
    /\ stream.speech /\ Reals(tokens) # {} /\ pack.gap
    /\ ~(pack.skipVowelVowel /\ stream.endsVowel /\ VowelLike(first))
    /\ ~(pack.skipVowelLiquid /\ stream.endsVowel /\ LiquidLike(first))

\* A callback, which takes the player's lock for one frame.
Queue(f) == Len(queue) < MaxFrames /\ queue' = Append(queue, f)

BoundaryGap ==
    /\ stage = "emit" /\ emit.next = 0
    /\ emit' = [NewEmit EXCEPT !.next = 1]
    /\ IF GapNeeded THEN Queue(NullFrame) ELSE UNCHANGED queue
    /\ UNCHANGED <<tokenVars, chunk, stream, dsp, log>>

EmitFrame ==
    LET i  == emit.next
        t  == tokens[i]
        fs == Frames(t, i)
        ex == ExOf(t, i)
        done ==
            [emit EXCEPT !.next = i + 1, !.frame = 1,
                         !.had = @ \/ \E k \in DOMAIN fs : ~fs[k].null,
                         !.base = @ \/ Real(t),
                         !.ex = IF Real(t) THEN ex ELSE @,
                         !.wasStop = IF Real(t) THEN StopLike(t) \/ t.aspiration ELSE @]
    IN  /\ stage = "emit" /\ i \in 1 .. Len(tokens)
        /\ Queue(fs[emit.frame])
        /\ emit' = IF emit.frame = Len(fs) THEN done ELSE [emit EXCEPT !.frame = @ + 1]
        /\ log' = IF Real(t) THEN [log EXCEPT !.asked = @ \cup Commands(ex), !.near = @ \cup Near(t, i)]
                  ELSE log
        /\ UNCHANGED <<tokenVars, chunk, stream, dsp>>

EndEmit ==
    /\ stage = "emit" /\ emit.next = Len(tokens) + 1
    /\ stage' = "idle" /\ tokens' = << >> /\ parse' = NewParse /\ emit' = NewEmit
    /\ stream' = IF Reals(tokens) = {} THEN stream
                 ELSE LET last == tokens[PrevReal(tokens, Len(tokens) + 1)] IN
                      [speech |-> TRUE, endsVowel |-> VowelLike(last),
                       solo |-> Cardinality(Reals(tokens)) = 1 /\ last.glide = NoDef]
    /\ UNCHANGED <<pack, budget, chunk, queue, dsp, log>>

\* nvspFrontend_setLanguage: the next chunk starts a new stream.
SetLanguage ==
    /\ stage = "idle" /\ pack' \in Packs \ {pack}
    /\ stream' = [stream EXCEPT !.speech = FALSE, !.endsVowel = FALSE]
    /\ UNCHANGED <<stage, parse, tokens, budget, chunk, emit, queue, dsp, log>>

-----------------------------------------------------------------------------
(* The audio thread                                                        *)

Forget(d) == [d EXCEPT !.reset = FALSE, !.phrase = NoCmd, !.accent = NoCmd]

Fires(before, now) == now # NoCmd /\ before = NoCmd

\* VoiceGenerator::getNext, Fujisaki: each command fires on its rising edge, and the
\* rising edge of the reset forgets those before.
Hear(d, ex) ==
    IF ~ex.on THEN Forget(d)
    ELSE LET e     == IF ex.reset /\ ~d.reset THEN Forget(d) ELSE d
             fired == (IF Fires(e.phrase, ex.phrase) THEN <<ex.phrase>> ELSE << >>)
                        \o (IF Fires(e.accent, ex.accent) THEN <<ex.accent>> ELSE << >>)
         IN  [e EXCEPT !.reset = ex.reset, !.phrase = ex.phrase, !.accent = ex.accent,
                       !.fired = @ \o fired]

\* The next frame: a NULL frame carries the commands of the one before it, and after a
\* silence generate starts with a new voice generator.
Play ==
    /\ queue # << >>
    /\ LET f  == Head(queue)
           ex == IF f.null THEN dsp.carry ELSE f.ex
           d  == IF dsp.wasSilence THEN [Forget(dsp) EXCEPT !.fired = << >>] ELSE dsp
           h  == Hear(d, ex)
       IN  /\ dsp' = [h EXCEPT !.wasSilence = FALSE, !.carry = ex]
           /\ log' = [log EXCEPT !.heard = @ \cup ToSet(h.fired)]
    /\ queue' = Tail(queue)
    /\ UNCHANGED <<tokenVars, chunk, stream, emit>>

\* The queue ran dry and the last frame is over; the old request keeps its frameEx.
Dry ==
    /\ queue = << >> /\ ~dsp.wasSilence
    /\ dsp' = [dsp EXCEPT !.wasSilence = TRUE]
    /\ UNCHANGED <<tokenVars, chunk, stream, emit, queue, log>>

FrameNext ==
    \/ FBeginParse \/ FConvert \/ BoundaryGap \/ EmitFrame \/ EndEmit \/ SetLanguage
    \/ Play \/ Dry

FrameSpec == FrameInit /\ [][FrameNext]_vars

-----------------------------------------------------------------------------
(* Properties                                                              *)

\* Between two silences no command fires twice: neither the frames that
\* repeat a sound (glides, voice bars, tapers, bursts) nor the pauses that carry the
\* commands of the sound before ask again.
NoCommandTwice == IsInjective(dsp.fired)

\* Every phrase and accent the pitch pass asked for is heard once its frames were played,
\* across pauses, closures, underruns and chunks, unless the sound right before it still
\* holds one of the same kind.
CommandsHeard == (stage = "idle" /\ queue = << >>) => log.asked \subseteq log.heard \cup log.near

\* Every command of the pitch model is heard once.
CommandsHeardOnce == NoCommandTwice /\ CommandsHeard
=============================================================================
