---------------------------- MODULE AudioUnitProofs ----------------------------
(***************************************************************************)
(* Proofs about AudioUnit, for every number of languages, voices, values,  *)
(* requests, edits, samples and frames of a render.                        *)
(***************************************************************************)
EXTENDS AudioUnit, SequenceTheorems, TLAPS

-----------------------------------------------------------------------------
(* What is heard.                                                          *)

Stages == {"idle", "version", "identity", "settings", "overrides", "queue", "pull", "hand"}

BufferTypes ==
    /\ synth \in Stages /\ request.number \in Nat
    /\ output \in Seq(Nat \X Nat) /\ heard \in Seq(Nat \X Nat)
    /\ outputOffset \in Nat /\ handed \in Nat /\ silenced \in Nat /\ samples \in Nat
    /\ left \in Nat

\* The buffer is what one request pulled, from its first sample on, and is not drained.
BufferOfOne ==
    /\ \A k \in DOMAIN output : output[k] = <<handed, k>>
    /\ IF output = <<>> THEN outputOffset = 0 ELSE outputOffset < Len(output)

\* No request is handed over, or silenced, before it is over, and the buffer is of none
\* that is silenced.
OverBefore ==
    /\ handed <= Over /\ silenced <= Over
    /\ output # <<>> => silenced < handed

\* What was heard last: the samples of the buffer up to the offset, or an earlier request.
HeardUpToOffset ==
    /\ heard # <<>> => heard[Len(heard)][1] <= handed
    /\ heard # <<>> /\ output # <<>> =>
         IF outputOffset = 0 THEN heard[Len(heard)][1] < handed
                             ELSE heard[Len(heard)] = <<handed, outputOffset>>
    /\ outputOffset > 0 => heard # <<>>

BufferInv == BufferTypes /\ BufferOfOne /\ OverBefore /\ HeardUpToOffset /\ RenderedInOrder

-----------------------------------------------------------------------------
(* What a request is spoken with.                                          *)

SoundTypes ==
    /\ stored \in [Kinds -> [Langs -> Values \cup {NoValue}]]
    /\ storedTone \in [Voices -> Values \cup {NoValue}] /\ storedMode \in [Voices -> Modes]
    /\ version \in Nat /\ curVersion \in Nat /\ cachedSettingsVersion \in Int
    /\ host \in {"idle", "bump"} \cup Langs
    /\ engine \in Handles /\ engine.lang \in Langs \ missing /\ engine.pending = NoMode
    /\ request.voice \in Voices /\ request.lang \in Langs
    /\ cachedVoice \in Voices \cup {NoLang} /\ cachedLang \in Langs \cup {NoLang}
    /\ synth \in Stages /\ changed \in BOOLEAN

\* No version is known before it is written.
VersionsRead == curVersion <= version /\ cachedSettingsVersion <= version

\* The host application has written nothing since version n.
Written(n) == host = "idle" /\ n = version

\* From Identity on the caches name the request; the tone is the cached voice's.
CachesNameTheRequest ==
    /\ synth \in {"settings", "overrides", "queue"} =>
         cachedVoice = request.voice /\ cachedLang = request.lang
    /\ cachedVoice # NoLang => tone = <<cachedVoice, tone[2]>>
    /\ synth = "settings" /\ ~changed => cachedSettingsVersion = curVersion

ToneAndModeStored ==
    /\ tone = <<cachedVoice, storedTone[cachedVoice]>>
    /\ engine.mode = storedMode[cachedVoice]

PackStored(values) ==
    engine.lang = cachedLang => engine.pack["setting"] \in values \cup {Stored("setting", cachedLang)}

\* The engine is as the preferences say, but between Identity, which may reload the pack, and
\* Settings and Overrides, which put back what the reload dropped.
EngineAsStored ==
    /\ synth # "settings" /\ Written(cachedSettingsVersion) =>
         /\ cachedVoice \in Voices /\ ToneAndModeStored
         /\ PackStored(IF synth = "overrides" THEN {NoValue} ELSE {})
    /\ synth = "settings" /\ Written(curVersion) =>
         /\ ~changed => ToneAndModeStored
         /\ PackStored({NoValue})

SoundInv == SoundTypes /\ VersionsRead /\ CachesNameTheRequest /\ EngineAsStored
-----------------------------------------------------------------------------
(* The buffer.                                                             *)

LEMMA InitBuffer == Init => BufferInv
<1> SUFFICES ASSUME Init PROVE BufferInv
  OBVIOUS
<1>1. /\ synth = "idle" /\ request.number = 0 /\ output = <<>> /\ heard = <<>> /\ outputOffset = 0
      /\ handed = 0 /\ silenced = 0 /\ samples = 0 /\ left = 0
  BY DEF Init
<1>2. BufferTypes
  BY <1>1 DEF BufferTypes, Stages
<1> QED BY <1>1, <1>2 DEF BufferInv, BufferOfOne, OverBefore, Over, HeardUpToOffset, RenderedInOrder

\* A step of a request that is not its last, and a step of the host, leave the buffer alone.
LEMMA BufferKept ==
    ASSUME BufferInv, UNCHANGED <<output, outputOffset, heard, handed, silenced>>,
           synth' \in Stages, request'.number \in Nat, samples' \in Nat, left' \in Nat,
           Over' = Over
    PROVE  BufferInv'
  BY DEF BufferInv, BufferTypes, BufferOfOne, OverBefore, HeardUpToOffset, RenderedInOrder

LEMMA HandKeeps ==
    ASSUME BufferInv, Hand
    PROVE  BufferInv'
<1>1. /\ synth = "hand" /\ synth' = "idle" /\ outputOffset' = 0 /\ handed' = request.number
      /\ output' = [k \in 1 .. samples |-> <<request.number, k>>]
      /\ UNCHANGED <<request, heard, silenced, samples, left>>
  BY DEF Hand
<1>2. /\ request.number \in Nat /\ samples \in Nat /\ handed \in Nat /\ silenced \in Nat
      /\ heard \in Seq(Nat \X Nat)
  BY DEF BufferInv, BufferTypes
<1>3. /\ output' \in Seq(Nat \X Nat) /\ Len(output') = samples
      /\ \A k \in DOMAIN output' : output'[k] = <<request.number, k>>
  <2>1. \A k \in 1 .. samples : <<request.number, k>> \in Nat \X Nat
    BY <1>2
  <2> QED BY <1>1, <1>2, <2>1
<1>4. handed < request.number /\ silenced < request.number
  BY <1>1, <1>2 DEF BufferInv, OverBefore, Over
<1>5. BufferTypes'
  BY <1>1, <1>2, <1>3 DEF BufferInv, BufferTypes, Stages
<1>6. BufferOfOne'
  BY <1>1, <1>2, <1>3 DEF BufferOfOne
<1>7. OverBefore'
  BY <1>1, <1>2, <1>4 DEF OverBefore, Over
<1>8. HeardUpToOffset'
  <2>1. heard # <<>> => heard[Len(heard)][1] \in Nat /\ heard[Len(heard)][1] <= handed
    BY <1>2 DEF BufferInv, HeardUpToOffset
  <2> QED BY <1>1, <1>2, <1>4, <2>1 DEF HeardUpToOffset
<1>9. RenderedInOrder'
  BY <1>1 DEF BufferInv, RenderedInOrder
<1> QED BY <1>5, <1>6, <1>7, <1>8, <1>9 DEF BufferInv

LEMMA CancelClearKeeps ==
    ASSUME BufferInv, CancelClear
    PROVE  BufferInv'
<1>1. /\ output' = <<>> /\ outputOffset' = 0 /\ silenced' = Over
      /\ UNCHANGED <<synth, request, left, samples, heard, handed>>
  BY DEF CancelClear, jobVars
<1>2. Over \in Nat /\ Over' = Over
  <2>1. synth # "idle" => request.number - 1 \in Nat
    BY DEF BufferInv, BufferTypes, OverBefore, Over
  <2> QED BY <1>1, <2>1 DEF BufferInv, BufferTypes, Over
<1>3. BufferTypes'
  BY <1>1, <1>2 DEF BufferInv, BufferTypes
<1>4. BufferOfOne' /\ RenderedInOrder'
  BY <1>1 DEF BufferInv, BufferOfOne, RenderedInOrder
<1>5. OverBefore'
  BY <1>1, <1>2 DEF BufferInv, OverBefore
<1>6. HeardUpToOffset'
  BY <1>1 DEF BufferInv, HeardUpToOffset
<1> QED BY <1>3, <1>4, <1>5, <1>6 DEF BufferInv

\* A render: n samples from the offset on, at least one unless there is no buffer.
LEMMA RenderFacts ==
    ASSUME BufferInv, Render
    PROVE  \E n \in Nat :
              /\ outputOffset + n <= Len(output) /\ (output # <<>> => n > 0)
              /\ heard' \in Seq(Nat \X Nat) /\ Len(heard') = Len(heard) + n
              /\ \A i \in 1 .. Len(heard) : heard'[i] = heard[i]
              /\ \A j \in 1 .. n : heard'[Len(heard) + j] = <<handed, outputOffset + j>>
              /\ IF outputOffset + n >= Len(output)
                 THEN output' = <<>> /\ outputOffset' = 0
                 ELSE outputOffset' = outputOffset + n /\ output' = output
              /\ UNCHANGED <<synth, request, left, samples, handed, silenced>>
<1>1. PICK frames \in 1 .. MaxFrames :
        LET rest == Len(output) - outputOffset
            count == IF rest < frames THEN rest ELSE frames
        IN  /\ heard' = heard \o SubSeq(output, outputOffset + 1, outputOffset + count)
            /\ IF outputOffset + count >= Len(output)
               THEN output' = <<>> /\ outputOffset' = 0
               ELSE outputOffset' = outputOffset + count /\ UNCHANGED output
            /\ UNCHANGED <<synth, request, left, samples, handed, silenced>>
  BY DEF Render, jobVars
<1> DEFINE rest == Len(output) - outputOffset
           n == IF rest < frames THEN rest ELSE frames
           block == SubSeq(output, outputOffset + 1, outputOffset + n)
<1>2. /\ output \in Seq(Nat \X Nat) /\ heard \in Seq(Nat \X Nat)
      /\ outputOffset \in Nat /\ Len(output) \in Nat /\ Len(heard) \in Nat
      /\ (output = <<>>) <=> (Len(output) = 0)
  BY DEF BufferInv, BufferTypes
<1>3. /\ outputOffset <= Len(output) /\ (output # <<>> => outputOffset < Len(output))
  BY <1>2 DEF BufferInv, BufferOfOne
<1>4. n \in Nat /\ outputOffset + n <= Len(output) /\ (output # <<>> => n > 0)
  <2>1. frames \in Nat /\ frames > 0 /\ rest \in Nat /\ (output # <<>> => rest > 0)
    BY <1>2, <1>3, AudioUnitAssumption
  <2> QED BY <1>2, <2>1
<1>5. /\ heard' = heard \o block
      /\ IF outputOffset + n >= Len(output)
         THEN output' = <<>> /\ outputOffset' = 0
         ELSE outputOffset' = outputOffset + n /\ output' = output
      /\ UNCHANGED <<synth, request, left, samples, handed, silenced>>
  BY <1>1
<1> HIDE DEF n, rest
<1>6. /\ block \in Seq(Nat \X Nat) /\ Len(block) = n
      /\ \A j \in 1 .. n : block[j] = output[outputOffset + j]
  <2>1. \A i \in outputOffset + 1 .. outputOffset + n : output[i] \in Nat \X Nat
    BY <1>2, <1>4
  <2>2. outputOffset + 1 \in Int /\ outputOffset + n \in Int
    BY <1>2, <1>4
  <2> HIDE DEF block
  <2>3. /\ block \in Seq(Nat \X Nat)
        /\ Len(block) = IF outputOffset + 1 <= outputOffset + n
                        THEN (outputOffset + n) - (outputOffset + 1) + 1 ELSE 0
        /\ \A i \in 1 .. (outputOffset + n) - (outputOffset + 1) + 1 :
              block[i] = output[(outputOffset + 1) + i - 1]
    BY <2>1, <2>2, SubSeqProperties DEF block
  <2>4. /\ (outputOffset + n) - (outputOffset + 1) + 1 = n
        /\ outputOffset + 1 <= outputOffset + n <=> n >= 1
        /\ \A i \in 1 .. n : (outputOffset + 1) + i - 1 = outputOffset + i
    BY <1>2, <1>4
  <2>5. Len(block) = n
    BY <1>2, <1>4, <2>3
  <2>6. ASSUME NEW j \in 1 .. n PROVE block[j] = output[outputOffset + j]
    <3>1. j \in 1 .. (outputOffset + n) - (outputOffset + 1) + 1 /\ (outputOffset + 1) + j - 1 = outputOffset + j
      BY <2>4
    <3> QED BY <2>3, <3>1
  <2> QED BY <2>3, <2>5, <2>6
<1>7. \A j \in 1 .. n : output[outputOffset + j] = <<handed, outputOffset + j>>
  <2>1. \A j \in 1 .. n : outputOffset + j \in DOMAIN output
    BY <1>2, <1>4
  <2> QED BY <2>1 DEF BufferInv, BufferOfOne
<1> HIDE DEF block
<1>8. /\ heard' \in Seq(Nat \X Nat) /\ Len(heard') = Len(heard) + n
      /\ \A i \in 1 .. Len(heard) : heard'[i] = heard[i]
      /\ \A j \in 1 .. n : heard'[Len(heard) + j] = block[j]
  <2>1. /\ heard \o block \in Seq(Nat \X Nat) /\ Len(heard \o block) = Len(heard) + n
        /\ \A i \in 1 .. Len(heard) + n :
              (heard \o block)[i] = IF i <= Len(heard) THEN heard[i] ELSE block[i - Len(heard)]
    BY <1>2, <1>6, ConcatProperties
  <2>2. \A i \in 1 .. Len(heard) : i \in 1 .. Len(heard) + n /\ i <= Len(heard)
    BY <1>2, <1>4
  <2>3. \A j \in 1 .. n : /\ Len(heard) + j \in 1 .. Len(heard) + n
                          /\ ~(Len(heard) + j <= Len(heard))
                          /\ (Len(heard) + j) - Len(heard) = j
    BY <1>2, <1>4
  <2> QED BY <1>5, <2>1, <2>2, <2>3
<1> QED BY <1>4, <1>5, <1>6, <1>7, <1>8

\* What a render adds continues what was heard, or begins a later request.
LEMMA RenderKeeps ==
    ASSUME BufferInv, Render
    PROVE  /\ BufferInv'
           /\ \A i \in Len(heard) + 1 .. Len(heard') : heard'[i][1] > silenced
<1>1. PICK n \in Nat :
              /\ outputOffset + n <= Len(output) /\ (output # <<>> => n > 0)
              /\ heard' \in Seq(Nat \X Nat) /\ Len(heard') = Len(heard) + n
              /\ \A i \in 1 .. Len(heard) : heard'[i] = heard[i]
              /\ \A j \in 1 .. n : heard'[Len(heard) + j] = <<handed, outputOffset + j>>
              /\ IF outputOffset + n >= Len(output)
                 THEN output' = <<>> /\ outputOffset' = 0
                 ELSE outputOffset' = outputOffset + n /\ output' = output
              /\ UNCHANGED <<synth, request, left, samples, handed, silenced>>
  BY RenderFacts
<1>2. /\ output \in Seq(Nat \X Nat) /\ heard \in Seq(Nat \X Nat) /\ handed \in Nat /\ silenced \in Nat
      /\ outputOffset \in Nat /\ Len(output) \in Nat /\ Len(heard) \in Nat
      /\ (output = <<>>) <=> (Len(output) = 0)
      /\ (heard = <<>>) <=> (Len(heard) = 0)
  BY DEF BufferInv, BufferTypes
<1>3. (heard' = <<>>) <=> (Len(heard) + n = 0)
  BY <1>1
\* The samples it adds.
<1>4. \A i \in Len(heard) + 1 .. Len(heard) + n :
        /\ i - Len(heard) \in 1 .. n
        /\ heard'[i] = <<handed, outputOffset + (i - Len(heard))>>
  <2> SUFFICES ASSUME NEW i \in Len(heard) + 1 .. Len(heard) + n
               PROVE  /\ i - Len(heard) \in 1 .. n
                      /\ heard'[i] = <<handed, outputOffset + (i - Len(heard))>>
    OBVIOUS
  <2>1. i - Len(heard) \in 1 .. n /\ Len(heard) + (i - Len(heard)) = i
    BY <1>2
  <2> QED BY <1>1, <2>1
<1>5. n > 0 => output # <<>>
  <2>1. outputOffset + n <= Len(output)
    BY <1>1
  <2> QED BY <1>2, <2>1
<1>6. /\ n = 0 => output = <<>> /\ output' = <<>> /\ outputOffset' = 0
      /\ n = 0 /\ heard' # <<>> => heard # <<>> /\ heard'[Len(heard')] = heard[Len(heard)]
  <2>1. ASSUME n = 0 PROVE output = <<>> /\ output' = <<>> /\ outputOffset' = 0
    <3>1. output = <<>>
      BY <1>1, <2>1
    <3>2. outputOffset = 0 /\ Len(output) = 0
      BY <1>2, <3>1 DEF BufferInv, BufferOfOne
    <3>3. outputOffset + n >= Len(output)
      BY <2>1, <3>2
    <3> QED BY <1>1, <3>1, <3>3
  <2>2. ASSUME n = 0, heard' # <<>> PROVE heard # <<>> /\ heard'[Len(heard')] = heard[Len(heard)]
    <3>1. Len(heard') = Len(heard) /\ Len(heard) \in 1 .. Len(heard)
      BY <1>1, <1>2, <1>3, <2>2
    <3> QED BY <1>1, <1>2, <3>1
  <2> QED BY <2>1, <2>2
<1>7. BufferTypes'
  <2>1. output' \in Seq(Nat \X Nat) /\ outputOffset' \in Nat
    <3>1. CASE outputOffset + n >= Len(output)
      BY <1>1, <3>1
    <3>2. CASE ~(outputOffset + n >= Len(output))
      <4>1. output' = output /\ outputOffset' = outputOffset + n
        BY <1>1, <3>2
      <4>2. outputOffset + n \in Nat
        BY <1>2
      <4> QED BY <1>2, <4>1, <4>2
    <3> QED BY <3>1, <3>2
  <2>2. heard' \in Seq(Nat \X Nat) /\ UNCHANGED <<synth, request, left, samples, handed, silenced>>
    BY <1>1
  <2> QED BY <2>1, <2>2 DEF BufferInv, BufferTypes
<1>8. BufferOfOne'
  <2>1. CASE outputOffset + n >= Len(output)
    BY <1>1, <2>1 DEF BufferOfOne
  <2>2. CASE ~(outputOffset + n >= Len(output))
    <3>1. outputOffset' = outputOffset + n /\ output' = output /\ handed' = handed /\ output # <<>>
      BY <1>1, <1>2, <2>2
    <3> QED BY <1>2, <2>2, <3>1 DEF BufferInv, BufferOfOne
  <2> QED BY <2>1, <2>2
<1>9. OverBefore'
  <2>1. output' = <<>> \/ output' = output
    BY <1>1
  <2> QED BY <1>1, <2>1 DEF BufferInv, OverBefore, Over
<1>10. HeardUpToOffset'
  <2>1. CASE n = 0
    <3>1. heard' # <<>> => heard'[Len(heard')][1] <= handed
      BY <1>6, <2>1 DEF BufferInv, HeardUpToOffset
    <3> QED BY <1>1, <1>6, <2>1, <3>1 DEF HeardUpToOffset
  <2>2. CASE n > 0
    <3>1. Len(heard') \in Len(heard) + 1 .. Len(heard) + n /\ Len(heard') - Len(heard) = n
      BY <1>1, <1>2, <2>2
    <3>2. heard'[Len(heard')] = <<handed, outputOffset + n>>
      BY <1>4, <3>1
    <3>3. outputOffset + n > 0 /\ heard' # <<>>
      BY <1>2, <1>3, <2>2
    <3> QED BY <1>1, <1>2, <3>2, <3>3 DEF HeardUpToOffset
  <2> QED BY <2>1, <2>2
<1>11. RenderedInOrder'
  <2> SUFFICES ASSUME NEW i \in DOMAIN heard'
               PROVE  \/ heard'[i][2] = 1 /\ (i > 1 => heard'[i - 1][1] < heard'[i][1])
                      \/ i > 1 /\ heard'[i] = <<heard'[i - 1][1], heard'[i - 1][2] + 1>>
    BY DEF RenderedInOrder
  <2>1. i \in 1 .. Len(heard) + n
    BY <1>1, <1>2
  <2>2. CASE i <= Len(heard)
    <3>0. i \in 1 .. Len(heard) /\ (i > 1 => i - 1 \in 1 .. Len(heard))
      <4>1. i \in Int /\ i >= 1 /\ Len(heard) \in Int
        BY <1>2, <2>1
      <4> QED BY <2>2, <4>1
    <3>1. /\ i \in DOMAIN heard /\ heard'[i] = heard[i]
          /\ i > 1 => i - 1 \in 1 .. Len(heard)
      <4>1. DOMAIN heard = 1 .. Len(heard)
        BY <1>2
      <4>2. heard'[i] = heard[i]
        BY <1>1, <3>0
      <4> QED BY <3>0, <4>1, <4>2
    <3>2. i > 1 => heard'[i - 1] = heard[i - 1]
      BY <1>1, <3>1
    <3> QED BY <3>1, <3>2 DEF BufferInv, RenderedInOrder
  <2>3. CASE i > Len(heard) + 1
    <3>1. /\ i \in Len(heard) + 1 .. Len(heard) + n /\ i - 1 \in Len(heard) + 1 .. Len(heard) + n
          /\ i > 1 /\ outputOffset + (i - Len(heard)) = outputOffset + ((i - 1) - Len(heard)) + 1
      BY <1>2, <2>1, <2>3
    <3>2. /\ heard'[i] = <<handed, outputOffset + (i - Len(heard))>>
          /\ heard'[i - 1] = <<handed, outputOffset + ((i - 1) - Len(heard))>>
      BY <1>4, <3>1
    <3> QED BY <3>1, <3>2
  <2>4. CASE i = Len(heard) + 1
    <3>1. i \in Len(heard) + 1 .. Len(heard) + n /\ i - Len(heard) = 1 /\ n > 0 /\ i - 1 = Len(heard)
      BY <1>2, <2>1, <2>4
    <3>2. heard'[i] = <<handed, outputOffset + 1>>
      BY <1>4, <3>1
    <3>3. i > 1 => heard # <<>> /\ heard'[i - 1] = heard[Len(heard)]
      <4>1. i > 1 => Len(heard) \in 1 .. Len(heard)
        BY <1>2, <2>4
      <4> QED BY <1>1, <1>2, <3>1, <4>1
    <3>4. output # <<>>
      BY <1>5, <3>1
    <3>5. CASE outputOffset = 0
      <4>1. i > 1 => heard[Len(heard)][1] < handed
        BY <3>3, <3>4, <3>5 DEF BufferInv, HeardUpToOffset
      <4> QED BY <3>2, <3>3, <3>5, <4>1
    <3>6. CASE outputOffset # 0
      <4>1. heard # <<>> /\ heard[Len(heard)] = <<handed, outputOffset>>
        BY <1>2, <3>4, <3>6 DEF BufferInv, HeardUpToOffset
      <4>2. i > 1
        BY <1>2, <2>4, <4>1
      <4> QED BY <3>2, <3>3, <4>1, <4>2
    <3> QED BY <3>5, <3>6
  <2> QED BY <1>2, <2>1, <2>2, <2>3, <2>4
<1>12. \A i \in Len(heard) + 1 .. Len(heard') : heard'[i][1] > silenced
  <2> SUFFICES ASSUME NEW i \in Len(heard) + 1 .. Len(heard) + n PROVE heard'[i][1] > silenced
    BY <1>1
  <2>1. heard'[i][1] = handed /\ n > 0
    BY <1>2, <1>4
  <2> QED BY <1>2, <1>5, <2>1 DEF BufferInv, OverBefore
<1> QED BY <1>7, <1>8, <1>9, <1>10, <1>11, <1>12 DEF BufferInv

\* The steps of a request up to the buffer.
LEMMA RequestKeepsBuffer ==
    ASSUME BufferInv,
           Begin \/ ReadVersion \/ Identity \/ Settings \/ Overrides \/ Queue \/ Pull
    PROVE  BufferInv'
<1> USE DEF bufferVars, cancelVars, Stages, Over
<1>0. request.number \in Nat /\ samples \in Nat /\ left \in Nat /\ synth \in Stages
  BY DEF BufferInv, BufferTypes
<1>1. UNCHANGED <<output, outputOffset, heard, handed, silenced>>
  BY DEF Begin, ReadVersion, Identity, Settings, Overrides, Queue, Pull
<1>2. CASE Begin
  <2>1. PICK v \in Voices, l \in Langs, empty \in BOOLEAN :
          /\ request' = [number |-> request.number + 1, voice |-> v, lang |-> l]
          /\ IF empty /\ request.number > 0
             THEN synth' = "hand" /\ samples' = 1
             ELSE synth' = "version" /\ samples' = 0
    BY <1>2 DEF Begin
  <2>2. synth = "idle" /\ left' = left /\ request'.number = request.number + 1
    BY <1>2, <2>1 DEF Begin
  <2>3. synth' \in {"hand", "version"} /\ samples' \in Nat
    BY <2>1
  <2>4. Over' = Over
    BY <1>0, <2>2, <2>3
  <2> QED BY <1>0, <1>1, <2>2, <2>3, <2>4, BufferKept
<1>3. CASE ReadVersion \/ Identity \/ Settings \/ Overrides
  <2>1. synth \in Stages \ {"idle"} /\ synth' \in Stages \ {"idle"} /\ UNCHANGED <<request, samples, left>>
    BY <1>3 DEF ReadVersion, Identity, Settings, Overrides
  <2> QED BY <1>0, <1>1, <2>1, BufferKept
<1>4. CASE Queue
  <2>1. synth = "queue" /\ synth' = "pull" /\ UNCHANGED <<request, samples>> /\ left' \in 0 .. MaxSamples
    BY <1>4 DEF Queue
  <2>2. left' \in Nat
    BY <2>1, AudioUnitAssumption
  <2> QED BY <1>0, <1>1, <2>1, <2>2, BufferKept
<1>5. CASE Pull
  <2>1. synth = "pull" /\ synth' \in {"pull", "hand"} /\ UNCHANGED request
    BY <1>5 DEF Pull
  <2>2. samples' \in Nat /\ left' \in Nat
    BY <1>0, <1>5 DEF Pull
  <2> QED BY <1>0, <1>1, <2>1, <2>2, BufferKept
<1> QED BY <1>2, <1>3, <1>4, <1>5

LEMMA BufferNext ==
    ASSUME BufferInv, [Next]_vars
    PROVE  /\ BufferInv'
           /\ \A i \in Len(heard) + 1 .. Len(heard') : heard'[i][1] > silenced
<1>0. heard \in Seq(Nat \X Nat)
  BY DEF BufferInv, BufferTypes
<1>1. CASE Render
  BY <1>1, RenderKeeps
<1>2. CASE CancelStop \/ Host \/ UNCHANGED vars
  <2>1. UNCHANGED <<synth, request, samples, left, output, outputOffset, heard, handed, silenced>>
    BY <1>2 DEF CancelStop, Host, EditTone, EditSetting, ImportClears, ImportSaves, BumpVersion,
       EditPhonemeOrDict, extensionVars, vars, jobVars, bufferVars
  <2> QED BY <2>1, BufferKept DEF BufferInv, BufferTypes, Over
<1>3. CASE Synthesize \/ CancelClear
  <2>1. heard' = heard
    BY <1>3 DEF Synthesize, Begin, ReadVersion, Identity, Settings, Overrides, Queue, Pull, Hand,
       CancelClear, bufferVars
  <2>2. BufferInv'
    BY <1>3, RequestKeepsBuffer, HandKeeps, CancelClearKeeps DEF Synthesize
  <2>3. Len(heard) + 1 .. Len(heard') = {}
    BY <1>0, <2>1
  <2> QED BY <2>2, <2>3
<1>4. UNCHANGED heard => Len(heard) + 1 .. Len(heard') = {}
  BY <1>0
<1>5. CancelStop \/ Host \/ UNCHANGED vars => UNCHANGED heard
  BY DEF CancelStop, Host, EditTone, EditSetting, ImportClears, ImportSaves, BumpVersion,
     EditPhonemeOrDict, extensionVars, vars, bufferVars
<1> QED BY <1>1, <1>2, <1>3, <1>4, <1>5 DEF Next

\* What the system hears is each buffer from its first sample on, in order, and never an
\* earlier request after a later one, however renders, requests and cancels interleave.
THEOREM RenderedOnceInOrder == Spec => []RenderedInOrder
<1>1. Init => BufferInv
  BY InitBuffer
<1>2. BufferInv /\ [Next]_vars => BufferInv'
  BY BufferNext
<1>3. BufferInv => RenderedInOrder
  BY DEF BufferInv
<1> QED BY <1>1, <1>2, <1>3, PTL DEF Spec

\* After a cancel no sample is heard of a request that it found complete: the buffer is only
\* ever of a request that was not.
THEOREM CancelledStaySilent == Spec => CancelSilences
<1>1. Init => BufferInv
  BY InitBuffer
<1>2. BufferInv /\ [Next]_vars => BufferInv'
  BY BufferNext
<1>3. BufferInv /\ [Next]_vars =>
        [\A i \in Len(heard) + 1 .. Len(heard') : heard'[i][1] > silenced]_vars
  BY BufferNext
<1> QED BY <1>1, <1>2, <1>3, PTL DEF Spec, CancelSilences

-----------------------------------------------------------------------------
(* The handle's operations.                                                *)

LEMMA SetLanguageFacts ==
    ASSUME NEW h \in Handles, h.pending = NoMode, NEW l \in Langs, NEW ok \in BOOLEAN
    PROVE  /\ SetLanguage(h, l, ok) \in Handles /\ SetLanguage(h, l, ok).pending = NoMode
           /\ ok => /\ SetLanguage(h, l, ok).lang = l
                    /\ SetLanguage(h, l, ok).pack["setting"] = NoValue
           /\ ~ok => SetLanguage(h, l, ok) = h
  BY DEF Handles, SetLanguage, FilePack, Kinds

LEMMA SetPitchModeFacts ==
    ASSUME NEW h \in Handles, h.lang \in Langs, NEW m \in Modes
    PROVE  /\ SetPitchMode(h, m) \in Handles /\ SetPitchMode(h, m).mode = m
           /\ SetPitchMode(h, m).lang = h.lang /\ SetPitchMode(h, m).pending = h.pending
           /\ SetPitchMode(h, m).pack = h.pack
<1>1. Loaded(h)
  BY HandleAssumption DEF Loaded
<1> QED BY <1>1 DEF Handles, SetPitchMode

LEMMA SetDataFacts ==
    ASSUME NEW h \in Handles, NEW k \in Kinds, NEW l \in Langs, NEW v \in Values
    PROVE  /\ SetData(h, k, l, v) \in Handles
           /\ SetData(h, k, l, v).lang = h.lang /\ SetData(h, k, l, v).mode = h.mode
           /\ SetData(h, k, l, v).pending = h.pending
           /\ SetData(h, k, l, v).pack["setting"] =
                 IF k = "setting" /\ h.lang = l THEN v ELSE h.pack["setting"]
<1>1. h.pack \in [Kinds -> Values \cup {NoValue}] /\ "setting" \in Kinds
  BY DEF Handles, Kinds
<1>2. CASE (k = "setting" /\ h.lang # l) \/ (k = "phoneme" /\ ~Loaded(h))
  BY <1>2 DEF SetData
<1>3. CASE ~((k = "setting" /\ h.lang # l) \/ (k = "phoneme" /\ ~Loaded(h)))
  <2>1. SetData(h, k, l, v) = [h EXCEPT !.pack = [h.pack EXCEPT ![k] = v]]
    BY <1>3 DEF SetData
  <2>2. /\ [h.pack EXCEPT ![k] = v] \in [Kinds -> Values \cup {NoValue}]
        /\ [h.pack EXCEPT ![k] = v]["setting"] = IF k = "setting" THEN v ELSE h.pack["setting"]
    BY <1>1
  <2> QED BY <1>3, <2>1, <2>2 DEF Handles
<1> QED BY <1>2, <1>3

LEMMA SetDictFacts ==
    ASSUME NEW h \in Handles, NEW v \in Values
    PROVE  /\ SetDictEntry(h, v) \in Handles
           /\ SetDictEntry(h, v).lang = h.lang /\ SetDictEntry(h, v).mode = h.mode
           /\ SetDictEntry(h, v).pending = h.pending
           /\ SetDictEntry(h, v).pack["setting"] = h.pack["setting"]
<1>1. h.pack \in [Kinds -> Values \cup {NoValue}] /\ {"setting", "dict"} \subseteq Kinds
  BY DEF Handles, Kinds
<1>2. SetDictEntry(h, v) = [h EXCEPT !.pack = [h.pack EXCEPT !["dict"] = v]]
  BY DEF SetDictEntry
<1>3. /\ [h.pack EXCEPT !["dict"] = v] \in [Kinds -> Values \cup {NoValue}]
      /\ [h.pack EXCEPT !["dict"] = v]["setting"] = h.pack["setting"]
  BY <1>1
<1> QED BY <1>2, <1>3 DEF Handles

\* What a request adds of the stored overrides.
LEMMA MergeFacts ==
    ASSUME stored \in [Kinds -> [Langs -> Values \cup {NoValue}]],
           NEW h \in Handles, NEW k \in Kinds, NEW l \in Langs
    PROVE  /\ Merge(h, k, l) \in Handles
           /\ Merge(h, k, l).lang = h.lang /\ Merge(h, k, l).mode = h.mode
           /\ Merge(h, k, l).pending = h.pending
           /\ Merge(h, k, l).pack["setting"] =
                IF k = "setting" /\ h.lang = l /\ Stored("setting", l) # NoValue
                THEN Stored("setting", l) ELSE h.pack["setting"]
<1>1. English \in Langs
  BY AudioUnitAssumption
<1>2. Stored(k, l) \in Values \cup {NoValue}
  BY <1>1 DEF Stored
<1>3. CASE Stored(k, l) = NoValue
  BY <1>3 DEF Merge
<1>4. CASE Stored(k, l) # NoValue /\ k = "dict"
  <2>1. Merge(h, k, l) = SetDictEntry(h, Stored(k, l)) /\ Stored(k, l) \in Values
    BY <1>2, <1>4 DEF Merge
  <2> QED BY <1>4, <2>1, SetDictFacts
<1>5. CASE Stored(k, l) # NoValue /\ k # "dict"
  <2>1. Merge(h, k, l) = SetData(h, k, l, Stored(k, l)) /\ Stored(k, l) \in Values
    BY <1>2, <1>5 DEF Merge
  <2> QED BY <1>5, <2>1, SetDataFacts
<1> QED BY <1>3, <1>4, <1>5

-----------------------------------------------------------------------------
(* The settings.                                                           *)

LEMMA InitSound == Init => SoundInv
<1> SUFFICES ASSUME Init PROVE SoundInv
  OBVIOUS
<1> USE AudioUnitAssumption, HandleAssumption
<1>1. /\ synth = "idle" /\ host = "idle" /\ version = 0 /\ curVersion = 0 /\ cachedSettingsVersion = -1
      /\ cachedVoice = NoLang /\ cachedLang = NoLang /\ changed = FALSE
  BY DEF Init
<1>2. /\ stored \in [Kinds -> [Langs -> Values \cup {NoValue}]]
      /\ storedTone \in [Voices -> Values \cup {NoValue}] /\ storedMode \in [Voices -> Modes]
  BY DEF Init
<1>3. request.voice \in Voices /\ request.lang \in Langs /\ English \in Langs \ missing
  BY DEF Init
<1>4. NewHandle \in Handles /\ NewHandle.pending = NoMode
  BY DEF NewHandle, Handles, FilePack
<1>5. engine \in Handles /\ engine.lang \in Langs \ missing /\ engine.pending = NoMode
  <2>1. engine = SetLanguage(NewHandle, English, TRUE) /\ TRUE \in BOOLEAN /\ English \in Langs
    BY DEF Init
  <2> QED BY <1>3, <1>4, <2>1, SetLanguageFacts
<1>6. SoundTypes
  <2>1. version \in Nat /\ curVersion \in Nat /\ cachedSettingsVersion \in Int
    BY <1>1
  <2>2. host \in {"idle", "bump"} \cup Langs /\ synth \in Stages /\ changed \in BOOLEAN
    BY <1>1 DEF Stages
  <2>3. cachedVoice \in Voices \cup {NoLang} /\ cachedLang \in Langs \cup {NoLang}
    BY <1>1
  <2> QED BY <1>2, <1>3, <1>5, <2>1, <2>2, <2>3 DEF SoundTypes
<1> QED BY <1>1, <1>6 DEF SoundInv, VersionsRead, CachesNameTheRequest, EngineAsStored, Written

\* The steps of a request that neither prepare the engine nor read it.
LEMMA SoundKept ==
    ASSUME SoundInv,
           UNCHANGED <<stored, storedTone, storedMode, version, host, missing, engine, tone,
                       cachedVoice, cachedLang, cachedSettingsVersion>>,
           synth \notin {"settings", "overrides"}, synth' \in Stages \ {"settings", "overrides", "queue"},
           curVersion' \in Nat, curVersion' <= version,
           request'.voice \in Voices, request'.lang \in Langs, changed' \in BOOLEAN
    PROVE  SoundInv'
<1>1. SoundTypes'
  BY DEF SoundInv, SoundTypes
<1>2. VersionsRead' /\ CachesNameTheRequest'
  BY DEF SoundInv, VersionsRead, CachesNameTheRequest
<1>3. EngineAsStored'
  BY DEF SoundInv, EngineAsStored, Written, ToneAndModeStored, PackStored, Stored
<1> QED BY <1>1, <1>2, <1>3 DEF SoundInv

\* The steps of the other threads, and edits that no request caches.
LEMMA SoundUntouched ==
    ASSUME SoundInv,
           UNCHANGED <<storedTone, storedMode, version, host, missing, engine, tone, cachedVoice,
                       cachedLang, cachedSettingsVersion, synth, curVersion, request, changed>>,
           stored' \in [Kinds -> [Langs -> Values \cup {NoValue}]],
           stored'["setting"] = stored["setting"]
    PROVE  SoundInv'
<1>1. SoundTypes'
  BY DEF SoundInv, SoundTypes
<1>2. VersionsRead' /\ CachesNameTheRequest'
  BY DEF SoundInv, VersionsRead, CachesNameTheRequest
<1>3. EngineAsStored'
  BY DEF SoundInv, EngineAsStored, Written, ToneAndModeStored, PackStored, Stored
<1> QED BY <1>1, <1>2, <1>3 DEF SoundInv

\* What the host application writes is not what any version stands for until it has written
\* the next, and that one no request has read.
LEMMA HostKeepsSound ==
    ASSUME SoundInv, Host
    PROVE  SoundInv'
<1>0. UNCHANGED <<missing, engine, tone, cachedVoice, cachedLang, cachedSettingsVersion, synth,
                  curVersion, request, changed>>
  BY DEF Host, EditTone, EditSetting, ImportClears, ImportSaves, BumpVersion, EditPhonemeOrDict,
     extensionVars, soundVars, jobVars
<1>1. /\ stored \in [Kinds -> [Langs -> Values \cup {NoValue}]] /\ version \in Nat
      /\ curVersion <= version /\ cachedSettingsVersion <= version
      /\ curVersion \in Nat /\ cachedSettingsVersion \in Int
      /\ storedTone \in [Voices -> Values \cup {NoValue}] /\ storedMode \in [Voices -> Modes]
      /\ host \in {"idle", "bump"} \cup Langs
  BY DEF SoundInv, SoundTypes, VersionsRead
<1>2. ASSUME stored' \in [Kinds -> [Langs -> Values \cup {NoValue}]], version' \in Nat,
             storedTone' \in [Voices -> Values \cup {NoValue}], storedMode' \in [Voices -> Modes],
             host' \in {"idle", "bump"} \cup Langs,
             curVersion <= version', cachedSettingsVersion <= version',
             host' = "idle" => curVersion # version' /\ cachedSettingsVersion # version'
      PROVE  SoundInv'
  <2>1. SoundTypes'
    BY <1>0, <1>2 DEF SoundInv, SoundTypes
  <2>2. VersionsRead' /\ CachesNameTheRequest'
    BY <1>0, <1>2 DEF SoundInv, VersionsRead, CachesNameTheRequest
  <2>3. EngineAsStored'
    BY <1>0, <1>2 DEF EngineAsStored, Written
  <2> QED BY <2>1, <2>2, <2>3 DEF SoundInv
<1>3. CASE EditTone
  <2>1. /\ storedTone' \in [Voices -> Values \cup {NoValue}] /\ storedMode' \in [Voices -> Modes]
        /\ host' = "bump" /\ UNCHANGED <<stored, version>>
    BY <1>1, <1>3 DEF EditTone
  <2> QED BY <1>1, <1>2, <2>1
<1>4. CASE EditSetting \/ ImportClears \/ ImportSaves
  <2>1. /\ host' \in {"bump"} \cup Langs /\ UNCHANGED <<storedTone, storedMode, version>>
    BY <1>4 DEF EditSetting, ImportClears, ImportSaves
  <2>2. \E l \in Langs, v \in Values \cup {NoValue} : stored' = [stored EXCEPT !["setting"][l] = v]
    BY <1>4 DEF EditSetting, ImportClears, ImportSaves
  <2>3. stored' \in [Kinds -> [Langs -> Values \cup {NoValue}]]
    <3>1. PICK l \in Langs, v \in Values \cup {NoValue} :
            stored' = [stored EXCEPT !["setting"] = [stored["setting"] EXCEPT ![l] = v]]
      BY <2>2
    <3>2. "setting" \in Kinds /\ stored["setting"] \in [Langs -> Values \cup {NoValue}]
      BY <1>1 DEF Kinds
    <3>3. [stored["setting"] EXCEPT ![l] = v] \in [Langs -> Values \cup {NoValue}]
      BY <3>2
    <3> QED BY <1>1, <3>1, <3>2, <3>3
  <2>4. host' # "idle"
    BY <2>1, AudioUnitAssumption
  <2> QED BY <1>1, <1>2, <2>1, <2>3, <2>4
<1>5. CASE BumpVersion
  <2>1. host' = "idle" /\ version' = version + 1 /\ UNCHANGED <<stored, storedTone, storedMode>>
    BY <1>5 DEF BumpVersion
  <2> QED BY <1>1, <1>2, <2>1
<1>6. CASE EditPhonemeOrDict
  <2>1. PICK k \in {"phoneme", "dict"}, l \in Langs, v \in Values \cup {NoValue} :
          stored' = [stored EXCEPT ![k] = [stored[k] EXCEPT ![IF k = "phoneme" THEN English ELSE l] = v]]
    BY <1>6 DEF EditPhonemeOrDict
  <2>2. k \in Kinds /\ stored[k] \in [Langs -> Values \cup {NoValue}] /\ "setting" \in Kinds
    BY <1>1 DEF Kinds
  <2>3. [stored[k] EXCEPT ![IF k = "phoneme" THEN English ELSE l] = v] \in [Langs -> Values \cup {NoValue}]
    BY <2>2
  <2>4. stored' \in [Kinds -> [Langs -> Values \cup {NoValue}]] /\ stored'["setting"] = stored["setting"]
    BY <1>1, <2>1, <2>2, <2>3
  <2>5. UNCHANGED <<storedTone, storedMode, version, host>>
    BY <1>6 DEF EditPhonemeOrDict
  <2> QED BY <1>0, <2>4, <2>5, SoundUntouched
<1> QED BY <1>3, <1>4, <1>5, <1>6 DEF Host

LEMMA IdentityKeepsSound ==
    ASSUME SoundInv, Identity
    PROVE  SoundInv'
<1> DEFINE voiceChanged == request.voice # cachedVoice
           reload == request.lang # cachedLang \/ curVersion # cachedSettingsVersion
<1>1. /\ synth = "identity" /\ synth' = "settings"
      /\ cachedVoice' = request.voice /\ cachedLang' = request.lang
      /\ tone' = IF voiceChanged THEN <<request.voice, NoValue>> ELSE tone
      /\ engine' = IF reload THEN SetLanguage(engine, request.lang, request.lang \notin missing)
                   ELSE engine
      /\ changed' = (voiceChanged \/ reload)
      /\ UNCHANGED <<stored, storedTone, storedMode, version, host, missing, cachedSettingsVersion,
                     request, curVersion>>
  BY DEF Identity, prefsVars
<1>2. /\ engine \in Handles /\ engine.lang \in Langs \ missing /\ engine.pending = NoMode
      /\ request.lang \in Langs /\ request.voice \in Voices
      /\ curVersion \in Nat /\ cachedSettingsVersion \in Int
  BY DEF SoundInv, SoundTypes
<1>3. /\ engine' \in Handles /\ engine'.lang \in Langs \ missing /\ engine'.pending = NoMode
      /\ reload /\ engine'.lang = request.lang => engine'.pack["setting"] = NoValue
      /\ ~reload => engine' = engine
  <2>1. CASE ~reload
    BY <1>1, <1>2, <2>1
  <2>2. CASE reload /\ request.lang \notin missing
    <3>1. engine' = SetLanguage(engine, request.lang, TRUE) /\ TRUE \in BOOLEAN
      BY <1>1, <2>2
    <3> QED BY <1>2, <2>2, <3>1, SetLanguageFacts
  <2>3. CASE reload /\ request.lang \in missing
    <3>1. engine' = SetLanguage(engine, request.lang, FALSE) /\ FALSE \in BOOLEAN
      BY <1>1, <2>3
    <3>2. engine' = engine
      BY <1>2, <3>1, SetLanguageFacts
    <3> QED BY <1>2, <2>3, <3>2
  <2> QED BY <2>1, <2>2, <2>3
<1>4. SoundTypes'
  BY <1>1, <1>2, <1>3 DEF SoundInv, SoundTypes, Stages
<1>5. VersionsRead'
  BY <1>1 DEF SoundInv, VersionsRead
<1>6. CachesNameTheRequest'
  <2>1. cachedVoice' = request.voice /\ cachedVoice' # NoLang
    BY <1>1, <1>2, AudioUnitAssumption
  <2>2. tone' = <<cachedVoice', tone'[2]>>
    <3>1. CASE voiceChanged
      BY <1>1, <3>1
    <3>2. CASE ~voiceChanged
      BY <1>1, <2>1, <3>2 DEF SoundInv, CachesNameTheRequest
    <3> QED BY <3>1, <3>2
  <2> QED BY <1>1, <2>1, <2>2 DEF CachesNameTheRequest
<1>7. EngineAsStored'
  <2> SUFFICES ASSUME Written(curVersion)'
               PROVE  (~changed => ToneAndModeStored)' /\ PackStored({NoValue})'
    BY <1>1 DEF EngineAsStored
  <2>1. ASSUME ~reload PROVE Written(cachedSettingsVersion)
    BY <1>1, <2>1 DEF Written
  <2>2. (~changed => ToneAndModeStored)'
    <3> SUFFICES ASSUME ~changed' PROVE ToneAndModeStored'
      OBVIOUS
    <3>1. ~voiceChanged /\ ~reload
      BY <1>1
    <3>2. ToneAndModeStored /\ cachedVoice' = cachedVoice /\ UNCHANGED <<tone, engine, storedTone, storedMode>>
      BY <1>1, <1>3, <2>1, <3>1 DEF SoundInv, EngineAsStored
    <3> QED BY <3>2 DEF ToneAndModeStored
  <2>3. PackStored({NoValue})'
    <3>1. CASE reload
      BY <1>1, <1>3, <3>1 DEF PackStored
    <3>2. CASE ~reload
      <4>1. PackStored({}) /\ engine' = engine /\ cachedLang' = cachedLang /\ stored' = stored
        BY <1>1, <1>3, <2>1, <3>2 DEF SoundInv, EngineAsStored
      <4> QED BY <4>1 DEF PackStored, Stored
    <3> QED BY <3>1, <3>2
  <2> QED BY <2>2, <2>3
<1> QED BY <1>4, <1>5, <1>6, <1>7 DEF SoundInv

LEMMA SettingsKeepsSound ==
    ASSUME SoundInv, Settings
    PROVE  SoundInv'
<1>1. /\ synth = "settings" /\ synth' = "overrides"
      /\ changed => /\ tone' = <<tone[1], storedTone[request.voice]>>
                    /\ engine' = SetPitchMode(engine, storedMode[request.voice])
                    /\ cachedSettingsVersion' = curVersion
      /\ ~changed => UNCHANGED <<tone, engine, cachedSettingsVersion>>
      /\ UNCHANGED <<stored, storedTone, storedMode, version, host, missing, cachedVoice, cachedLang,
                     request, curVersion, changed>>
  BY DEF Settings, prefsVars
<1>2. /\ engine \in Handles /\ engine.lang \in Langs \ missing /\ engine.pending = NoMode
      /\ request.lang \in Langs /\ request.voice \in Voices
      /\ storedMode \in [Voices -> Modes] /\ changed \in BOOLEAN
      /\ curVersion \in Nat /\ cachedSettingsVersion \in Int /\ curVersion <= version
  BY DEF SoundInv, SoundTypes, VersionsRead
<1>3. cachedVoice = request.voice /\ cachedLang = request.lang /\ cachedVoice # NoLang
      /\ tone = <<cachedVoice, tone[2]>>
  BY <1>1, <1>2, AudioUnitAssumption DEF SoundInv, CachesNameTheRequest
<1>4. /\ engine' \in Handles /\ engine'.lang = engine.lang /\ engine'.pending = engine.pending
      /\ engine'.pack = engine.pack
      /\ changed => engine'.mode = storedMode[request.voice]
  BY <1>1, <1>2, SetPitchModeFacts
<1>5. cachedSettingsVersion' = curVersion
  BY <1>1, <1>2 DEF SoundInv, CachesNameTheRequest
<1>6. tone' = <<cachedVoice', tone'[2]>> /\ (changed => tone' = <<cachedVoice, storedTone[cachedVoice]>>)
  BY <1>1, <1>2, <1>3
<1>7. SoundTypes'
  BY <1>1, <1>2, <1>4, <1>5 DEF SoundInv, SoundTypes, Stages
<1>8. VersionsRead' /\ CachesNameTheRequest'
  BY <1>1, <1>2, <1>3, <1>5, <1>6 DEF VersionsRead, CachesNameTheRequest
<1>9. EngineAsStored'
  <2> SUFFICES ASSUME Written(curVersion)
               PROVE  (cachedVoice \in Voices /\ ToneAndModeStored)' /\ PackStored({NoValue})'
    BY <1>1, <1>5 DEF EngineAsStored, Written
  <2>1. ToneAndModeStored'
    <3>1. CASE changed
      BY <1>1, <1>3, <1>4, <1>6, <3>1 DEF ToneAndModeStored
    <3>2. CASE ~changed
      BY <1>1, <3>2 DEF SoundInv, EngineAsStored, ToneAndModeStored
    <3> QED BY <3>1, <3>2
  <2>2. PackStored({NoValue})'
    BY <1>1, <1>4 DEF SoundInv, EngineAsStored, PackStored, Stored
  <2> QED BY <1>1, <1>2, <1>3, <2>1, <2>2
<1> QED BY <1>7, <1>8, <1>9 DEF SoundInv

LEMMA OverridesKeepsSound ==
    ASSUME SoundInv, Overrides
    PROVE  SoundInv'
<1> DEFINE l == request.lang
           h1 == Merge(engine, "phoneme", l)
           h2 == Merge(h1, "setting", l)
           h3 == Merge(h2, "dict", l)
<1>1. /\ synth = "overrides" /\ synth' = "queue" /\ engine' = h3
      /\ UNCHANGED <<stored, storedTone, storedMode, version, host, missing, tone, cachedVoice,
                     cachedLang, cachedSettingsVersion, request, curVersion, changed>>
  BY DEF Overrides, prefsVars
<1>2. /\ engine \in Handles /\ engine.lang \in Langs \ missing /\ engine.pending = NoMode
      /\ l \in Langs /\ request.voice \in Voices /\ {"phoneme", "setting", "dict"} \subseteq Kinds
      /\ stored \in [Kinds -> [Langs -> Values \cup {NoValue}]]
  BY DEF SoundInv, SoundTypes, Kinds
<1>3. cachedVoice = request.voice /\ cachedLang = request.lang
  BY <1>1 DEF SoundInv, CachesNameTheRequest
<1> HIDE DEF l, h1, h2, h3
<1>4. /\ h1 \in Handles /\ h1.lang = engine.lang /\ h1.mode = engine.mode /\ h1.pending = engine.pending
      /\ h1.pack["setting"] = engine.pack["setting"]
  BY <1>2, MergeFacts DEF h1
<1>5. /\ h2 \in Handles /\ h2.lang = h1.lang /\ h2.mode = h1.mode /\ h2.pending = h1.pending
      /\ h2.pack["setting"] = IF h1.lang = l /\ Stored("setting", l) # NoValue
                              THEN Stored("setting", l) ELSE h1.pack["setting"]
  BY <1>2, <1>4, MergeFacts DEF h2
<1>6. /\ h3 \in Handles /\ h3.lang = h2.lang /\ h3.mode = h2.mode /\ h3.pending = h2.pending
      /\ h3.pack["setting"] = h2.pack["setting"]
  BY <1>2, <1>5, MergeFacts DEF h3
<1>7. SoundTypes'
  BY <1>1, <1>2, <1>4, <1>5, <1>6 DEF SoundInv, SoundTypes, Stages
<1>8. VersionsRead' /\ CachesNameTheRequest'
  BY <1>1, <1>3 DEF SoundInv, VersionsRead, CachesNameTheRequest
<1>9. EngineAsStored'
  <2> SUFFICES ASSUME Written(cachedSettingsVersion)
               PROVE  (cachedVoice \in Voices /\ ToneAndModeStored)' /\ PackStored({})'
    BY <1>1 DEF EngineAsStored, Written
  <2>1. /\ cachedVoice \in Voices /\ ToneAndModeStored /\ PackStored({NoValue})
    BY <1>1 DEF SoundInv, EngineAsStored
  <2>2. ToneAndModeStored'
    BY <1>1, <1>4, <1>5, <1>6, <2>1 DEF ToneAndModeStored
  <2>3. PackStored({})'
    <3>1. engine.lang = cachedLang =>
            h3.pack["setting"] = Stored("setting", cachedLang)
      BY <1>3, <1>4, <1>5, <1>6, <2>1 DEF PackStored, l
    <3> QED BY <1>1, <1>4, <1>5, <1>6, <3>1 DEF PackStored, Stored
  <2> QED BY <1>1, <2>1, <2>2, <2>3
<1> QED BY <1>7, <1>8, <1>9 DEF SoundInv

LEMMA SoundNext ==
    ASSUME SoundInv, [Next]_vars
    PROVE  SoundInv'
<1>0. /\ curVersion \in Nat /\ version \in Nat /\ curVersion <= version
      /\ request.voice \in Voices /\ request.lang \in Langs /\ changed \in BOOLEAN /\ synth \in Stages
      /\ stored \in [Kinds -> [Langs -> Values \cup {NoValue}]]
  BY DEF SoundInv, SoundTypes, VersionsRead
<1>1. CASE Begin
  <2>1. /\ synth = "idle" /\ synth' \in {"hand", "version"} /\ UNCHANGED <<prefsVars, soundVars, curVersion, changed>>
        /\ request'.voice \in Voices /\ request'.lang \in Langs
    BY <1>1 DEF Begin
  <2> QED BY <1>0, <2>1, SoundKept DEF prefsVars, soundVars, Stages
<1>2. CASE ReadVersion
  <2>1. synth = "version" /\ synth' = "identity" /\ curVersion' = version
        /\ UNCHANGED <<prefsVars, soundVars, request, changed>>
    BY <1>2 DEF ReadVersion
  <2> QED BY <1>0, <2>1, SoundKept DEF prefsVars, soundVars, Stages
<1>3. CASE Queue \/ Pull \/ Hand
  <2>1. /\ synth \in {"queue", "pull", "hand"} /\ synth' \in {"pull", "hand", "idle"}
        /\ UNCHANGED <<prefsVars, soundVars, request, curVersion, changed>>
    BY <1>3 DEF Queue, Pull, Hand
  <2> QED BY <1>0, <2>1, SoundKept DEF prefsVars, soundVars, Stages
<1>4. CASE CancelStop \/ CancelClear \/ Render \/ UNCHANGED vars
  <2>1. UNCHANGED <<prefsVars, soundVars, jobVars>>
    BY <1>4 DEF CancelStop, CancelClear, Render, vars
  <2> QED BY <1>0, <2>1, SoundUntouched DEF prefsVars, soundVars, jobVars
<1> QED BY <1>1, <1>2, <1>3, <1>4, IdentityKeepsSound, SettingsKeepsSound, OverridesKeepsSound,
           HostKeepsSound DEF Next, Synthesize

\* A request is spoken with the tone, the pitch mode and the pack settings that are stored,
\* unless the host application has written since its version was read: what a reload of the
\* pack drops is put back before the text is queued, and a version that was read never
\* stands for what is written after it.
THEOREM SpokenAsConfigured == Spec => []SpokenWithStoredSettings
<1>1. SoundInv => SpokenWithStoredSettings
  <2> SUFFICES ASSUME SoundInv, Prepared
               PROVE  /\ engine.pack["setting"] = Stored("setting", request.lang)
                      /\ tone = <<request.voice, storedTone[request.voice]>>
                      /\ engine.mode = storedMode[request.voice]
    BY DEF SpokenWithStoredSettings
  <2>1. /\ synth = "queue" /\ engine.lang = request.lang /\ Written(cachedSettingsVersion)
        /\ cachedVoice = request.voice /\ cachedLang = request.lang
    BY DEF Prepared, Written, SoundInv, CachesNameTheRequest
  <2>2. ToneAndModeStored /\ PackStored({})
    BY <2>1 DEF SoundInv, EngineAsStored
  <2> QED BY <2>1, <2>2 DEF ToneAndModeStored, PackStored
<1> QED BY <1>1, InitSound, SoundNext, PTL DEF Spec

================================================================================
