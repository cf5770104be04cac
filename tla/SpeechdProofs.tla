----------------------------- MODULE SpeechdProofs -----------------------------
(***************************************************************************)
(* Proofs about SpeechdModule, for every number of messages, STOPs,        *)
(* settings, clauses and chunks.                                           *)
(***************************************************************************)
EXTENDS SpeechdModule, TLAPS

-----------------------------------------------------------------------------
(* Lines on their way.                                                     *)

LineKinds == {"SPEAK", "STOP", "PAUSE", "SET", "QUIT", "text", "dot"}
Lines == [kind : LineKinds, clauses : Int]

Has(q, kind) == \E k \in DOMAIN q : q[k].kind = kind
SpeakLast(q) == Len(q) > 0 /\ \A k \in DOMAIN q : q[k].kind = "SPEAK" <=> k = Len(q)

LEMMA LineFacts ==
    /\ \A kind \in LineKinds : Line(kind) \in Lines /\ Line(kind).kind = kind
    /\ \A n \in Int : Text(n) \in Lines /\ Text(n).kind = "text"
    /\ <<>> \in Seq(Lines) /\ \A kind : ~Has(<<>>, kind)
    /\ ~SpeakLast(<<>>)
  BY DEF LineKinds, Lines, Line, Text, NoText, Has, SpeakLast

LEMMA AppendFacts ==
    ASSUME NEW q \in Seq(Lines), NEW x \in Lines
    PROVE  /\ Append(q, x) \in Seq(Lines)
           /\ \A kind : Has(Append(q, x), kind) <=> Has(q, kind) \/ x.kind = kind
           /\ ~Has(q, "SPEAK") /\ x.kind = "SPEAK" => SpeakLast(Append(q, x))
<1>1. /\ Append(q, x) \in Seq(Lines) /\ Len(Append(q, x)) = Len(q) + 1 /\ Len(q) \in Nat
      /\ DOMAIN Append(q, x) = DOMAIN q \cup {Len(q) + 1} /\ Append(q, x) # <<>>
      /\ Append(q, x)[Len(q) + 1] = x
      /\ \A k \in DOMAIN q : Append(q, x)[k] = q[k] /\ k # Len(q) + 1
  OBVIOUS
<1> QED BY <1>1 DEF Has, SpeakLast

LEMMA ConcatFacts ==
    ASSUME NEW p \in Seq(Lines), NEW q \in Seq(Lines)
    PROVE  /\ p \o q \in Seq(Lines)
           /\ \A kind : Has(p \o q, kind) <=> Has(p, kind) \/ Has(q, kind)
           /\ ~Has(p, "SPEAK") /\ SpeakLast(q) => SpeakLast(p \o q)
<1>1. /\ p \o q \in Seq(Lines) /\ Len(p \o q) = Len(p) + Len(q)
      /\ Len(p) \in Nat /\ Len(q) \in Nat /\ DOMAIN (p \o q) = 1 .. Len(p) + Len(q)
      /\ DOMAIN p = 1 .. Len(p) /\ DOMAIN q = 1 .. Len(q)
      /\ \A k \in 1 .. Len(p) : (p \o q)[k] = p[k]
      /\ \A k \in 1 .. Len(q) : (p \o q)[Len(p) + k] = q[k]
  OBVIOUS
<1>2. \A k \in 1 .. Len(p) + Len(q) :
         \/ k \in 1 .. Len(p)
         \/ \E j \in 1 .. Len(q) : k = Len(p) + j
  <2> SUFFICES ASSUME NEW k \in 1 .. Len(p) + Len(q), k \notin 1 .. Len(p)
               PROVE  k - Len(p) \in 1 .. Len(q) /\ k = Len(p) + (k - Len(p))
    OBVIOUS
  <2> QED BY <1>1
<1>3. /\ \A k \in 1 .. Len(p) : k \in DOMAIN (p \o q)
      /\ \A k \in 1 .. Len(q) : Len(p) + k \in DOMAIN (p \o q)
  BY <1>1
<1>4. ASSUME NEW kind PROVE Has(p \o q, kind) <=> Has(p, kind) \/ Has(q, kind)
  <2>1. ASSUME NEW k \in DOMAIN (p \o q), (p \o q)[k].kind = kind
        PROVE  Has(p, kind) \/ Has(q, kind)
    <3>1. CASE k \in 1 .. Len(p)
      BY <1>1, <2>1, <3>1 DEF Has
    <3>2. ASSUME NEW j \in 1 .. Len(q), k = Len(p) + j PROVE Has(q, kind)
      BY <1>1, <2>1, <3>2 DEF Has
    <3> QED BY <1>1, <1>2, <3>1, <3>2
  <2>2. ASSUME NEW k \in DOMAIN p, p[k].kind = kind PROVE Has(p \o q, kind)
    BY <1>1, <1>3, <2>2 DEF Has
  <2>3. ASSUME NEW k \in DOMAIN q, q[k].kind = kind PROVE Has(p \o q, kind)
    <3>1. Len(p) + k \in DOMAIN (p \o q) /\ (p \o q)[Len(p) + k].kind = kind
      BY <1>1, <1>3, <2>3
    <3> QED BY <3>1 DEF Has
  <2> QED BY <2>1, <2>2, <2>3 DEF Has
<1>5. ASSUME ~Has(p, "SPEAK"), SpeakLast(q) PROVE SpeakLast(p \o q)
  <2>1. Len(q) > 0
    BY <1>1, <1>5 DEF SpeakLast
  <2>2. ASSUME NEW k \in 1 .. Len(p) + Len(q)
        PROVE  (p \o q)[k].kind = "SPEAK" <=> k = Len(p) + Len(q)
    <3>1. CASE k \in 1 .. Len(p)
      BY <1>1, <1>5, <2>1, <3>1 DEF Has
    <3>2. ASSUME NEW j \in 1 .. Len(q), k = Len(p) + j
          PROVE  (p \o q)[k].kind = "SPEAK" <=> k = Len(p) + Len(q)
      <4>1. (p \o q)[k] = q[j]
        BY <1>1, <3>2
      <4>2. q[j].kind = "SPEAK" <=> j = Len(q)
        <5>1. \A i \in DOMAIN q : (q[i].kind = "SPEAK") <=> (i = Len(q))
          BY <1>5 DEF SpeakLast
        <5>2. j \in DOMAIN q
          BY <1>1
        <5> QED BY <5>1, <5>2
      <4>3. k = Len(p) + Len(q) <=> j = Len(q)
        <5>1. Len(p) \in Int /\ Len(q) \in Int /\ j \in Int
          BY <1>1
        <5> QED BY <5>1, <3>2
      <4> QED BY <4>1, <4>2, <4>3
    <3> QED BY <1>2, <3>1, <3>2
  <2> QED BY <1>1, <2>1, <2>2 DEF SpeakLast
<1> QED BY <1>1, <1>4, <1>5

LEMMA TailFacts ==
    ASSUME NEW q \in Seq(Lines), q # <<>>
    PROVE  /\ Head(q) \in Lines /\ Tail(q) \in Seq(Lines)
           /\ \A kind : Has(q, kind) <=> Head(q).kind = kind \/ Has(Tail(q), kind)
           /\ SpeakLast(q) /\ Head(q).kind # "SPEAK" => SpeakLast(Tail(q))
           /\ SpeakLast(q) /\ Head(q).kind = "SPEAK" => Tail(q) = <<>> /\ \A k \in DOMAIN q : k = 1
<1>1. /\ Head(q) \in Lines /\ Tail(q) \in Seq(Lines) /\ Len(q) \in Nat \ {0}
      /\ Len(Tail(q)) = Len(q) - 1 /\ DOMAIN q = 1 .. Len(q) /\ DOMAIN Tail(q) = 1 .. Len(q) - 1
      /\ Head(q) = q[1] /\ \A k \in 1 .. Len(q) - 1 : Tail(q)[k] = q[k + 1]
  OBVIOUS
<1>2. ASSUME NEW kind PROVE Has(q, kind) <=> Head(q).kind = kind \/ Has(Tail(q), kind)
  <2>1. \A k \in 1 .. Len(q) : k = 1 \/ (k - 1 \in 1 .. Len(q) - 1 /\ Tail(q)[k - 1] = q[k])
    BY <1>1
  <2>2. \A k \in 1 .. Len(q) - 1 : k + 1 \in 1 .. Len(q) /\ 1 \in 1 .. Len(q)
    BY <1>1
  <2>3. 1 \in 1 .. Len(q)
    BY <1>1
  <2> QED BY <1>1, <2>1, <2>2, <2>3 DEF Has
<1>3. ASSUME SpeakLast(q), Head(q).kind # "SPEAK" PROVE SpeakLast(Tail(q))
  <2>0. 1 \in DOMAIN q /\ \A k \in DOMAIN q : q[k].kind = "SPEAK" <=> k = Len(q)
    BY <1>1, <1>3 DEF SpeakLast
  <2>1. Len(q) # 1
    BY <1>1, <1>3, <2>0
  <2>2. ASSUME NEW k \in 1 .. Len(q) - 1
        PROVE  Tail(q)[k].kind = "SPEAK" <=> k = Len(q) - 1
    <3>1. k + 1 \in DOMAIN q /\ Tail(q)[k] = q[k + 1]
      BY <1>1
    <3>2. q[k + 1].kind = "SPEAK" <=> k + 1 = Len(q)
      BY <2>0, <3>1
    <3>3. k \in Int /\ Len(q) \in Int
      BY <1>1
    <3>4. (k + 1 = Len(q)) <=> (k = Len(q) - 1)
      BY <3>3
    <3> QED BY <3>1, <3>2, <3>4
  <2>3. Len(Tail(q)) > 0
    BY <1>1, <2>1
  <2> QED BY <1>1, <2>2, <2>3 DEF SpeakLast
<1>4. ASSUME SpeakLast(q), Head(q).kind = "SPEAK"
      PROVE  Tail(q) = <<>> /\ \A k \in DOMAIN q : k = 1
  <2>1. 1 \in DOMAIN q /\ \A k \in DOMAIN q : (q[k].kind = "SPEAK") <=> (k = Len(q))
    BY <1>1, <1>4 DEF SpeakLast
  <2>2. Len(q) = 1
    BY <1>1, <1>4, <2>1
  <2> QED BY <1>1, <2>2
<1> QED BY <1>1, <1>2, <1>3, <1>4

-----------------------------------------------------------------------------
(* The invariant.                                                          *)

\* Where the module is with the message: reading it, asked whether it is stopped already,
\* about to announce it, or speaking it.
Reading   == pc \in {"text", "poll"}
Announced == pc \in {"skip", "begin"}
Speaking  == pc \in {"clause", "chunk", "pollChunk", "pause", "pauseChunk"}

SpeechdTypes ==
    /\ pipe \in Seq(Lines) /\ readBuf \in Seq(Lines)
    /\ closed \in BOOLEAN /\ eof \in BOOLEAN /\ stopFlag \in BOOLEAN
    /\ pc \in {"command", "quit"} \/ Reading \/ Announced \/ Speaking
    /\ server \in {"ready", "sent", "text"}
    /\ speaking \in Nat /\ speaks \in 0 .. MaxSpeaks
    /\ status \in [1 .. MaxSpeaks -> {"none", "received", "speaking", "begun"} \cup Events!Final]
    /\ requested \subseteq 1 .. MaxSpeaks
    /\ late \in Int

\* At most one SPEAK waits: the server sends no line behind it until the module takes it.
OneSpeak ==
    IF server = "sent"
    THEN /\ speaks = speaking + 1
         /\ \/ ~Has(readBuf, "SPEAK") /\ SpeakLast(pipe)
            \/ SpeakLast(readBuf) /\ pipe = <<>>
    ELSE speaks = speaking /\ ~Has(readBuf, "SPEAK") /\ ~Has(pipe, "SPEAK")

\* A text that was sent has its dot.
DotComes ==
    pc = "text" /\ server # "text" => Has(readBuf, "dot") \/ Has(pipe, "dot")

\* What was reported of the messages.
StatusByPc ==
    /\ \A m \in 1 .. MaxSpeaks : /\ m < speaking => status[m] \in Events!Final
                                 /\ m > speaking => status[m] = "none"
    /\ speaking > 0 =>
         /\ pc \in {"command", "quit"} => status[speaking] \in Events!Final
         /\ Reading => status[speaking] = "received"
         /\ Announced => status[speaking] = "speaking"
         /\ Speaking => status[speaking] = "begun"
    /\ Reading \/ Announced \/ Speaking => speaking > 0

\* A STOP that the module finds, or found, was sent for its message.
StopIsMeant ==
    /\ ~(pc \in {"command", "quit"}) /\ (Has(readBuf, "STOP") \/ Has(pipe, "STOP")) =>
          speaking \in requested
    /\ pc = "skip" => speaking \in requested \/ closed
    /\ pc \in {"poll", "begin", "chunk", "pollChunk"} => ~stopFlag
    /\ stopFlag /\ Speaking => speaking \in requested \/ closed

\* A STOP in mid-message is in the pipe until the module looks.
StopIsFound ==
    /\ -1 <= late /\ late <= 1
    /\ Announced => late = -1
    /\ Speaking /\ ~stopFlag =>
         /\ late = 0 => Has(pipe, "STOP")
         /\ late = 1 => pc = "pollChunk" /\ Has(pipe, "STOP")

SInv == SpeechdTypes /\ OneSpeak /\ DotComes /\ StatusByPc /\ StopIsMeant /\ StopIsFound

LEMMA InitSpeechd == Init => SInv
<1> SUFFICES ASSUME Init PROVE SInv
  OBVIOUS
<1>1. SpeechdTypes
  <2>1. pipe \in Seq(Lines) /\ readBuf \in Seq(Lines)
    BY LineFacts DEF Init
  <2>2. speaks \in 0 .. MaxSpeaks /\ speaking \in Nat /\ late \in Int
    BY SpeechdAssumption DEF Init
  <2>3. closed \in BOOLEAN /\ eof \in BOOLEAN /\ stopFlag \in BOOLEAN
    BY DEF Init
  <2>4. pc \in {"command", "quit"} /\ server \in {"ready", "sent", "text"} /\ requested \subseteq 1 .. MaxSpeaks
    BY DEF Init
  <2>5. status \in [1 .. MaxSpeaks -> {"none", "received", "speaking", "begun"} \cup Events!Final]
    BY DEF Init
  <2> QED BY <2>1, <2>2, <2>3, <2>4, <2>5 DEF SpeechdTypes
<1> USE LineFacts, SpeechdAssumption DEF Init, Reading, Announced, Speaking
<1>2. OneSpeak
  BY DEF OneSpeak
<1>3. DotComes /\ StopIsMeant
  BY DEF DotComes, StopIsMeant
<1>4. StatusByPc
  BY DEF StatusByPc
<1>5. StopIsFound
  BY DEF StopIsFound
<1> QED BY <1>1, <1>2, <1>3, <1>4, <1>5 DEF SInv

\* The lines the server sends.
LEMMA ServerSteps ==
    ASSUME SInv, Server
    PROVE  SInv'
<1> USE SpeechdAssumption DEF moduleVars
<1>0. /\ pipe \in Seq(Lines) /\ readBuf \in Seq(Lines) /\ speaking \in Nat
      /\ speaks \in 0 .. MaxSpeaks /\ requested \subseteq 1 .. MaxSpeaks
  BY DEF SInv, SpeechdTypes
<1>1. UNCHANGED <<readBuf, eof, pc, stopFlag, speaking, clauses, frames, status>>
  BY DEF Server, SendSpeak, SendText, SendStop, SendOther, SendQuit
<1>2. UNCHANGED <<Reading, Announced, Speaking>>
  BY <1>1 DEF Reading, Announced, Speaking
<1>3. StatusByPc'
  BY <1>1, <1>2 DEF SInv, StatusByPc
<1> USE DEF Reading, Announced, Speaking
<1>4. CASE SendSpeak
  <2>1. /\ pipe' = Append(pipe, Line("SPEAK")) /\ Line("SPEAK") \in Lines
        /\ Line("SPEAK").kind = "SPEAK"
    BY <1>4, LineFacts DEF SendSpeak, LineKinds
  <2>2. /\ pipe' \in Seq(Lines) /\ \A kind : Has(pipe', kind) <=> Has(pipe, kind) \/ kind = "SPEAK"
        /\ ~Has(pipe, "SPEAK") => SpeakLast(pipe')
    BY <1>0, <2>1, AppendFacts
  <2>3. /\ server = "ready" /\ server' = "sent" /\ speaks' = speaks + 1 /\ speaks < MaxSpeaks
        /\ UNCHANGED <<closed, requested, late>>
    BY <1>4 DEF SendSpeak
  <2>4. SpeechdTypes'
    BY <1>0, <1>1, <2>2, <2>3 DEF SInv, SpeechdTypes
  <2>5. OneSpeak'
    BY <1>0, <1>1, <2>2, <2>3 DEF SInv, OneSpeak
  <2>6. DotComes'
    BY <1>1, <2>2, <2>3 DEF SInv, DotComes
  <2>7. StopIsMeant'
    BY <1>1, <2>2, <2>3 DEF SInv, StopIsMeant
  <2>8. StopIsFound'
    BY <1>1, <2>2, <2>3 DEF SInv, StopIsFound
  <2> QED BY <1>3, <2>4, <2>5, <2>6, <2>7, <2>8 DEF SInv
<1>5. CASE SendText
  <2>1. /\ server = "text" /\ server' = "ready" /\ UNCHANGED <<speaks, closed, requested, late>>
    BY <1>5 DEF SendText
  <2>2. /\ pipe' \in Seq(Lines)
        /\ \A kind : Has(pipe', kind) <=> Has(pipe, kind) \/ kind = "dot"
                                          \/ (kind = "text" /\ Has(pipe', "text"))
    <3>1. Line("dot") \in Lines /\ Line("dot").kind = "dot"
      BY LineFacts DEF LineKinds
    <3>2. CASE pipe' = Append(pipe, Line("dot"))
      BY <1>0, <3>1, <3>2, AppendFacts
    <3>3. ASSUME NEW n \in 0 .. MaxClauses, pipe' = pipe \o <<Text(n), Line("dot")>>
          PROVE  /\ pipe' \in Seq(Lines)
                 /\ \A kind : Has(pipe', kind) <=> Has(pipe, kind) \/ kind \in {"text", "dot"}
      <4>1. Text(n) \in Lines /\ Text(n).kind = "text"
        BY LineFacts
      <4> DEFINE both == <<Text(n), Line("dot")>>
      <4>2. both \in Seq(Lines) /\ DOMAIN both = {1, 2} /\ both[1] = Text(n) /\ both[2] = Line("dot")
        BY <3>1, <4>1
      <4>3. \A kind : Has(both, kind) <=> kind \in {"text", "dot"}
        BY <3>1, <4>1, <4>2 DEF Has
      <4> HIDE DEF both
      <4> QED BY <1>0, <3>3, <4>2, <4>3, ConcatFacts DEF both
    <3> QED BY <1>5, <3>2, <3>3 DEF SendText
  <2>3. SpeechdTypes'
    BY <1>0, <1>1, <2>1, <2>2 DEF SInv, SpeechdTypes
  <2>4. OneSpeak'
    BY <1>0, <1>1, <2>1, <2>2 DEF SInv, OneSpeak
  <2>5. DotComes'
    BY <1>1, <2>1, <2>2 DEF SInv, DotComes
  <2>6. StopIsMeant'
    BY <1>1, <2>1, <2>2 DEF SInv, StopIsMeant
  <2>7. StopIsFound'
    BY <1>1, <2>1, <2>2 DEF SInv, StopIsFound
  <2> QED BY <1>3, <2>3, <2>4, <2>5, <2>6, <2>7 DEF SInv
<1>6. CASE SendStop
  <2>1. /\ server = "ready" /\ UNCHANGED <<server, speaks, closed>>
        /\ requested' = requested \cup ({speaks} \ {0})
        /\ late' = IF late = -1 /\ speaks > 0 /\ status[speaks] = "begun" THEN 0 ELSE late
    BY <1>6 DEF SendStop
  <2>2. /\ pipe' \in Seq(Lines)
        /\ \A kind : Has(pipe', kind) <=> Has(pipe, kind) \/ kind = "STOP"
    BY <1>0, <1>6, LineFacts, AppendFacts DEF SendStop, LineKinds
  <2>3. speaks = speaking
    BY <2>1 DEF SInv, OneSpeak
  <2>4. SpeechdTypes'
    BY <1>0, <1>1, <2>1, <2>2 DEF SInv, SpeechdTypes
  <2>5. OneSpeak'
    BY <1>0, <1>1, <2>1, <2>2 DEF SInv, OneSpeak
  <2>6. DotComes'
    BY <1>1, <2>1, <2>2 DEF SInv, DotComes
  <2>7. StopIsMeant'
    BY <1>0, <1>1, <2>1, <2>2, <2>3 DEF SInv, StopIsMeant, StatusByPc, SpeechdTypes
  <2>8. StopIsFound'
    <3>1. Announced => late' = late
      BY <2>1, <2>3 DEF SInv, StatusByPc
    <3> QED BY <1>1, <2>1, <2>2, <3>1 DEF SInv, StopIsFound
  <2> QED BY <1>3, <2>4, <2>5, <2>6, <2>7, <2>8 DEF SInv
<1>7. CASE SendOther \/ SendQuit
  <2>1. /\ UNCHANGED <<server, speaks, requested, late>> /\ closed' \in BOOLEAN
        /\ closed => closed'
    BY <1>7 DEF SendOther, SendQuit, SInv, SpeechdTypes
  <2>2. /\ pipe' \in Seq(Lines)
        /\ \A kind \in {"SPEAK", "STOP", "dot"} : Has(pipe', kind) <=> Has(pipe, kind)
        /\ server = "sent" => pipe' = pipe
    <3>1. ASSUME NEW kind \in {"PAUSE", "SET", "QUIT"}
          PROVE  Line(kind) \in Lines /\ Line(kind).kind = kind
      BY LineFacts DEF LineKinds
    <3>2. ASSUME NEW kind \in {"PAUSE", "SET", "QUIT"}, pipe' = Append(pipe, Line(kind))
          PROVE  /\ pipe' \in Seq(Lines)
                 /\ \A other \in {"SPEAK", "STOP", "dot"} : Has(pipe', other) <=> Has(pipe, other)
      BY <1>0, <3>1, <3>2, AppendFacts
    <3>3. \/ pipe' = pipe
          \/ server = "ready" /\ \E kind \in {"PAUSE", "SET", "QUIT"} : pipe' = Append(pipe, Line(kind))
      BY <1>7 DEF SendOther, SendQuit
    <3> QED BY <1>0, <3>2, <3>3
  <2>3. SpeechdTypes'
    BY <1>0, <1>1, <2>1, <2>2 DEF SInv, SpeechdTypes
  <2>4. OneSpeak'
    BY <1>0, <1>1, <2>1, <2>2 DEF SInv, OneSpeak
  <2>5. DotComes'
    BY <1>1, <2>1, <2>2 DEF SInv, DotComes
  <2>6. StopIsMeant'
    BY <1>1, <2>1, <2>2 DEF SInv, StopIsMeant
  <2>7. StopIsFound'
    BY <1>1, <2>1, <2>2 DEF SInv, StopIsFound
  <2> QED BY <1>3, <2>3, <2>4, <2>5, <2>6, <2>7 DEF SInv
<1> QED BY <1>4, <1>5, <1>6, <1>7 DEF Server

\* The module takes a line, or moves what the pipe has into its buffer.
LEMMA TakeSteps ==
    ASSUME SInv, NEW kinds, Take(kinds)
    PROVE  /\ readBuf # <<>> /\ Head(readBuf) \in Lines /\ Head(readBuf).kind \in kinds
           /\ readBuf' \in Seq(Lines) /\ pipe' = pipe
           /\ \A kind : Has(readBuf, kind) <=> Head(readBuf).kind = kind \/ Has(readBuf', kind)
           /\ Head(readBuf).kind # "SPEAK" => (SpeakLast(readBuf) => SpeakLast(readBuf'))
           /\ Head(readBuf).kind = "SPEAK" =>
                /\ server = "sent" /\ speaks = speaking + 1
                /\ readBuf' = <<>> /\ pipe = <<>> /\ ~Has(readBuf, "dot")
<1>1. /\ readBuf \in Seq(Lines) /\ readBuf # <<>> /\ Head(readBuf).kind \in kinds
      /\ readBuf' = Tail(readBuf) /\ pipe' = pipe
  BY DEF Take, SInv, SpeechdTypes
<1>2. /\ Head(readBuf) \in Lines /\ Tail(readBuf) \in Seq(Lines)
      /\ \A kind : Has(readBuf, kind) <=> Head(readBuf).kind = kind \/ Has(Tail(readBuf), kind)
      /\ SpeakLast(readBuf) /\ Head(readBuf).kind # "SPEAK" => SpeakLast(Tail(readBuf))
      /\ SpeakLast(readBuf) /\ Head(readBuf).kind = "SPEAK" => Tail(readBuf) = <<>>
  BY <1>1, TailFacts
<1>3. ASSUME Head(readBuf).kind = "SPEAK"
      PROVE  /\ server = "sent" /\ speaks = speaking + 1
             /\ Tail(readBuf) = <<>> /\ pipe = <<>> /\ ~Has(readBuf, "dot")
  <2>1. Has(readBuf, "SPEAK")
    BY <1>2, <1>3
  <2>2. server = "sent" /\ speaks = speaking + 1 /\ SpeakLast(readBuf) /\ pipe = <<>>
    BY <2>1 DEF SInv, OneSpeak
  <2> QED BY <1>2, <1>3, <2>2, LineFacts
<1> QED BY <1>1, <1>2, <1>3

LEMMA ReadSteps ==
    ASSUME SInv, pipe' = <<>>, readBuf' = readBuf \o pipe
    PROVE  /\ readBuf' \in Seq(Lines) /\ pipe' \in Seq(Lines)
           /\ \A kind : /\ Has(readBuf', kind) <=> Has(readBuf, kind) \/ Has(pipe, kind)
                        /\ ~Has(pipe', kind)
           /\ server = "sent" => SpeakLast(readBuf')
<1>1. readBuf \in Seq(Lines) /\ pipe \in Seq(Lines)
  BY DEF SInv, SpeechdTypes
<1>2. /\ readBuf' \in Seq(Lines)
      /\ \A kind : Has(readBuf', kind) <=> Has(readBuf, kind) \/ Has(pipe, kind)
      /\ ~Has(readBuf, "SPEAK") /\ SpeakLast(pipe) => SpeakLast(readBuf')
  BY <1>1, ConcatFacts
<1>3. ASSUME pipe = <<>> PROVE readBuf' = readBuf
  BY <1>1, <1>3
<1> QED BY <1>2, <1>3, LineFacts DEF SInv, OneSpeak

\* What a look at the pipe finds: a STOP, or that the server is gone.
LEMMA PollSteps ==
    ASSUME SInv, UNCHANGED <<server, speaks, speaking, closed, requested>>,
           \/ pipe = <<>> /\ ~closed /\ UNCHANGED <<pipe, readBuf, eof>>
           \/ pipe = <<>> /\ closed /\ eof' = TRUE /\ UNCHANGED <<pipe, readBuf>>
           \/ pipe # <<>> /\ readBuf' = readBuf \o pipe /\ pipe' = <<>> /\ UNCHANGED eof
    PROVE  /\ readBuf' \in Seq(Lines) /\ pipe' \in Seq(Lines) /\ eof' \in BOOLEAN
           /\ Has(readBuf', "STOP") \/ Has(pipe', "STOP") <=> Has(readBuf, "STOP") \/ Has(pipe, "STOP")
           /\ Has(readBuf', "dot") \/ Has(pipe', "dot") <=> Has(readBuf, "dot") \/ Has(pipe, "dot")
           /\ pipe' = <<>> /\ OneSpeak'
<1>1. readBuf \in Seq(Lines) /\ pipe \in Seq(Lines) /\ eof \in BOOLEAN
  BY DEF SInv, SpeechdTypes
<1>2. CASE UNCHANGED <<pipe, readBuf>> /\ pipe = <<>>
  BY <1>1, <1>2 DEF SInv, OneSpeak
<1>3. CASE readBuf' = readBuf \o pipe /\ pipe' = <<>> /\ UNCHANGED eof
  <2>1. /\ readBuf' \in Seq(Lines) /\ pipe' \in Seq(Lines)
        /\ \A kind : /\ Has(readBuf', kind) <=> Has(readBuf, kind) \/ Has(pipe, kind)
                     /\ ~Has(pipe', kind)
        /\ server = "sent" => SpeakLast(readBuf')
    BY <1>3, ReadSteps
  <2>2. OneSpeak'
    BY <1>3, <2>1 DEF SInv, OneSpeak
  <2> QED BY <1>1, <1>3, <2>1, <2>2
<1> QED BY <1>2, <1>3

\* Most of the module's steps leave the server and the lines alone.
SameLines == UNCHANGED <<pipe, readBuf, eof, speaking, server, speaks, closed, requested>>

LEMMA LinesFacts ==
    ASSUME SInv, SameLines
    PROVE  /\ readBuf' \in Seq(Lines) /\ pipe' \in Seq(Lines) /\ eof' \in BOOLEAN
           /\ closed' \in BOOLEAN /\ server' \in {"ready", "sent", "text"}
           /\ speaking' \in Nat /\ speaks' \in 0 .. MaxSpeaks /\ requested' \subseteq 1 .. MaxSpeaks
           /\ OneSpeak'
  BY DEF SameLines, SInv, SpeechdTypes, OneSpeak

\* The message that is spoken is one of those that were sent.
LEMMA SpeakingFacts ==
    ASSUME SInv
    PROVE  /\ speaking \in Nat /\ speaking <= MaxSpeaks
           /\ speaking > 0 => speaking \in 1 .. MaxSpeaks
  BY SpeechdAssumption DEF SInv, SpeechdTypes, OneSpeak

\* A report about it changes the status of no other.
LEMMA ReportFacts ==
    ASSUME SInv, speaking > 0,
           NEW event \in {"none", "received", "speaking", "begun"} \cup Events!Final, Now(event)
    PROVE  /\ status' \in [1 .. MaxSpeaks -> {"none", "received", "speaking", "begun"} \cup Events!Final]
           /\ status'[speaking] = event
           /\ \A m \in 1 .. MaxSpeaks : m # speaking => status'[m] = status[m]
  BY SpeakingFacts DEF SInv, SpeechdTypes, Now

LEMMA ReportKeepsOthers ==
    ASSUME SInv, speaking > 0, UNCHANGED speaking,
           NEW event \in {"none", "received", "speaking", "begun"} \cup Events!Final, Now(event)
    PROVE  \A m \in 1 .. MaxSpeaks : /\ m < speaking' => status'[m] \in Events!Final
                                     /\ m > speaking' => status'[m] = "none"
  BY SpeakingFacts, ReportFacts DEF SInv, StatusByPc

\* Reading, and the commands between messages.
LEMMA CommandSteps ==
    ASSUME SInv, ReadMore \/ CommandSpeak \/ CommandStop \/ CommandSet \/ CommandQuit
    PROVE  SInv'
<1> USE DEF Reading, Announced, Speaking
<1>1. CASE ReadMore
  <2>1. /\ pc \in {"command", "text"} /\ pipe' = <<>> /\ readBuf' = readBuf \o pipe /\ eof' \in BOOLEAN
        /\ UNCHANGED <<pc, stopFlag, speaking, status, requested, late, server, speaks, closed>>
    BY <1>1 DEF ReadMore, serverVars, SInv, SpeechdTypes
  <2>2. /\ readBuf' \in Seq(Lines) /\ pipe' \in Seq(Lines)
        /\ \A kind : /\ Has(readBuf', kind) <=> Has(readBuf, kind) \/ Has(pipe, kind)
                     /\ ~Has(pipe', kind)
        /\ server = "sent" => SpeakLast(readBuf')
    BY <2>1, ReadSteps
  <2>3. SpeechdTypes'
    BY <2>1, <2>2 DEF SInv, SpeechdTypes
  <2>4. OneSpeak'
    BY <2>1, <2>2 DEF SInv, OneSpeak
  <2>5. DotComes'
    BY <2>1, <2>2 DEF SInv, DotComes
  <2>6. StatusByPc'
    BY <2>1 DEF SInv, StatusByPc
  <2>7. StopIsMeant'
    BY <2>1, <2>2 DEF SInv, StopIsMeant
  <2>8. StopIsFound'
    BY <2>1 DEF SInv, StopIsFound
  <2> QED BY <2>3, <2>4, <2>5, <2>6, <2>7, <2>8 DEF SInv
<1>2. CASE CommandSpeak
  <2>1. /\ pc = "command" /\ Take({"SPEAK"}) /\ speaking' = speaking + 1 /\ server' = "text" /\ pc' = "text"
        /\ status' = [status EXCEPT ![speaking + 1] = "received"]
        /\ UNCHANGED <<stopFlag, late, eof, speaks, closed, requested>>
    BY <1>2 DEF CommandSpeak, Take
  <2>2. /\ server = "sent" /\ speaks = speaking + 1 /\ readBuf' = <<>> /\ pipe' = <<>>
    BY <2>1, TakeSteps
  <2>3. /\ readBuf' \in Seq(Lines) /\ pipe' \in Seq(Lines)
        /\ \A kind : ~Has(readBuf', kind) /\ ~Has(pipe', kind)
    BY <2>2, LineFacts
  <2>4. speaking \in Nat /\ speaking + 1 \in 1 .. MaxSpeaks
    BY <2>2, SpeechdAssumption DEF SInv, SpeechdTypes
  <2>5. /\ status' \in [1 .. MaxSpeaks -> {"none", "received", "speaking", "begun"} \cup Events!Final]
        /\ status'[speaking + 1] = "received"
        /\ \A m \in 1 .. MaxSpeaks : m # speaking + 1 => status'[m] = status[m]
    BY <2>1, <2>4 DEF SInv, SpeechdTypes
  <2>6. SpeechdTypes'
    BY <2>1, <2>3, <2>4, <2>5 DEF SInv, SpeechdTypes
  <2>7. OneSpeak'
    BY <2>1, <2>2, <2>3 DEF SInv, OneSpeak
  <2>8. DotComes'
    BY <2>1 DEF SInv, DotComes
  <2>9. StatusByPc'
    <3>1. ASSUME NEW m \in 1 .. MaxSpeaks
          PROVE  /\ m < speaking + 1 => status'[m] \in Events!Final
                 /\ m > speaking + 1 => status'[m] = "none"
      <4>1. m < speaking + 1 => m < speaking \/ (m = speaking /\ speaking > 0)
        BY <2>4
      <4>2. m > speaking + 1 => m > speaking
        BY <2>4
      <4> QED BY <2>1, <2>4, <2>5, <4>1, <4>2 DEF SInv, StatusByPc
    <3> QED BY <2>1, <2>4, <2>5, <3>1 DEF StatusByPc
  <2>10. StopIsMeant'
    BY <2>1, <2>3 DEF SInv, StopIsMeant
  <2>11. StopIsFound'
    BY <2>1 DEF SInv, StopIsFound
  <2> QED BY <2>6, <2>7, <2>8, <2>9, <2>10, <2>11 DEF SInv
<1>3. CASE CommandStop \/ CommandSet \/ CommandQuit
  <2>1. /\ pc = "command" /\ pc' \in {"command", "quit"} /\ stopFlag' \in BOOLEAN
        /\ UNCHANGED <<speaking, server, status, late, pipe, eof, speaks, closed, requested>>
    BY <1>3 DEF CommandStop, CommandSet, CommandQuit, Take, SInv, SpeechdTypes
  <2>2. Take({"STOP", "PAUSE"}) \/ Take({"SET"}) \/ Take({"QUIT"}) \/ readBuf' = readBuf
    BY <1>3 DEF CommandStop, CommandSet, CommandQuit
  <2>3. readBuf \in Seq(Lines)
    BY DEF SInv, SpeechdTypes
  <2>4. /\ readBuf' \in Seq(Lines)
        /\ ~Has(readBuf, "SPEAK") => ~Has(readBuf', "SPEAK")
        /\ SpeakLast(readBuf) => SpeakLast(readBuf')
    <3>1. CASE Take({"STOP", "PAUSE"})
      BY <3>1, TakeSteps
    <3>2. CASE Take({"SET"})
      BY <3>2, TakeSteps
    <3>3. CASE Take({"QUIT"})
      BY <3>3, TakeSteps
    <3> QED BY <2>2, <2>3, <3>1, <3>2, <3>3
  <2>5. SpeechdTypes'
    BY <2>1, <2>4 DEF SInv, SpeechdTypes
  <2>6. OneSpeak'
    BY <2>1, <2>4 DEF SInv, OneSpeak
  <2>7. DotComes' /\ StopIsMeant'
    BY <2>1 DEF DotComes, StopIsMeant
  <2>8. StatusByPc'
    BY <2>1 DEF SInv, StatusByPc
  <2>9. StopIsFound'
    BY <2>1 DEF SInv, StopIsFound
  <2> QED BY <2>5, <2>6, <2>7, <2>8, <2>9 DEF SInv
<1> QED BY <1>1, <1>2, <1>3

\* The text of a message, and the first look for a STOP.
LEMMA TextSteps ==
    ASSUME SInv, TextLine \/ TextEnd \/ PollFirst
    PROVE  SInv'
<1> USE DEF Reading, Announced, Speaking
<1>0. /\ speaking \in Nat /\ readBuf \in Seq(Lines) /\ speaking > 0
      /\ pc \in {"text", "poll"} /\ UNCHANGED <<speaking, server, speaks, closed, requested>>
  BY DEF TextLine, TextEnd, PollFirst, Take, serverVars, SInv, SpeechdTypes, StatusByPc
<1>1. CASE TextLine
  <2>1. /\ pc = "text" /\ Take({Head(readBuf).kind}) /\ Head(readBuf).kind # "dot"
        /\ UNCHANGED <<pc, stopFlag, status, late, eof>>
    BY <1>1 DEF TextLine, Take
  <2>2. /\ readBuf' \in Seq(Lines) /\ pipe' = pipe
        /\ \A kind : Has(readBuf, kind) <=> Head(readBuf).kind = kind \/ Has(readBuf', kind)
        /\ Head(readBuf).kind # "SPEAK" => (SpeakLast(readBuf) => SpeakLast(readBuf'))
        /\ Head(readBuf).kind = "SPEAK" =>
             /\ server = "sent" /\ pipe = <<>> /\ ~Has(readBuf, "dot")
    BY <2>1, TakeSteps
  <2>3. Head(readBuf).kind # "SPEAK"
    BY <2>1, <2>2, LineFacts DEF SInv, DotComes
  <2>4. SpeechdTypes'
    BY <1>0, <2>1, <2>2 DEF SInv, SpeechdTypes
  <2>5. OneSpeak'
    BY <1>0, <2>1, <2>2, <2>3 DEF SInv, OneSpeak
  <2>6. DotComes'
    BY <1>0, <2>1, <2>2 DEF SInv, DotComes
  <2>7. StatusByPc'
    BY <1>0, <2>1 DEF SInv, StatusByPc
  <2>8. StopIsMeant'
    BY <1>0, <2>1, <2>2 DEF SInv, StopIsMeant
  <2>9. StopIsFound'
    BY <1>0, <2>1 DEF SInv, StopIsFound
  <2> QED BY <2>4, <2>5, <2>6, <2>7, <2>8, <2>9 DEF SInv
<1>2. CASE TextEnd
  <2>1. /\ pc = "text" /\ UNCHANGED <<pipe, eof, late>>
        /\ \/ Now("rejected") /\ pc' = "command" /\ UNCHANGED stopFlag
           \/ pc' = "poll" /\ stopFlag' = FALSE /\ UNCHANGED status
        /\ Take({"dot"}) \/ readBuf' = readBuf
    BY <1>2 DEF TextEnd, Take
  <2>2. /\ readBuf' \in Seq(Lines)
        /\ Has(readBuf', "STOP") => Has(readBuf, "STOP")
        /\ ~Has(readBuf, "SPEAK") => ~Has(readBuf', "SPEAK")
        /\ SpeakLast(readBuf) => SpeakLast(readBuf')
    <3>1. CASE Take({"dot"})
      BY <3>1, TakeSteps
    <3> QED BY <1>0, <2>1, <3>1
  <2>3. Now("rejected") =>
          /\ status' \in [1 .. MaxSpeaks -> {"none", "received", "speaking", "begun"} \cup Events!Final]
          /\ status'[speaking] = "rejected"
          /\ \A m \in 1 .. MaxSpeaks : /\ m < speaking' => status'[m] \in Events!Final
                                       /\ m > speaking' => status'[m] = "none"
    BY <1>0, ReportFacts, ReportKeepsOthers DEF Events!Final
  <2>4. SpeechdTypes'
    BY <1>0, <2>1, <2>2, <2>3 DEF SInv, SpeechdTypes
  <2>5. OneSpeak'
    BY <1>0, <2>1, <2>2 DEF SInv, OneSpeak
  <2>6. DotComes'
    BY <2>1 DEF DotComes
  <2>7. StatusByPc'
    <3>1. CASE Now("rejected") /\ pc' = "command"
      BY <1>0, <2>3, <3>1 DEF StatusByPc, Events!Final
    <3>2. CASE pc' = "poll" /\ UNCHANGED status
      BY <1>0, <2>1, <3>2 DEF SInv, StatusByPc
    <3> QED BY <2>1, <3>1, <3>2
  <2>8. StopIsMeant'
    BY <1>0, <2>1, <2>2 DEF SInv, StopIsMeant
  <2>9. StopIsFound'
    BY <2>1 DEF SInv, StopIsFound
  <2> QED BY <2>4, <2>5, <2>6, <2>7, <2>8, <2>9 DEF SInv
<1>3. CASE PollFirst
  <2>1. /\ pc = "poll" /\ Now("speaking") /\ late' = -1 /\ UNCHANGED stopFlag /\ pc' \in {"skip", "begin"}
        /\ pc' = "skip" => Has(readBuf', "STOP") \/ closed
        /\ \/ pipe = <<>> /\ ~closed /\ UNCHANGED <<pipe, readBuf, eof>>
           \/ pipe = <<>> /\ closed /\ eof' = TRUE /\ UNCHANGED <<pipe, readBuf>>
           \/ pipe # <<>> /\ readBuf' = readBuf \o pipe /\ pipe' = <<>> /\ UNCHANGED eof
    BY <1>3 DEF PollFirst, Poll, StopBuffered, Has
  <2>2. /\ readBuf' \in Seq(Lines) /\ pipe' \in Seq(Lines) /\ eof' \in BOOLEAN
        /\ Has(readBuf', "STOP") \/ Has(pipe', "STOP") <=> Has(readBuf, "STOP") \/ Has(pipe, "STOP")
        /\ OneSpeak'
    BY <1>0, <2>1, PollSteps
  <2>3. /\ status' \in [1 .. MaxSpeaks -> {"none", "received", "speaking", "begun"} \cup Events!Final]
        /\ status'[speaking] = "speaking"
        /\ \A m \in 1 .. MaxSpeaks : /\ m < speaking' => status'[m] \in Events!Final
                                     /\ m > speaking' => status'[m] = "none"
    BY <1>0, <2>1, ReportFacts, ReportKeepsOthers
  <2>4. SpeechdTypes'
    BY <1>0, <2>1, <2>2, <2>3 DEF SInv, SpeechdTypes
  <2>5. DotComes'
    BY <2>1 DEF DotComes
  <2>6. StatusByPc'
    BY <1>0, <2>1, <2>3 DEF StatusByPc
  <2>7. StopIsMeant'
    BY <1>0, <2>1, <2>2 DEF SInv, StopIsMeant
  <2>8. StopIsFound'
    BY <2>1 DEF StopIsFound
  <2> QED BY <2>2, <2>4, <2>5, <2>6, <2>7, <2>8 DEF SInv
<1> QED BY <1>1, <1>2, <1>3

\* Speaking: what the steps between the announcement and the end of a message leave alone.
LEMMA SynthesisSteps ==
    ASSUME SInv, Skip \/ BeginMessage \/ Clause \/ Chunk \/ ChunksDone \/ Pause \/ PauseChunk \/ EndMessage
    PROVE  SInv'
<1> USE DEF Reading, Announced, Speaking, OthersInSynthesis, serverVars
<1>1. SameLines
  BY DEF Skip, BeginMessage, Clause, Chunk, ChunksDone, Pause, PauseChunk, EndMessage, SameLines
<1>2. /\ readBuf' \in Seq(Lines) /\ pipe' \in Seq(Lines) /\ eof' \in BOOLEAN
      /\ closed' \in BOOLEAN /\ server' \in {"ready", "sent", "text"}
      /\ speaking' \in Nat /\ speaks' \in 0 .. MaxSpeaks /\ requested' \subseteq 1 .. MaxSpeaks
      /\ OneSpeak'
  BY <1>1, LinesFacts
<1>3. pipe' = pipe /\ readBuf' = readBuf /\ UNCHANGED <<speaking, server, closed, requested, stopFlag>>
  BY <1>1 DEF SameLines, Skip, BeginMessage, Clause, Chunk, ChunksDone, Pause, PauseChunk, EndMessage
<1>4. stopFlag' \in BOOLEAN /\ late \in Int
  BY <1>3 DEF SInv, SpeechdTypes
<1>5. speaking > 0
  BY DEF SInv, StatusByPc, Skip, BeginMessage, Clause, Chunk, ChunksDone, Pause, PauseChunk, EndMessage
\* The steps that report.
<1>6. ASSUME NEW event \in {"begun", "stopped", "ended"}, Now(event), UNCHANGED late,
             \/ pc = "begin" /\ pc' = "clause" /\ event = "begun"
             \/ pc' = "command" /\ event # "begun"
      PROVE  SInv'
  <2>1. /\ status' \in [1 .. MaxSpeaks -> {"none", "received", "speaking", "begun"} \cup Events!Final]
        /\ status'[speaking] = event
        /\ \A m \in 1 .. MaxSpeaks : /\ m < speaking' => status'[m] \in Events!Final
                                     /\ m > speaking' => status'[m] = "none"
    BY <1>3, <1>5, <1>6, ReportFacts, ReportKeepsOthers DEF Events!Final
  <2>2. SpeechdTypes'
    BY <1>2, <1>4, <1>6, <2>1 DEF SpeechdTypes
  <2>3. DotComes'
    BY <1>6 DEF DotComes
  <2>4. StatusByPc'
    BY <1>3, <1>5, <1>6, <2>1 DEF StatusByPc, Events!Final
  <2>5. StopIsMeant'
    BY <1>3, <1>6 DEF SInv, StopIsMeant
  <2>6. StopIsFound'
    BY <1>3, <1>6 DEF SInv, StopIsFound
  <2> QED BY <1>2, <2>2, <2>3, <2>4, <2>5, <2>6 DEF SInv
\* Those that do not.
<1>7. ASSUME Speaking, pc' \in {"clause", "chunk", "pollChunk", "pause", "pauseChunk"}, UNCHANGED status,
             late' \in Int,
             StopIsFound',
             pc' \in {"chunk", "pollChunk"} => ~stopFlag
      PROVE  SInv'
  <2>1. SpeechdTypes'
    BY <1>2, <1>4, <1>7 DEF SInv, SpeechdTypes
  <2>2. DotComes'
    BY <1>7 DEF DotComes
  <2>3. StatusByPc'
    BY <1>3, <1>5, <1>7 DEF SInv, StatusByPc
  <2>4. StopIsMeant'
    BY <1>3, <1>7 DEF SInv, StopIsMeant
  <2> QED BY <1>2, <1>7, <2>1, <2>2, <2>3, <2>4 DEF SInv
<1>8. CASE Skip
  BY <1>6, <1>8 DEF Skip
<1>9. CASE BeginMessage
  BY <1>6, <1>9 DEF BeginMessage
<1>10. CASE EndMessage
  <2>1. UNCHANGED late /\ pc' = "command" /\ (Now("stopped") \/ Now("ended"))
    BY <1>10 DEF EndMessage
  <2> QED BY <1>6, <2>1
<1>11. CASE Clause
  <2>1. pc = "clause" /\ pc' \in {"clause", "chunk"} /\ ~stopFlag /\ UNCHANGED <<status, late>>
    BY <1>11 DEF Clause
  <2>2. StopIsFound'
    BY <1>3, <2>1 DEF SInv, StopIsFound
  <2> QED BY <1>4, <1>7, <2>1, <2>2
<1>12. CASE Chunk
  <2>1. /\ pc = "chunk" /\ pc' = "pollChunk" /\ UNCHANGED status
        /\ late' = IF late >= 0 THEN late + 1 ELSE late
    BY <1>12 DEF Chunk
  <2>2. ~stopFlag
    BY <2>1 DEF SInv, StopIsMeant
  <2>3. /\ late \in {-1, 0} /\ (late = 0 => Has(pipe, "STOP"))
    BY <1>4, <2>1, <2>2 DEF SInv, StopIsFound
  <2>4. late' \in Int /\ StopIsFound'
    BY <1>3, <1>4, <2>1, <2>2, <2>3 DEF StopIsFound
  <2> QED BY <1>7, <2>1, <2>2, <2>4
<1>13. CASE ChunksDone \/ Pause \/ PauseChunk
  <2>1. /\ pc \in {"chunk", "pause", "pauseChunk"} /\ pc' \in {"pause", "clause", "pauseChunk"}
        /\ UNCHANGED <<status, late>>
    BY <1>13 DEF ChunksDone, Pause, PauseChunk
  <2>2. StopIsFound'
    BY <1>3, <2>1 DEF SInv, StopIsFound
  <2> QED BY <1>4, <1>7, <2>1, <2>2
<1> QED BY <1>8, <1>9, <1>10, <1>11, <1>12, <1>13

\* The look at the pipe after a chunk.
LEMMA PollChunkSteps ==
    ASSUME SInv, PollChunk
    PROVE  SInv'
<1> USE DEF Reading, Announced, Speaking
<1>1. /\ pc = "pollChunk"
      /\ UNCHANGED <<speaking, server, speaks, closed, requested, status, late>>
      /\ \/ pc' = "pause" /\ stopFlag' = TRUE /\ (Has(readBuf', "STOP") \/ closed)
         \/ pc' = "chunk" /\ UNCHANGED stopFlag /\ (pipe = <<>> \/ ~Has(readBuf', "STOP"))
      /\ \/ pipe = <<>> /\ ~closed /\ UNCHANGED <<pipe, readBuf, eof>>
         \/ pipe = <<>> /\ closed /\ eof' = TRUE /\ UNCHANGED <<pipe, readBuf>>
         \/ pipe # <<>> /\ readBuf' = readBuf \o pipe /\ pipe' = <<>> /\ UNCHANGED eof
  BY DEF PollChunk, Poll, StopBuffered, Has, serverVars
<1>2. /\ readBuf' \in Seq(Lines) /\ pipe' \in Seq(Lines) /\ eof' \in BOOLEAN /\ pipe' = <<>>
      /\ Has(readBuf', "STOP") \/ Has(pipe', "STOP") <=> Has(readBuf, "STOP") \/ Has(pipe, "STOP")
      /\ OneSpeak'
  BY <1>1, PollSteps
<1>3. SpeechdTypes'
  BY <1>1, <1>2 DEF SInv, SpeechdTypes
<1>4. DotComes'
  BY <1>1 DEF DotComes
<1>5. StatusByPc'
  BY <1>1 DEF SInv, StatusByPc
<1>6. StopIsMeant'
  BY <1>1, <1>2 DEF SInv, StopIsMeant
<1>7. StopIsFound'
  <2>1. ASSUME pc' = "chunk" PROVE late = -1
    <3>1. ~stopFlag /\ ~Has(pipe', "STOP")
      BY <1>1, <1>2, LineFacts DEF SInv, StopIsMeant
    <3>2. ~Has(pipe, "STOP")
      BY <1>1, <1>2, <2>1, <3>1, LineFacts
    <3>3. late \in Int /\ -1 <= late /\ late <= 1 /\ late # 0 /\ late # 1
      BY <1>1, <3>1, <3>2 DEF SInv, StopIsFound, SpeechdTypes
    <3> QED BY <3>3
  <2> QED BY <1>1, <2>1 DEF SInv, StopIsFound
<1> QED BY <1>2, <1>3, <1>4, <1>5, <1>6, <1>7 DEF SInv

LEMMA SpeechdNext ==
    ASSUME SInv, [Next]_vars
    PROVE  SInv'
<1>1. CASE UNCHANGED vars
  BY <1>1 DEF vars, moduleVars, serverVars, SInv, SpeechdTypes, OneSpeak, DotComes, StatusByPc,
     StopIsMeant, StopIsFound, Reading, Announced, Speaking
<1>2. CASE Module
  BY <1>2, CommandSteps, TextSteps, SynthesisSteps, PollChunkSteps DEF Module
<1> QED BY <1>1, <1>2, ServerSteps DEF Next

LEMMA SpeechdInductive == Spec => []SInv
BY InitSpeechd, SpeechdNext, PTL DEF Spec

-----------------------------------------------------------------------------
(* The theorems.                                                           *)

\* A STOP sent in mid-message lets at most one more chunk of speech out: the module looks
\* at its pipe between chunks, and nothing it reads there is passed over.
THEOREM StopIsHeeded == Spec => []StopIsHeededBetweenChunks
<1>1. SInv => StopIsHeededBetweenChunks
  BY DEF SInv, StopIsFound, StopIsHeededBetweenChunks
<1> QED BY <1>1, SpeechdInductive, PTL

\* At most one SPEAK is on its way, and the lines sent behind it are held back: the text of
\* a message never swallows the next one, nor waits for a dot that the server does not send.
THEOREM OneMessageAtATime == Spec => [](OneSpeak /\ DotComes)
<1>1. SInv => OneSpeak /\ DotComes
  BY DEF SInv
<1> QED BY <1>1, SpeechdInductive, PTL

LEMMA EventsInitially == Init => Events!EventsInit
  BY DEF Init, Events!EventsInit

\* Every report of the module is one the server may get of that message at that time.
LEMMA EventSteps ==
    ASSUME SInv, [Next]_vars
    PROVE  [Events!EventsNext]_(Events!eventVars)
<1> USE DEF Events!eventVars
<1>0. speaking \in Nat /\ speaking <= MaxSpeaks /\ (speaking > 0 => speaking \in 1 .. MaxSpeaks)
  BY SpeakingFacts
<1>1. CASE UNCHANGED <<status, requested, closed>>
  BY <1>1
<1>2. CASE SendStop
  <2>1. /\ UNCHANGED <<status, closed>> /\ requested' = requested \cup ({speaks} \ {0})
    BY <1>2 DEF SendStop
  <2>2. speaks \in 0 .. MaxSpeaks
    BY DEF SInv, SpeechdTypes
  <2>3. CASE speaks = 0
    BY <2>1, <2>3
  <2>4. CASE speaks # 0
    <3>1. speaks \in 1 .. MaxSpeaks /\ requested' = requested \cup {speaks}
      BY <2>1, <2>2, <2>4, SpeechdAssumption
    <3>2. Events!Request
      BY <2>1, <3>1 DEF Events!Request
    <3> QED BY <3>2 DEF Events!EventsNext
  <2> QED BY <2>3, <2>4
<1>3. CASE SendQuit
  <2>1. Events!Request
    BY <1>3 DEF SendQuit, Events!Request
  <2> QED BY <2>1 DEF Events!EventsNext
<1>4. CASE CommandSpeak
  <2>1. /\ pc = "command" /\ Take({"SPEAK"}) /\ UNCHANGED <<requested, closed>>
        /\ status' = [status EXCEPT ![speaking + 1] = "received"]
    BY <1>4 DEF CommandSpeak, Take
  <2>2. speaks = speaking + 1
    BY <2>1, TakeSteps
  <2>3. speaking + 1 \in 1 .. MaxSpeaks
    BY <1>0, <2>2, SpeechdAssumption DEF SInv, SpeechdTypes
  <2>4. status[speaking + 1] = "none"
    BY <1>0, <2>3 DEF SInv, StatusByPc
  <2>5. \A k \in 1 .. (speaking + 1) - 1 : status[k] \in Events!Final
    <3>1. \A k \in 1 .. (speaking + 1) - 1 :
             k \in 1 .. MaxSpeaks /\ (k < speaking \/ (k = speaking /\ speaking > 0))
      BY <1>0, SpeechdAssumption
    <3> QED BY <2>1, <3>1 DEF SInv, StatusByPc
  <2>6. Events!Accept(speaking + 1)
    BY <2>1, <2>4, <2>5 DEF Events!Accept, Events!Report
  <2> QED BY <2>3, <2>6 DEF Events!EventsNext
\* The reports of the message that is handled.
<1>5. ASSUME NEW event, Now(event), UNCHANGED <<requested, closed>>, speaking > 0,
             \/ event = "rejected" /\ status[speaking] = "received"
             \/ event = "speaking" /\ status[speaking] = "received"
             \/ event = "begun" /\ status[speaking] = "speaking"
             \/ event = "ended" /\ status[speaking] = "begun"
             \/ /\ event = "stopped" /\ status[speaking] \in {"speaking", "begun"}
                /\ speaking \in requested \/ closed
      PROVE  Events!EventsNext
  <2>1. \/ Events!Reject(speaking) \/ Events!Announce(speaking) \/ Events!Begin(speaking)
        \/ Events!End(speaking) \/ Events!Stopped(speaking)
    BY <1>5 DEF Now, Events!Reject, Events!Announce, Events!Begin, Events!End, Events!Stopped, Events!Report
  <2> QED BY <1>0, <1>5, <2>1 DEF Events!EventsNext
<1> USE DEF Reading, Announced, Speaking
<1>6. pc \notin {"command", "quit"} => speaking > 0
  BY DEF SInv, SpeechdTypes, StatusByPc
<1>7. CASE TextEnd
  <2>1. pc = "text" /\ UNCHANGED <<requested, closed>> /\ (Now("rejected") \/ UNCHANGED status)
    BY <1>7 DEF TextEnd, Take
  <2>2. status[speaking] = "received"
    BY <1>6, <2>1 DEF SInv, StatusByPc
  <2> QED BY <1>1, <1>5, <1>6, <2>1, <2>2
<1>8. CASE PollFirst
  <2>1. pc = "poll" /\ UNCHANGED <<requested, closed>> /\ Now("speaking")
    BY <1>8 DEF PollFirst, serverVars
  <2>2. status[speaking] = "received"
    BY <1>6, <2>1 DEF SInv, StatusByPc
  <2> QED BY <1>5, <1>6, <2>1, <2>2
<1>9. CASE Skip
  <2>1. pc = "skip" /\ UNCHANGED <<requested, closed>> /\ Now("stopped")
    BY <1>9 DEF Skip, serverVars
  <2>2. status[speaking] = "speaking" /\ (speaking \in requested \/ closed)
    BY <1>6, <2>1 DEF SInv, StatusByPc, StopIsMeant
  <2> QED BY <1>5, <1>6, <2>1, <2>2
<1>10. CASE BeginMessage
  <2>1. pc = "begin" /\ UNCHANGED <<requested, closed>> /\ Now("begun")
    BY <1>10 DEF BeginMessage, OthersInSynthesis, serverVars
  <2>2. status[speaking] = "speaking"
    BY <1>6, <2>1 DEF SInv, StatusByPc
  <2> QED BY <1>5, <1>6, <2>1, <2>2
<1>11. CASE EndMessage
  <2>1. /\ pc = "clause" /\ UNCHANGED <<requested, closed>>
        /\ (stopFlag /\ Now("stopped")) \/ Now("ended")
    BY <1>11 DEF EndMessage, OthersInSynthesis, serverVars
  <2>2. status[speaking] = "begun" /\ (stopFlag => speaking \in requested \/ closed)
    BY <1>6, <2>1 DEF SInv, StatusByPc, StopIsMeant
  <2> QED BY <1>5, <1>6, <2>1, <2>2
\* The steps that report nothing.
<1>12. CASE SendSpeak \/ SendText \/ SendOther \/ UNCHANGED vars
  BY <1>1, <1>12 DEF SendSpeak, SendText, SendOther, vars, serverVars
<1>13. CASE ReadMore \/ CommandStop \/ CommandSet \/ CommandQuit \/ TextLine
  BY <1>1, <1>13 DEF ReadMore, CommandStop, CommandSet, CommandQuit, TextLine, Take, serverVars
<1>14. CASE Clause \/ Chunk \/ PollChunk \/ ChunksDone \/ Pause \/ PauseChunk
  BY <1>1, <1>14 DEF Clause, Chunk, PollChunk, ChunksDone, Pause, PauseChunk, OthersInSynthesis, serverVars
<1> QED BY <1>2, <1>3, <1>4, <1>7, <1>8, <1>9, <1>10, <1>11, <1>12, <1>13, <1>14
        DEF Next, Server, Module

\* The module implements SpeechdEvents: each SPEAK is accepted, announced and ended or stopped
\* in the order the server relies on, one at a time, and only a message that the server
\* stopped, or left, is reported stopped.
THEOREM ModuleImplementsEvents == Spec => ImplementsEvents
BY SpeechdInductive, EventsInitially, EventSteps, PTL DEF Spec, ImplementsEvents, Events!EventsSpec

===============================================================================
