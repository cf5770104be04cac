---------------------------- MODULE SpeechdModule ----------------------------
(***************************************************************************)
(* The Speech Dispatcher output module (src/src/platforms/speechd/         *)
(* sd_tgsb.cpp): one thread that reads commands from a pipe, renders a     *)
(* SPEAK clause by clause, and looks at the pipe between chunks for a STOP.*)
(*                                                                         *)
(* A line is its kind; the text of a message is its number of clauses; the *)
(* player holds one entry per chunk it still has to render.  SET and the   *)
(* other settings blocks change how speech sounds, nothing modelled here,  *)
(* and are one line.  CANCEL is STOP, CHAR and KEY are SPEAK.              *)
(***************************************************************************)
EXTENDS Integers, Sequences

CONSTANTS
    MaxSpeaks,    \* bound on the messages
    MaxStops,     \* bound on STOP
    MaxOthers,    \* bound on PAUSE and SET
    MaxClauses,   \* clauses of a message
    MaxChunks     \* chunks of a clause

ASSUME SpeechdAssumption ==
    {MaxSpeaks, MaxStops, MaxOthers, MaxClauses, MaxChunks} \subseteq Nat

VARIABLES
    pipe, closed,    \* stdin: lines sent and not read; the server closed it
    readBuf, eof,    \* g_readBuf, g_eof
    pc, stopFlag,
    speaking,        \* the number of the message being handled
    clauses,         \* its clauses not yet rendered, NoText before its first line
    frames,          \* the player: the messages its pending chunks belong to
    server,          \* "ready", "sent" (awaits 202) or "text" (got it)
    speaks, stops, others  \* how many of each were sent

\* History: what was reported of each message, the messages a STOP was sent
\* for, and the chunks of speech sent since one was sent in mid-message, or -1.
VARIABLES status, requested, late

moduleVars == <<readBuf, eof, pc, stopFlag, speaking, clauses, frames>>
serverVars == <<server, speaks, stops, others, closed>>
vars == <<pipe, moduleVars, serverVars, status, requested, late>>

NoText == -1
Line(kind) == [kind |-> kind, clauses |-> NoText]
Text(n) == [kind |-> "text", clauses |-> n]

Init ==
    /\ pipe = <<>> /\ closed = FALSE /\ readBuf = <<>> /\ eof = FALSE
    /\ pc = "command" /\ stopFlag = FALSE /\ speaking = 0 /\ clauses = NoText
    /\ frames = <<>>
    /\ server = "ready" /\ speaks = 0 /\ stops = 0 /\ others = 0
    /\ status = [m \in 1 .. MaxSpeaks |-> "none"]
    /\ requested = {} /\ late = -1

Now(event) == status' = [status EXCEPT ![speaking] = event]

-----------------------------------------------------------------------------
(* The server.  It sends the text of a message once the module has said    *)
(* 202, and a STOP, a setting or the next message at any other time.       *)

SendSpeak ==
    /\ server = "ready" /\ ~closed /\ speaks < MaxSpeaks
    /\ pipe' = Append(pipe, Line("SPEAK"))
    /\ server' = "sent" /\ speaks' = speaks + 1
    /\ UNCHANGED <<moduleVars, stops, others, closed, status, requested, late>>

\* The text and its final dot; an empty message is the dot alone.
SendText ==
    /\ server = "text" /\ ~closed
    /\ \E n \in 0 .. MaxClauses : pipe' \in {pipe \o <<Text(n), Line("dot")>>,
                                             Append(pipe, Line("dot"))}
    /\ server' = "ready"
    /\ UNCHANGED <<moduleVars, speaks, stops, others, closed, status, requested, late>>

SendStop ==
    /\ server = "ready" /\ ~closed /\ stops < MaxStops
    /\ pipe' = Append(pipe, Line("STOP"))
    /\ stops' = stops + 1
    /\ requested' = requested \cup ({speaks} \ {0})
    /\ late' = IF late = -1 /\ speaks > 0 /\ status[speaks] = "begun" THEN 0 ELSE late
    /\ UNCHANGED <<moduleVars, server, speaks, others, closed, status>>

SendOther ==
    /\ server = "ready" /\ ~closed /\ others < MaxOthers
    /\ \E kind \in {"PAUSE", "SET"} : pipe' = Append(pipe, Line(kind))
    /\ others' = others + 1
    /\ UNCHANGED <<moduleVars, server, speaks, stops, closed, status, requested, late>>

\* QUIT, or the end of the server.
SendQuit ==
    /\ ~closed
    /\ pipe' \in {pipe, IF server = "ready" THEN Append(pipe, Line("QUIT")) ELSE pipe}
    /\ closed' = TRUE
    /\ UNCHANGED <<moduleVars, server, speaks, stops, others, status, requested, late>>

Server == SendSpeak \/ SendText \/ SendStop \/ SendOther \/ SendQuit

-----------------------------------------------------------------------------
(* Reading.                                                                *)

\* Slip: the end of the input is not noticed.
ReadMoreForever ==
    /\ pc \in {"command", "text"} /\ readBuf = <<>> /\ ~eof
    /\ pipe # <<>> \/ closed
    /\ readBuf' = pipe /\ pipe' = <<>>
    /\ UNCHANGED <<eof, pc, stopFlag, speaking, clauses, frames, serverVars, status, requested, late>>

\* sd_readline blocks until the buffer has a line; a read takes all there is.
ReadMore ==
    /\ pc \in {"command", "text"} /\ readBuf = <<>> /\ ~eof
    /\ pipe # <<>> \/ closed
    /\ readBuf' = pipe /\ pipe' = <<>>
    /\ eof' = (pipe = <<>>)
    /\ UNCHANGED <<pc, stopFlag, speaking, clauses, frames, serverVars, status, requested, late>>

StopBuffered == \E k \in DOMAIN readBuf : readBuf[k].kind = "STOP"

\* sd_poll_stop: nothing to read is "no", whatever the buffer holds already.
Poll(found, notFound) ==
    \/ pipe = <<>> /\ ~closed /\ notFound /\ UNCHANGED <<pipe, readBuf, eof>>
    \/ pipe = <<>> /\ closed /\ eof' = TRUE /\ found /\ UNCHANGED <<pipe, readBuf>>
    \/ /\ pipe # <<>>
       /\ readBuf' = readBuf \o pipe /\ pipe' = <<>>
       /\ IF StopBuffered' THEN found ELSE notFound
       /\ UNCHANGED eof

-----------------------------------------------------------------------------
(* The command loop.                                                       *)

Take(kinds) ==
    /\ readBuf # <<>> /\ Head(readBuf).kind \in kinds
    /\ readBuf' = Tail(readBuf)
    /\ UNCHANGED <<pipe, eof, stops, others, speaks, closed, requested>>

CommandSpeak ==
    /\ pc = "command" /\ Take({"SPEAK"})
    /\ speaking' = speaking + 1
    /\ status' = [status EXCEPT ![speaking + 1] = "received"]
    /\ server' = "text"
    /\ clauses' = NoText
    /\ pc' = "text"
    /\ UNCHANGED <<stopFlag, frames, late>>

CommandStop ==
    /\ pc = "command" /\ Take({"STOP", "PAUSE"})
    /\ stopFlag' = TRUE
    /\ frames' = <<>>
    /\ UNCHANGED <<pc, speaking, clauses, server, status, late>>

CommandSet ==
    /\ pc = "command" /\ Take({"SET"})
    /\ UNCHANGED <<pc, stopFlag, speaking, clauses, frames, server, status, late>>

CommandQuit ==
    /\ pc = "command"
    /\ Take({"QUIT"}) \/ (readBuf = <<>> /\ eof /\ UNCHANGED <<pipe, readBuf, eof, stops, others,
                                                             speaks, closed, requested>>)
    /\ pc' = "quit"
    /\ UNCHANGED <<stopFlag, speaking, clauses, frames, server, status, late>>

\* sd_read_text: whatever comes before the dot is text.
TextLine ==
    /\ pc = "text" /\ readBuf # <<>> /\ Head(readBuf).kind # "dot"
    /\ Take({Head(readBuf).kind})
    /\ clauses' = Head(readBuf).clauses
    /\ UNCHANGED <<pc, stopFlag, speaking, frames, server, status, late>>

\* Slip: the stop flag of the message before is kept.
TextEndKeepsFlag ==
    /\ pc = "text"
    /\ Take({"dot"})
    /\ IF clauses = NoText
       THEN Now("rejected") /\ pc' = "command" /\ UNCHANGED frames
       ELSE pc' = "poll" /\ frames' = <<>> /\ UNCHANGED status
    /\ UNCHANGED <<stopFlag, speaking, clauses, server, late>>

TextEnd ==
    /\ pc = "text"
    /\ Take({"dot"}) \/ (readBuf = <<>> /\ eof /\ UNCHANGED <<pipe, readBuf, eof, stops, others,
                                                            speaks, closed, requested>>)
    /\ IF clauses = NoText
       THEN Now("rejected") /\ pc' = "command" /\ UNCHANGED <<stopFlag, frames>>
       ELSE pc' = "poll" /\ stopFlag' = FALSE /\ frames' = <<>> /\ UNCHANGED status
    /\ UNCHANGED <<speaking, clauses, server, late>>

\* Is this message stopped already?
PollFirst ==
    /\ pc = "poll"
    /\ Poll(pc' = "skip", pc' = "begin")
    /\ Now("speaking")
    /\ late' = -1
    /\ UNCHANGED <<stopFlag, speaking, clauses, frames, serverVars, requested>>

Skip ==
    /\ pc = "skip"
    /\ Now("stopped")
    /\ pc' = "command"
    /\ UNCHANGED <<pipe, readBuf, eof, stopFlag, speaking, clauses, frames, serverVars,
                   requested, late>>

-----------------------------------------------------------------------------
(* synthesize.                                                             *)

OthersInSynthesis == <<pipe, readBuf, eof, speaking, serverVars, requested>>

BeginMessage ==
    /\ pc = "begin"
    /\ Now("begun")
    /\ pc' = "clause"
    /\ UNCHANGED <<stopFlag, clauses, frames, late, OthersInSynthesis>>

\* The next clause is phonemized and its frames are queued, unless it has none.
Clause ==
    /\ pc = "clause" /\ clauses > 0 /\ ~stopFlag
    /\ clauses' = clauses - 1
    /\ \/ pc' = "clause" /\ UNCHANGED frames
       \/ \E n \in 0 .. MaxChunks :
            frames' = frames \o [k \in 1 .. n |-> speaking] /\ pc' = "chunk"
    /\ UNCHANGED <<stopFlag, status, late, OthersInSynthesis>>

\* Slip: chunk after chunk without a look at the pipe.
ChunkWithoutPoll ==
    /\ pc = "chunk" /\ frames # <<>>
    /\ frames' = Tail(frames)
    /\ late' = IF late >= 0 THEN late + 1 ELSE late
    /\ UNCHANGED <<pc, stopFlag, clauses, status, OthersInSynthesis>>

\* A chunk of speech goes out; the pipe is looked at after it.
Chunk ==
    /\ pc = "chunk" /\ frames # <<>>
    /\ frames' = Tail(frames)
    /\ late' = IF late >= 0 THEN late + 1 ELSE late
    /\ pc' = "pollChunk"
    /\ UNCHANGED <<stopFlag, clauses, status, OthersInSynthesis>>

PollChunk ==
    /\ pc = "pollChunk"
    /\ Poll(pc' = "pause" /\ stopFlag' = TRUE, pc' = "chunk" /\ UNCHANGED stopFlag)
    /\ UNCHANGED <<speaking, clauses, frames, serverVars, status, requested, late>>

ChunksDone ==
    /\ pc = "chunk" /\ frames = <<>>
    /\ pc' = "pause"
    /\ UNCHANGED <<stopFlag, clauses, frames, status, late, OthersInSynthesis>>

\* The pause after a clause, if any, is queued even after a stop.
Pause ==
    /\ pc = "pause"
    /\ frames' \in {frames, Append(frames, speaking)}
    /\ pc' = IF frames' = frames THEN "clause" ELSE "pauseChunk"
    /\ UNCHANGED <<stopFlag, clauses, status, late, OthersInSynthesis>>

\* It is rendered without looking at the pipe.
PauseChunk ==
    /\ pc = "pauseChunk"
    /\ IF stopFlag \/ frames = <<>>
       THEN pc' = "clause" /\ UNCHANGED frames
       ELSE frames' = Tail(frames) /\ UNCHANGED pc
    /\ UNCHANGED <<stopFlag, clauses, status, late, OthersInSynthesis>>

EndMessage ==
    /\ pc = "clause" /\ (clauses = 0 \/ stopFlag)
    /\ Now(IF stopFlag THEN "stopped" ELSE "ended")
    /\ frames' = IF stopFlag THEN <<>> ELSE frames
    /\ pc' = "command"
    /\ UNCHANGED <<stopFlag, clauses, late, OthersInSynthesis>>

Module == ReadMore \/ CommandSpeak \/ CommandStop \/ CommandSet \/ CommandQuit \/ TextLine
          \/ TextEnd \/ PollFirst \/ Skip \/ BeginMessage \/ Clause \/ Chunk \/ PollChunk
          \/ ChunksDone \/ Pause \/ PauseChunk \/ EndMessage

Next == Server \/ Module

Spec == Init /\ [][Next]_vars

\* The module is scheduled; the server sends the text it was asked for or dies.
FairSpec == Spec /\ WF_vars(Module) /\ WF_vars(SendText)
-----------------------------------------------------------------------------
\* The module's replies follow the order the server relies on, whatever commands
\* cross them, and a message is reported stopped only if the server stopped that
\* message: a STOP for an earlier one, left in the buffer, does not cut it.
Events == INSTANCE SpeechdEvents WITH Messages <- MaxSpeaks, gone <- closed
ImplementsEvents == Events!EventsSpec

\* A message accepted with 202 is rejected, ended or stopped in the end.
EveryMessageIsAnswered ==
    \A m \in 1 .. MaxSpeaks : status[m] = "received" ~> status[m] \in Events!Final

\* A STOP sent after BEGIN is heeded after one more chunk of speech at most
\* (sd_tgsb.cpp 534, "Poll stdin for STOP/CANCEL between chunks"); a pause that has
\* begun is still rendered to its end.
StopIsHeededBetweenChunks == late <= 1
=============================================================================
