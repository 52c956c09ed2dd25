----------------------------- MODULE OpenRouter ------------------------------
(***************************************************************************)
(* The completion streams of one worker process.  OpenRouterService asks   *)
(* the provider, retries once, and turns the body of the answer, which     *)
(* arrives in chunks cut anywhere, into tokens; AgentRunnerService         *)
(* consumes them against the clock of the step.  All streams share one     *)
(* instance of the service and with it the field _lastTokenCount.          *)
(*                                                                         *)
(* A body is a sequence of pieces, two for each line, the second with its  *)
(* newline.  Between its awaits a stream touches nothing that another one  *)
(* sees, but for that field, so all the lines of a chunk are one step.     *)
(***************************************************************************)
EXTENDS Integers, Sequences, SequencesExt

CONSTANTS
    Stream,      \* the streams, one for each step of a run
    Answers,     \* what the provider says: sequences of lines
    NoContent,   \* a line without choices[0].delta.content
    NoStream

\* Comments, blank lines, malformed JSON and errors sent inside the stream are
\* lines with no content, no usage and no [DONE].
IsLine(l) == DOMAIN l = {"content", "usage", "done"} /\ l.usage \in Nat /\ l.done \in BOOLEAN

ASSUME OpenRouterAssumption ==
    /\ NoStream \notin Stream
    /\ \A a \in Answers : a \in Seq(ToSet(a)) /\ \A l \in ToSet(a) : IsLine(l)

VARIABLES
    at,         \* progress of streamCompletion and its consumer
    attempt,    \* of fetchWithRetry
    body,       \* the pieces of the answer
    got,        \* how many of them were read
    buffer,     \* pieces of a line that is not complete
    output,     \* what was yielded
    tokenCount,
    lastTokenCount,
    step,       \* what became of the step
    stepTokens,
    setBy,      \* history: the stream that set lastTokenCount
    takenFrom   \* history: the same when the step read it

stream == <<attempt, body, got, buffer, output, tokenCount>>
shared == <<lastTokenCount, setBy>>
result == <<step, stepTokens, takenFrom>>
vars == <<at, stream, shared, result>>

Init ==
    /\ at = [s \in Stream |-> "idle"]
    /\ attempt = [s \in Stream |-> 1]
    /\ body = [s \in Stream |-> <<>>]
    /\ got = [s \in Stream |-> 0]
    /\ buffer = [s \in Stream |-> <<>>]
    /\ output = [s \in Stream |-> <<>>]
    /\ tokenCount = [s \in Stream |-> 0]
    /\ lastTokenCount = 0
    /\ step = [s \in Stream |-> "none"]
    /\ stepTokens = [s \in Stream |-> 0]
    /\ setBy = NoStream
    /\ takenFrom = [s \in Stream |-> NoStream]

Goto(s, label) == at' = [at EXCEPT ![s] = label]

-----------------------------------------------------------------------------
\* Lines and pieces.

\* The pieces of an answer; it may end before the last newline.
Pieces(lines, cut) ==
    [i \in 1 .. (2 * Len(lines) - IF cut THEN 1 ELSE 0) |->
        [line |-> lines[(i + 1) \div 2], last |-> i % 2 = 0]]

\* Piece i of a text brings a newline and completes a line.
EndsLine(text, i) == text[i].last /\ i > 1 /\ ~text[i - 1].last

\* The lines a text contains up to its last newline.  Half a line parses as none.
Lines(text) ==
    FlattenSeq([i \in DOMAIN text |->
        IF EndsLine(text, i) THEN <<text[i].line>> ELSE <<>>])

\* What follows the last newline.
Incomplete(text) ==
    IF text # <<>> /\ ~Last(text).last THEN <<Last(text)>> ELSE <<>>

\* The lines before the first [DONE].
BeforeDone(lines) ==
    LET i == SelectInSeq(lines, LAMBDA l : l.done)
    IN  IF i = 0 THEN lines ELSE SubSeq(lines, 1, i - 1)

Contents(lines) ==
    FlattenSeq([i \in DOMAIN lines |->
        IF lines[i].content # NoContent THEN <<lines[i].content>> ELSE <<>>])

\* The usage reported last, or what was known before.
Usage(lines, known) ==
    LET i == SelectLastInSeq(lines, LAMBDA l : l.usage > 0)
    IN  IF i = 0 THEN known ELSE lines[i].usage

-----------------------------------------------------------------------------
\* streamCompletion.

Start(s) ==
    /\ at[s] = "idle"
    /\ Goto(s, "fetching")
    /\ step' = [step EXCEPT ![s] = "running"]
    /\ UNCHANGED <<stream, shared, stepTokens, takenFrom>>

\* The promise of the stream is rejected; the race is lost unless it is over.
Throw(s) ==
    /\ Goto(s, "failed")
    /\ step' = [step EXCEPT ![s] = IF @ = "running" THEN "failed" ELSE @]
    /\ UNCHANGED <<stream, shared, stepTokens, takenFrom>>

\* 200: the body follows.
Accepted(s) ==
    /\ at[s] = "fetching"
    /\ \E lines \in Answers, cut \in BOOLEAN :
          /\ lines = <<>> => ~cut
          /\ body' = [body EXCEPT ![s] = Pieces(lines, cut)]
    /\ Goto(s, "reading")
    /\ UNCHANGED <<attempt, got, buffer, output, tokenCount, shared, result>>

\* 429 or 5xx: once more, after a delay, unless this was the second attempt.
Busy(s) ==
    /\ at[s] = "fetching"
    /\ IF attempt[s] <= 1
         THEN Goto(s, "delay") /\ UNCHANGED <<stream, shared, result>>
         ELSE Throw(s)

\* Mutation: the attempts are not counted.
MutRetry(s) ==
    /\ at[s] = "delay"
    /\ Goto(s, "fetching")
    /\ UNCHANGED <<stream, shared, result>>

Retry(s) ==
    /\ at[s] = "delay"
    /\ Goto(s, "fetching")
    /\ attempt' = [attempt EXCEPT ![s] = @ + 1]
    /\ UNCHANGED <<body, got, buffer, output, tokenCount, shared, result>>

\* Any other status, no body, a network error, or the abort after 120 s.
FetchFails(s) == at[s] = "fetching" /\ Throw(s)

\* Mutation: each chunk is split on its own.
MutReadChunk(s) ==
    /\ at[s] = "reading"
    /\ \E n \in 1 .. (Len(body[s]) - got[s]) :
          LET lines == Lines(SubSeq(body[s], got[s] + 1, got[s] + n))
              read == BeforeDone(lines)
          IN  /\ got' = [got EXCEPT ![s] = @ + n]
              /\ output' = [output EXCEPT ![s] = @ \o Contents(read)]
              /\ tokenCount' = [tokenCount EXCEPT ![s] = Usage(read, @)]
              /\ Goto(s, IF read = lines THEN "reading" ELSE "ended")
    /\ UNCHANGED <<attempt, body, buffer, shared, result>>

\* A chunk of any length; [DONE] returns at once and what follows it is dropped.
ReadChunk(s) ==
    /\ at[s] = "reading"
    /\ \E n \in 1 .. (Len(body[s]) - got[s]) :
          LET text == buffer[s] \o SubSeq(body[s], got[s] + 1, got[s] + n)
              lines == Lines(text)
              read == BeforeDone(lines)
          IN  /\ got' = [got EXCEPT ![s] = @ + n]
              /\ buffer' = [buffer EXCEPT ![s] = Incomplete(text)]
              /\ output' = [output EXCEPT ![s] = @ \o Contents(read)]
              /\ tokenCount' = [tokenCount EXCEPT ![s] = Usage(read, @)]
              /\ Goto(s, IF read = lines THEN "reading" ELSE "ended")
    /\ UNCHANGED <<attempt, body, shared, result>>

\* The connection breaks.
ReadFails(s) == at[s] = "reading" /\ Throw(s)

\* Mutation: a stream without usage leaves the count as it is.
MutAttach(s) ==
    lastTokenCount' = IF tokenCount[s] > 0 THEN tokenCount[s] ELSE lastTokenCount

Attach(s) == lastTokenCount' = tokenCount[s]

\* The body is at its end and no [DONE] was read.
EndOfBody(s) ==
    /\ at[s] = "reading" /\ got[s] = Len(body[s])
    /\ Attach(s)
    /\ setBy' = s
    /\ Goto(s, "ended")
    /\ UNCHANGED <<stream, result>>

-----------------------------------------------------------------------------
\* The step that consumes the stream.

\* A continuation of its own: another stream's end may come first.
TakeCount(s) ==
    /\ at[s] = "ended"
    /\ Goto(s, "finished")
    /\ stepTokens' = [stepTokens EXCEPT ![s] = lastTokenCount]
    /\ takenFrom' = [takenFrom EXCEPT ![s] = setBy]
    /\ step' = [step EXCEPT ![s] = IF @ = "running" THEN "completed" ELSE @]
    /\ UNCHANGED <<stream, shared>>

\* The step fails; nothing tells the stream, which goes on.
StepTimeout(s) ==
    /\ step[s] = "running"
    /\ step' = [step EXCEPT ![s] = "failed"]
    /\ UNCHANGED <<at, stream, shared, stepTokens, takenFrom>>

Next ==
    \E s \in Stream :
        \/ Start(s) \/ Accepted(s) \/ Busy(s) \/ Retry(s) \/ FetchFails(s)
        \/ ReadChunk(s) \/ ReadFails(s) \/ EndOfBody(s)
        \/ TakeCount(s) \/ StepTimeout(s)

\* Timers fire: the abort of the request, the delay, the limit of the step.
\* The provider owes nothing: a body may stop anywhere for ever.
Timers == \A s \in Stream :
    WF_vars(FetchFails(s)) /\ WF_vars(Retry(s)) /\ WF_vars(StepTimeout(s))

Spec == Init /\ [][Next]_vars /\ Timers

-----------------------------------------------------------------------------
\* Correctness.

\* What was read of an answer, taken as one text.
Received(s) == BeforeDone(Lines(SubSeq(body[s], 1, got[s])))

\* However the network cuts the body, the tokens yielded are those of the
\* complete lines received, each once and in order, up to the first [DONE].
ChunkingInvisible ==
    \A s \in Stream :
        /\ output[s] = Contents(Received(s))
        /\ tokenCount[s] = Usage(Received(s), 0)

\* The count of a completed step is the usage of the stream that last ended
\* without [DONE], and 0 if there was none: its own, unless it read [DONE] or
\* another stream ended before it came to read the field.
CountOfLastEnded ==
    \A s \in Stream : step[s] = "completed" =>
        stepTokens[s] = IF takenFrom[s] = NoStream THEN 0
                        ELSE Usage(Received(takenFrom[s]), 0)

\* Whatever the provider does and wherever it stops, every step settles, and
\* every stream stops asking, that of a step that was given up as well.
WaitsEnd ==
    \A s \in Stream :
        /\ step[s] = "running" ~> step[s] # "running"
        /\ at[s] \in {"fetching", "delay"} ~> at[s] \notin {"fetching", "delay"}

\* "getTokenCount: () => number" of the stream's result
\* (openrouter.service.ts:29): a completed step has the usage of its own stream.
OwnUsage ==
    \A s \in Stream : step[s] = "completed" => stepTokens[s] = Usage(Received(s), 0)
=============================================================================
