-------------------------- MODULE StreamAssembler --------------------------
(***************************************************************************)
(* StreamAssembler and the two ways it is used: it follows the bytes of an *)
(* upstream stream, cut into network chunks anywhere, and rebuilds the     *)
(* answer that is cached when the stream ends; and response_to_sse turns a *)
(* cached answer into a stream again.  A byte is a line break, with or     *)
(* without a carriage return, the "data:" that begins a data line, or the  *)
(* rest of a line; the text of a delta is a sequence of opaque pieces.     *)
(* Ids, times and usage are left out.                                      *)
(***************************************************************************)
EXTENDS Integers, SequencesExt

CONSTANTS
    Wire,           \* the streams an upstream may send: sequences of events
    Text,           \* pieces of text
    FinishReason,   \* values of finish_reason
    None

VARIABLES
    wire,       \* the stream the upstream sends
    crlf,       \* whether it ends its lines with a carriage return and a line feed
    received,   \* bytes of it that have been pushed
    assembler,  \* the StreamAssembler: its buffer, and what it has parsed
    status,     \* how the stream stands
    answer      \* the response that is cached, if any

vars == <<wire, crlf, received, assembler, status, answer>>

Choice == [content: Seq(Text), finish: FinishReason \cup {None}]
Byte == [kind: {"break", "crlf", "data", "colon", "other", "done", "garbage", "misfit", "json"},
         choices: Seq(Choice)]

Plain(kind) == [kind |-> kind, choices |-> <<>>]
Json(choices) == [kind |-> "json", choices |-> choices]

\* What follows "data:" on a data line, or a comment; only a chunk has choices.  A
\* misfit is JSON but no chunk: not an object, or one whose choices or delta is null.
Line == {line \in [kind: {"other", "done", "garbage", "misfit", "json"}, choices: Seq(Choice)] :
            line.kind # "json" => line.choices = <<>>}
Event == Seq(Line) \ {<<>>}

\* A line is its start, its rest and its end.
LineBytes(line) ==
    <<Plain(IF line.kind = "other" THEN "colon" ELSE "data"), line, Plain("break")>>

EventBytes(event) ==
    FlattenSeq([k \in DOMAIN event |-> LineBytes(event[k])]) \o <<Plain("break")>>

Bytes(events) == FlattenSeq([k \in DOMAIN events |-> EventBytes(events[k])])

ASSUME WireAssumption ==
    /\ "stop" \in FinishReason /\ None \notin FinishReason
    /\ \A events \in Wire : events \in Seq(Event)
-----------------------------------------------------------------------------
\* raised: an exception has left push.
Parsed == [content: Seq(Text), finish: FinishReason \cup {None},
           completed: BOOLEAN, raised: BOOLEAN]
Assembler == [buffer: Seq(Byte), parsed: Parsed]

Nothing == [content |-> <<>>, finish |-> None, completed |-> FALSE, raised |-> FALSE]
Fresh == [buffer |-> <<>>, parsed |-> Nothing]

\* A merge that keeps the last delta only.
MergeLast(parsed, choice) ==
    [parsed EXCEPT !.content = IF choice.content = <<>> THEN @ ELSE choice.content,
                   !.finish = IF choice.finish = None THEN @ ELSE choice.finish]

\* One choice of _merge: whatever its index, its text is appended.
Merge(parsed, choice) ==
    [parsed EXCEPT !.content = @ \o choice.content,
                   !.finish = IF choice.finish = None THEN @ ELSE choice.finish]

\* One data line: [DONE], a chunk, what is no JSON and is skipped, or JSON that
\* _merge cannot read.
Take(parsed, payload) ==
    IF payload.kind = "done" THEN [parsed EXCEPT !.completed = TRUE]
    ELSE IF payload.kind = "misfit" THEN [parsed EXCEPT !.raised = TRUE]
    ELSE FoldLeft(Merge, parsed, payload.choices)

\* What follows a "data:" is taken, other lines are not.
ConsumeEvent(parsed, event) ==
    FoldLeftDomain(LAMBDA p, k : IF k > 1 /\ event[k - 1].kind = "data"
                                 THEN Take(p, event[k]) ELSE p,
                   parsed, event)

\* Where the buffer has two line breaks in a row.
Gaps(buffer) ==
    {k \in 1..(Len(buffer) - 1) : buffer[k].kind = "break" /\ buffer[k + 1].kind = "break"}

\* The first event of the buffer is consumed, the rest stays.
ConsumeFirst(a) ==
    LET gap == Min(Gaps(a.buffer))
    IN  [buffer |-> SubSeq(a.buffer, gap + 2, Len(a.buffer)),
         parsed |-> ConsumeEvent(a.parsed, SubSeq(a.buffer, 1, gap - 1))]

\* One turn of the loop, if there is one.
Turn(a, byte) == IF Gaps(a.buffer) = {} THEN a ELSE ConsumeFirst(a)

\* while b"\n\n" in self._buffer: as a turn removes bytes, there are no more
\* turns than bytes.
Drained(a) == FoldLeft(Turn, a, a.buffer)

\* A push that consumes one event at most.
PushOnce(a, chunk) ==
    LET filled == [a EXCEPT !.buffer = @ \o chunk]
    IN  IF Gaps(filled.buffer) = {} THEN filled ELSE ConsumeFirst(filled)

\* A push that parses each chunk by itself.
PushUnbuffered(a, chunk) == [Drained([a EXCEPT !.buffer = chunk]) EXCEPT !.buffer = <<>>]

Push(a, chunk) == Drained([a EXCEPT !.buffer = @ \o chunk])

BuildResponse(parsed) ==
    [content |-> parsed.content,
     finish |-> IF parsed.finish = None THEN "stop" ELSE parsed.finish]

\* A rendering that ends every stream with "stop".
ResponseToSseStopped(response) ==
    <<<<Json(<<[content |-> <<>>, finish |-> None]>>)>>,
      <<Json(<<[content |-> response.content, finish |-> None]>>)>>,
      <<Json(<<[content |-> <<>>, finish |-> "stop"]>>)>>,
      <<Plain("done")>>>>

\* The role chunk, the content chunk, the final chunk and [DONE].
ResponseToSse(response) ==
    <<<<Json(<<[content |-> <<>>, finish |-> None]>>)>>,
      <<Json(<<[content |-> response.content, finish |-> None]>>)>>,
      <<Json(<<[content |-> <<>>, finish |-> response.finish]>>)>>,
      <<Plain("done")>>>>
-----------------------------------------------------------------------------
\* The stream as it is sent: two line ends are two line feeds in a row, unless
\* there are carriage returns between them.
Sent ==
    LET bytes == Bytes(wire)
    IN  [k \in DOMAIN bytes |->
            IF crlf /\ bytes[k].kind = "break" THEN Plain("crlf") ELSE bytes[k]]

Init ==
    /\ wire \in Wire /\ crlf \in BOOLEAN
    /\ received = 0
    /\ assembler = Fresh
    /\ status = "open"
    /\ answer = None

Pushed(n) == Push(assembler, SubSeq(Sent, received + 1, received + n))

\* The next n bytes arrive as one chunk.
Receive(n) ==
    /\ status = "open" /\ received + n <= Len(Sent)
    /\ ~Pushed(n).parsed.raised
    /\ assembler' = Pushed(n)
    /\ received' = received + n
    /\ UNCHANGED <<wire, crlf, status, answer>>

\* They have a line that push cannot read: the exception ends the body, and the
\* assembler with it.
Misread(n) ==
    /\ status = "open" /\ received + n <= Len(Sent)
    /\ Pushed(n).parsed.raised
    /\ status' = "failed"
    /\ UNCHANGED <<wire, crlf, received, assembler, answer>>

\* The upstream closes the stream, at its end or earlier; the answer is built
\* if [DONE] has been seen.
Close ==
    /\ status = "open"
    /\ status' = "closed"
    /\ answer' = IF assembler.parsed.completed THEN BuildResponse(assembler.parsed) ELSE None
    /\ UNCHANGED <<wire, crlf, received, assembler>>

\* The upstream's stream raises, or at its end build_response does, which cannot
\* read a usage or a text of another type: nothing is cached.
Break ==
    /\ status = "open"
    /\ status' = "failed"
    /\ UNCHANGED <<wire, crlf, received, assembler, answer>>

Next ==
    \/ \E n \in 1..Len(Sent) : Receive(n) \/ Misread(n)
    \/ Close
    \/ Break

Spec == Init /\ [][Next]_vars
-----------------------------------------------------------------------------
\* The buffer never holds a whole event when push has returned.
TypeOK ==
    /\ wire \in Wire /\ crlf \in BOOLEAN /\ received \in 0..Len(Sent)
    /\ assembler \in Assembler /\ Gaps(assembler.buffer) = {}
    /\ status \in {"open", "closed", "failed"}
    /\ answer = None \/ answer \in [content: Seq(Text), finish: FinishReason]

\* Events of the stream that have been received to their last byte; what ends an
\* event is two line feeds in a row, so with carriage returns none ever ends.
WholeEvents ==
    {k \in 0..Len(wire) : Len(Bytes(SubSeq(wire, 1, k))) <= received /\ (crlf => k = 0)}

\* What the lines of an event say, in their order.
TakeLine(parsed, line) == IF line.kind = "other" THEN parsed ELSE Take(parsed, line)
TakeEvent(parsed, event) == FoldLeft(TakeLine, parsed, event)

\* Wherever the network cuts the stream, what has been parsed is what the
\* events that have arrived whole say, in their order.
BoundariesIrrelevant ==
    assembler.parsed = FoldLeft(TakeEvent, Nothing, SubSeq(wire, 1, Max(WholeEvents)))

\* The texts of all deltas of the stream.
LineText(line) == FlattenSeq([k \in DOMAIN line.choices |-> line.choices[k].content])
EventText(event) == FlattenSeq([k \in DOMAIN event |-> LineText(event[k])])
AllText == FlattenSeq([k \in DOMAIN wire |-> EventText(wire[k])])

DoneIsLast ==
    \A k \in DOMAIN wire : (\E j \in DOMAIN wire[k] : wire[k][j].kind = "done") => k = Len(wire)

HasMisfit == \E k \in DOMAIN wire : \E j \in DOMAIN wire[k] : wire[k][j].kind = "misfit"

\* Of an upstream that sends [DONE] last, the answer that is cached has the
\* text of every delta: closing early caches nothing, no delta is lost in the
\* buffer, and a stream with a chunk that cannot be read is not cached in part.
CachedIsWhole ==
    answer # None /\ DoneIsLast => answer.content = AllText /\ ~HasMisfit

\* A streamed hit sends what a streamed miss has cached: assembling the
\* rendered answer gives the answer again, complete.
HitReplaysAnswer ==
    answer # None =>
        LET replay == Push(Fresh, Bytes(ResponseToSse(answer))).parsed
        IN  replay.completed /\ BuildResponse(replay) = answer
=============================================================================
