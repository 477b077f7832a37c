---------------------------- MODULE FrameParser ----------------------------
(***************************************************************************)
(* The WTP frame parser (wtp/frame_parser.cpp) on a byte stream that       *)
(* arrives in chunks.  The magic has two bytes here, a header the magic,   *)
(* the length and the checksum; Bytes is small, and contains bytes that    *)
(* are part of the magic and lengths that are not allowed.                 *)
(***************************************************************************)
EXTENDS Integers, Sequences, SequencesExt

CONSTANTS Bytes,        \* 0..n: 0 and 1 are the magic
          MaxPayload,   \* kMaximumPayloadBytes
          MaxDiscard,   \* kMaximumResyncDiscardBytes
          MaxInvalid,   \* kMaximumInvalidFrames
          MaxChunk,     \* bound on one feed()
          MaxStream     \* bound on the whole stream

VARIABLES p,            \* the parser, with the events it has emitted
          stream,       \* every byte fed to it
          cut           \* "no", or what closed it beside the bytes: refused memory, time, end

vars == <<p, stream, cut>>

Magic == <<0, 1>>

HeaderBytes == Len(Magic) + 2

Crc(s) == FoldSeq(LAMBDA x, sum : x + sum, 0, s) % (Len(Magic) + 2)

EncodeFrame(payload) == Magic \o <<Len(payload), Crc(payload)>> \o payload

-----------------------------------------------------------------------------

Fresh == [buf |-> <<>>, partial |-> FALSE, closed |-> FALSE, bad |-> 0, lost |-> 0, ev |-> <<>>]

Close(q) ==
    IF q.closed THEN q
    ELSE [q EXCEPT !.closed = TRUE, !.buf = <<>>, !.partial = FALSE, !.ev = Append(@, "closed")]

Dropped(q, n) == [q EXCEPT !.buf = SubSeq(@, n + 1, Len(@))]

Counted(q) == IF q.lost >= MaxDiscard THEN Close(q) ELSE q

\* discard_prefix(): what is thrown away to find the next frame is counted.
DiscardPrefix(q, n) ==
    IF n = 0 THEN q
    ELSE Counted([Dropped(q, n) EXCEPT
                     !.lost = IF @ + n > MaxDiscard THEN MaxDiscard ELSE @ + n])

InvalidFrame(q) ==
    IF q.bad + 1 >= MaxInvalid THEN Close([q EXCEPT !.bad = @ + 1, !.ev = Append(@, "invalid")])
    ELSE [q EXCEPT !.bad = @ + 1, !.ev = Append(@, "invalid")]

Waiting(q) == [q EXCEPT !.partial = q.buf # <<>>]

MagicsIn(b) == {i \in 1..(Len(b) - Len(Magic) + 1) : SubSeq(b, i, i + Len(Magic) - 1) = Magic}

FirstMagic(b) == CHOOSE i \in MagicsIn(b) : \A j \in MagicsIn(b) : i <= j

Delivered(q, size) ==
    [Dropped(q, size) EXCEPT !.ev = Append(@, SubSeq(q.buf, HeaderBytes + 1, size)),
                             !.bad = 0, !.lost = 0, !.partial = FALSE]

RECURSIVE Process(_)

BugTailless(q) == DiscardPrefix(q, Len(q.buf))

\* No magic: the end of the buffer may be the beginning of one.
Tailless(q) ==
    DiscardPrefix(q, Len(q.buf) - (IF Len(q.buf) < Len(Magic) THEN Len(q.buf) ELSE Len(Magic) - 1))

\* The buffer begins with the magic.
Frame(q) ==
    LET length == q.buf[Len(Magic) + 1]
        size   == HeaderBytes + length
    IN  IF Len(q.buf) < HeaderBytes THEN Waiting(q)
        ELSE IF length \notin 1..MaxPayload
        THEN Process(LET r == InvalidFrame(q) IN IF r.closed THEN r ELSE DiscardPrefix(r, 1))
        ELSE IF Len(q.buf) < size THEN Waiting(q)
        ELSE IF Crc(SubSeq(q.buf, HeaderBytes + 1, size)) # q.buf[HeaderBytes]
        THEN Process(LET r == InvalidFrame(q) IN IF r.closed THEN r ELSE Dropped(r, size))
        ELSE Process(Delivered(q, size))

Process(q) ==
    IF q.closed THEN q
    ELSE IF q.buf = <<>> THEN Waiting(q)
    ELSE IF MagicsIn(q.buf) = {} THEN Waiting(Tailless(q))
    ELSE LET r == DiscardPrefix(q, FirstMagic(q.buf) - 1) IN IF r.closed THEN r ELSE Frame(r)

FeedOf(q, bytes) == IF q.closed THEN q ELSE Process([q EXCEPT !.buf = @ \o bytes])

-----------------------------------------------------------------------------

Init == p = Fresh /\ stream = <<>> /\ cut = "no"

Feed ==
    \E bytes \in SeqOf(Bytes, MaxChunk) \ {<<>>} :
        /\ ~p.closed /\ Len(stream) + Len(bytes) <= MaxStream
        /\ p' = FeedOf(p, bytes) /\ stream' = stream \o bytes /\ UNCHANGED cut

\* The buffer cannot grow.
Refused == ~p.closed /\ p' = Close(p) /\ cut' = "refused" /\ UNCHANGED stream

CheckTimeout == p.partial /\ ~p.closed /\ p' = Close(p) /\ cut' = "time" /\ UNCHANGED stream

EndOfStream ==
    /\ p.buf # <<>> /\ p' = [p EXCEPT !.buf = <<>>, !.partial = FALSE, !.closed = TRUE]
    /\ cut' = "end" /\ UNCHANGED stream

Next == Feed \/ Refused \/ CheckTimeout \/ EndOfStream

Spec == Init /\ [][Next]_vars

-----------------------------------------------------------------------------

\* However the transport cuts the stream into chunks, the events are those of the
\* whole stream, and a frame that follows what is not a frame is received.
FramesFound ==
    /\ cut = "no" => p.ev = FeedOf(Fresh, stream).ev
    /\ ~p.closed /\ p.lost + Len(p.buf) < MaxDiscard /\ 0 \notin Range(p.buf) =>
          \A payload \in SeqOf(Bytes, MaxPayload) \ {<<>>} :
              FeedOf(p, EncodeFrame(payload)).ev = Append(p.ev, payload)

=============================================================================
