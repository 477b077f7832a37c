------------------------------ MODULE Endpoint ------------------------------
(***************************************************************************)
(* One WTP connection (wtp/endpoint.cpp): the bounded queue of replies and *)
(* events, the request that is retained while memory is short, the session *)
(* and the closing of the connection.  The job service is what its status  *)
(* shows of JobService; frames arrive as FrameParser delivers them.        *)
(***************************************************************************)
EXTENDS Integers, Sequences, SequencesExt, FiniteSets

CONSTANTS Sessions,     \* session ids of HELLO requests
          QueueCap,     \* frames in output_ (8)
          QueueBytes,   \* bytes in output_ (131072), a large reply is 2
          Wait,         \* the 5 s of a stalled output, a retained input and a partial frame
          LastEvent,    \* the largest event id
          BadFrames,    \* invalid frames in a row that close the parser (3)
          MaxRequests,  \* bound on the requests
          MaxRestarts,  \* bound on the restarts of the service
          MaxTime       \* bound on the clock

VARIABLES e,            \* the endpoint
          s,            \* service_.status()
          clk,          \* the clock, in the unit of Wait
          got,          \* frames the peer has received on this connection
          asked,        \* requests handed to the service on this connection
          sent          \* requests sent by the peer, ever

vars == <<e, s, clk, got, asked, sent>>

None == -1

NoInput == [op |-> "none", session |-> "none", id |-> None, at |-> None]

World == [e |-> e, s |-> s, asked |-> asked]

Became(ws) == \E w \in ws : e' = w.e /\ s' = w.s /\ asked' = w.asked

-----------------------------------------------------------------------------
(* The job service (JobService), as the endpoint sees it: a job is claimed  *)
(* for and loaded in one request, and a poll may end it in any way.         *)

NoJob == -1

Nothing == [job |-> NoJob, state |-> "none"]

Status(boot) == [boot |-> boot, state |-> "empty", job |-> NoJob, owner |-> FALSE, recs |-> <<>>]

\* A record of the end of the current job; failed keeps it current, and the
\* owner leaves with it if its lease is over.
Ended(t, state, owner) ==
    [t EXCEPT !.state = IF state = "aborted" THEN "empty" ELSE state,
              !.job = IF state = "aborted" THEN NoJob ELSE @, !.owner = owner,
              !.recs = <<[job |-> t.job, state |-> state]>> \o @]

Polled(t) ==
    {t} \cup CASE t.state = "armed"  -> {Ended(t, x, owner) : x \in {"complete", "missed", "failed"},
                                                              owner \in {FALSE, t.owner}}
               [] t.state = "loaded" -> {Ended(t, "aborted", FALSE)}
               [] OTHER -> {[t EXCEPT !.owner = FALSE]}

\* service_.handle(): the status it leaves and whether it succeeds.
Handled(t, req) ==
    CASE req.op = "HELLO" -> [ok |-> TRUE, s |-> t]
      [] req.op = "LOAD" /\ t.state \in {"empty", "complete", "missed"} ->
             [ok |-> TRUE, s |-> [t EXCEPT !.state = "loaded", !.job = req.id, !.owner = TRUE]]
      [] req.op = "ARM" /\ t.state = "loaded" -> [ok |-> TRUE, s |-> [t EXCEPT !.state = "armed"]]
      [] req.op = "RELEASE" /\ t.owner /\ t.state \notin {"armed", "failed"} ->
             [ok |-> TRUE, s |-> [t EXCEPT !.state = "empty", !.job = NoJob, !.owner = FALSE]]
      [] OTHER -> [ok |-> FALSE, s |-> t]

-----------------------------------------------------------------------------

Closed(x) ==
    [x EXCEPT !.open = FALSE, !.closing = FALSE, !.session = "none", !.out = <<>>, !.half = FALSE,
              !.pend = NoInput, !.digest = FALSE, !.partial = None, !.bad = 0]

CloseAfterOutput(x) ==
    [x EXCEPT !.pend = NoInput, !.digest = FALSE, !.partial = None, !.closing = TRUE,
              !.open = @ /\ x.out # <<>>]

Size(f) == IF f.what = "LOAD" THEN 2 ELSE 1

Queued(x) == FoldSeq(LAMBDA f, sum : Size(f) + sum, 0, x.out)

BugEnqueue(x, f, advisory, room) ==
    IF Len(x.out) >= room \/ Queued(x) + Size(f) > QueueBytes THEN x
    ELSE [x EXCEPT !.out = Append(@, f), !.tx = IF x.out = <<>> THEN clk ELSE @]

\* enqueue(): the queue or the memory (room) is full, an event is dropped, a reply ends it all.
Enqueue(x, f, advisory, room) ==
    IF Len(x.out) >= room \/ Queued(x) + Size(f) > QueueBytes
    THEN IF advisory THEN x ELSE Closed(x)
    ELSE [x EXCEPT !.out = Append(@, f), !.tx = IF x.out = <<>> THEN clk ELSE @]

BugEvent(x, what, about, room) ==
    IF x.session = "none" \/ ~x.open \/ x.closing THEN x
    ELSE IF x.eid = LastEvent THEN Closed(x)
    ELSE LET y == Enqueue(x, [what |-> what, id |-> x.eid, reply |-> FALSE, about |-> about], TRUE, room)
         IN  IF Len(y.out) > Len(x.out) THEN [y EXCEPT !.eid = @ + 1] ELSE y

\* event(): every event takes an id, sent or not.
Event(x, what, about, room) ==
    IF x.session = "none" \/ ~x.open \/ x.closing THEN x
    ELSE IF x.eid = LastEvent THEN Closed(x)
    ELSE Enqueue([x EXCEPT !.eid = @ + 1], [what |-> what, id |-> x.eid, reply |-> FALSE, about |-> about], TRUE, room)

Recorded(x, r, room) ==
    LET y == Event(x, "JOB_STATE", r, room)
    IN  CASE r.state = "missed" -> Event(y, "MISSED_START", r, room)
          [] r.state = "failed" -> Event(y, "DEVICE_FAULT", r, room)
          [] OTHER -> y

\* The records the last status did not have, oldest first.
News(x, t, room) ==
    FoldRight(LAMBDA r, y : IF r \in Range(x.obs.recs) THEN y ELSE Recorded(y, r, room), t.recs, x)

Current(x, t, room) ==
    IF \/ t.state = x.obs.state /\ t.job = x.obs.job
       \/ t.recs # <<>> /\ t.job # NoJob /\ t.recs[1].job = t.job /\ t.recs[1].state = t.state
    THEN x
    ELSE Event(x, "JOB_STATE", [job |-> t.job, state |-> t.state], room)

Ownerless(x, t, released, room) ==
    IF x.obs.owner /\ ~t.owner
    THEN Event(x, "OWNER_RELEASED",
               [job |-> x.obs.job,
                state |-> IF released THEN "released"
                          ELSE IF x.obs.state = "armed" THEN "terminal" ELSE "lease_expired"], room)
    ELSE x

Observe(x, t, released, room) ==
    IF t.boot # x.obs.boot THEN [Closed(x) EXCEPT !.eid = 0, !.obs = t]
    ELSE LET y == Ownerless([Current([News(x, t, room) EXCEPT !.obs = x.obs], t, room)
                                EXCEPT !.obs = x.obs], t, released, room)
         IN  [y EXCEPT !.obs = t]

-----------------------------------------------------------------------------
(* payload()                                                               *)

Retained(w, req, digest) == [w EXCEPT !.e.pend = req, !.e.digest = digest, !.e.since = clk]

Reply(req, ok) == [what |-> IF ok THEN req.op ELSE "ERROR", id |-> req.id, reply |-> TRUE,
                   about |-> Nothing]

\* The reply goes out before the events of what it did.
Replied(w, req, ok, replaced, room) ==
    LET x == Enqueue(w.e, Reply(req, ok), FALSE, room)
        y == Observe(x, w.s, ok /\ req.op = "RELEASE", room)
    IN  [w EXCEPT !.e = IF replaced THEN CloseAfterOutput(y) ELSE y]

Dispatched(w, req, room) ==
    IF w.e.session # "none" /\ w.e.session # req.session
    THEN {Replied([w EXCEPT !.e = Event(@, "SESSION_REPLACED", Nothing, room)],
                  req, FALSE, TRUE, room)}
    ELSE IF w.e.session = "none" /\ req.op # "HELLO" THEN {Replied(w, req, FALSE, FALSE, room)}
    ELSE LET h == Handled(w.s, req)
         IN  {Replied([w EXCEPT !.s = t, !.asked = Append(@, [id |-> req.id, at |-> req.at, on |-> clk]),
                                !.e.session = IF req.op = "HELLO" THEN req.session ELSE @,
                                !.e.known = IF req.op = "HELLO" THEN Range(w.e.obs.recs) ELSE @],
                      req, h.ok, FALSE, room) : t \in Polled(h.s)}

\* A LOAD needs the large workspace, everything else the small one.
Fits(req, memory) == memory = "large" \/ (memory = "small" /\ req.op # "LOAD")

\* memory is what there is at first, after what compaction of the input leaves.
Payload(w, req, digest, memory, after, room) ==
    IF memory = "none" THEN {Retained(w, req, digest)}
    ELSE IF req.op = "BAD" THEN {[w EXCEPT !.e = CloseAfterOutput(@)]}
    ELSE IF Fits(req, memory) THEN Dispatched(w, req, room)
    ELSE IF ~digest /\ Fits(req, after) THEN Dispatched(w, req, room)
    ELSE {Retained(w, req, TRUE)}

-----------------------------------------------------------------------------

Init ==
    /\ s = Status(0) /\ clk = 0 /\ got = <<>> /\ asked = <<>> /\ sent = 0
    /\ e = [open |-> FALSE, closing |-> FALSE, session |-> "none", out |-> <<>>, half |-> FALSE,
            tx |-> 0, eid |-> 0, obs |-> s, pend |-> NoInput, digest |-> FALSE, since |-> 0,
            partial |-> None, bad |-> 0, known |-> {}, base |-> 0]

\* What there is at first and after the input is compacted.
Memory == {<<"none", "none">>, <<"small", "none">>, <<"small", "large">>, <<"large", "large">>}

CanReceive == e.open /\ ~e.closing /\ e.out = <<>> /\ e.pend = NoInput

Connect ==
    /\ ~e.open /\ sent < MaxRequests
    /\ e' = [Closed(e) EXCEPT !.open = TRUE, !.obs = s, !.eid = IF s.boot # e.obs.boot THEN 0 ELSE @,
                              !.base = IF s.boot # e.obs.boot THEN 0 ELSE e.eid]
    /\ got' = <<>> /\ asked' = <<>> /\ UNCHANGED <<s, clk, sent>>

Disconnect == e.open /\ e' = Closed(e) /\ UNCHANGED <<s, clk, got, asked, sent>>

\* receive(): the last byte of a frame.
ReceivePayload ==
    /\ CanReceive /\ sent < MaxRequests /\ sent' = sent + 1
    /\ \E op \in {"HELLO", "LOAD", "ARM", "RELEASE", "BAD"}, i \in Sessions,
          memory \in Memory, room \in {0, QueueCap} :
           Became(Payload([World EXCEPT !.e.partial = None, !.e.bad = 0],
                          [op |-> op, session |-> i, id |-> sent, at |-> clk],
                          FALSE, memory[1], memory[2], room))
    /\ UNCHANGED <<clk, got>>

ReceivePartial ==
    /\ CanReceive /\ e.partial = None /\ e' = [e EXCEPT !.partial = clk]
    /\ UNCHANGED <<s, clk, got, asked, sent>>

\* A frame with a bad header or checksum; the last one in a row closes the parser.
ReceiveInvalid ==
    /\ CanReceive /\ e.bad < BadFrames
    /\ e' = LET x == Event([e EXCEPT !.bad = @ + 1], "INVALID_FRAME", Nothing, QueueCap)
            IN  IF x.open /\ x.bad = BadFrames THEN CloseAfterOutput(x) ELSE x
    /\ UNCHANGED <<s, clk, got, asked, sent>>

BugPollInput(w, memory, after, room) ==
    IF w.e.pend = NoInput THEN {w}
    ELSE IF clk - w.e.since >= Wait THEN {[w EXCEPT !.e = CloseAfterOutput(@)]}
    ELSE IF w.e.out # <<>> THEN {w}
    ELSE Payload([w EXCEPT !.e.pend = NoInput, !.e.digest = FALSE], w.e.pend, w.e.digest,
                 memory, after, room)

\* The retained request: too old, or tried again without a new deadline.
PollInput(w, memory, after, room) ==
    IF w.e.pend = NoInput THEN {w}
    ELSE IF clk - w.e.since >= Wait THEN {[w EXCEPT !.e = CloseAfterOutput(@)]}
    ELSE IF w.e.out # <<>> THEN {w}
    ELSE {[v EXCEPT !.e.since = IF v.e.pend = NoInput THEN @ ELSE w.e.since] :
             v \in Payload([w EXCEPT !.e.pend = NoInput, !.e.digest = FALSE], w.e.pend, w.e.digest,
                           memory, after, room)}

PollTimeout(w) ==
    IF w.e.open /\ ~w.e.closing /\ w.e.partial # None /\ clk - w.e.partial >= Wait
    THEN [w EXCEPT !.e = CloseAfterOutput(@)] ELSE w

PollOf(w, memory, after, room) ==
    IF ~w.e.open THEN {w}
    ELSE IF w.e.out # <<>> /\ clk - w.e.tx >= Wait THEN {[w EXCEPT !.e = Closed(@)]}
    ELSE {PollTimeout(v) : v \in PollInput(w, memory, after, room)}

Poll ==
    /\ \E t \in Polled(s), memory \in (IF e.pend = NoInput THEN {<<"none", "none">>} ELSE Memory),
          room \in {0, QueueCap} :
           Became(PollOf([World EXCEPT !.s = t, !.e = Observe(@, t, FALSE, room)],
                         memory[1], memory[2], room))
    /\ UNCHANGED <<clk, got, sent>>

\* consume_output(): the transport takes a part of the frame, or the rest of it.
ConsumePart ==
    /\ e.out # <<>> /\ ~e.half /\ e' = [e EXCEPT !.half = TRUE, !.tx = clk]
    /\ UNCHANGED <<s, clk, got, asked, sent>>

ConsumeRest ==
    /\ e.out # <<>> /\ e.half /\ got' = Append(got, Head(e.out))
    /\ e' = [e EXCEPT !.half = FALSE, !.tx = clk, !.out = Tail(@),
                      !.open = @ /\ ~(e.closing /\ Len(e.out) = 1)]
    /\ UNCHANGED <<s, clk, asked, sent>>

\* The service starts again with a new boot id.
ServiceRestarts ==
    s.boot < MaxRestarts /\ s' = Status(s.boot + 1) /\ UNCHANGED <<e, clk, got, asked, sent>>

Tick ==
    /\ clk < MaxTime /\ e.open /\ (e.out # <<>> \/ e.pend # NoInput \/ e.partial # None)
    /\ clk' = clk + 1 /\ UNCHANGED <<e, s, got, asked, sent>>

Next == \/ Connect \/ Disconnect \/ ReceivePayload \/ ReceivePartial \/ ReceiveInvalid \/ Poll
        \/ ConsumePart \/ ConsumeRest \/ ServiceRestarts \/ Tick

Spec == Init /\ [][Next]_vars

-----------------------------------------------------------------------------

\* What the peer has of this connection, received or queued.
Wire == got \o e.out

IdsOf(w) == [i \in DOMAIN w |-> w[i].id]

Replies == IdsOf(SelectSeq(Wire, LAMBDA f : f.reply))

Events == {f \in Range(Wire) : ~f.reply}

\* Every request the service has acted on is answered once and in order, or the
\* connection is closed: no client waits for a reply that was dropped.
Answered ==
    /\ \A i, j \in DOMAIN Replies : i < j => Replies[i] < Replies[j]
    /\ e.open => {a.id : a \in Range(asked)} \subseteq Range(Replies)

\* A client that sees no gap in the event ids of its session has been told of the
\* end of every job it was connected for.
LossVisible ==
    e.open /\ e.session # "none" /\ ~e.closing /\ e.base..(e.eid - 1) \subseteq {f.id : f \in Events} =>
        \A r \in Range(e.obs.recs) \ e.known : \E f \in Events : f.about = r

\* A request that had to wait for memory is carried out within its deadline,
\* counted from its arrival and not from the last attempt.
InTime == \A a \in Range(asked) : a.on - a.at < Wait

=============================================================================
