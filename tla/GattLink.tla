------------------------------ MODULE GattLink ------------------------------
(***************************************************************************)
(* The Bluetooth link (provisioning/pico/gatt_transport.cpp with           *)
(* gatt_framing.cpp and gatt_write_admission.hpp): pairing and encryption, *)
(* the field commands and their indications, and a WTP endpoint whose      *)
(* write requests the stack retains while the endpoint cannot take them.   *)
(* The stack's callbacks arrive in any order; a link that is being closed  *)
(* stays up until the stack says so.  The command session is its           *)
(* connection, authority and carrier (BleField has the rest).              *)
(***************************************************************************)
EXTENDS Integers, FiniteSets

CONSTANTS Peers,        \* Bluetooth peers
          Deadline,     \* GattWriteAdmission::deadline_ms (5 s)
          MaxEndpoints, \* bound on the endpoint connections
          MaxTime       \* bound on the clock

VARIABLES l             \* the link and what hangs on it, with the clock

vars == <<l>>

NoWrite == [pend |-> FALSE, sched |-> FALSE, at |-> 0]

\* of, the endpoint connection an indication was taken from, and born, when the stack began to
\* hold the request, are history.
Down == [up |-> FALSE, enc |-> FALSE, peer |-> 0, isNew |-> FALSE, adm |-> FALSE, cc |-> FALSE,
         wcc |-> FALSE, out |-> FALSE, req |-> FALSE, ind |-> "none", of |-> 0]

NoSession == [conn |-> FALSE, peer |-> 0, prov |-> FALSE, auth |-> FALSE, over |-> FALSE]

Became(ws) == \E x \in ws : l' = x

-----------------------------------------------------------------------------
(* The session and the endpoint, as the link uses them.                    *)

\* session_.connected(): a bonded peer has authority at once, a new one is provisional.
SessionConnected(x) ==
    [x EXCEPT !.ses = [NoSession EXCEPT !.conn = TRUE, !.peer = x.g.peer,
                                        !.prov = x.g.isNew, !.auth = ~x.g.isNew]]

\* session_.disconnected(): a provisional bond is erased, that of the peer the session took.
SessionDisconnected(x) ==
    [x EXCEPT !.ses = NoSession, !.stack = IF x.ses.prov THEN @ \ {x.ses.peer} ELSE @]

EndpointClosed(x) == [x EXCEPT !.ep = [@ EXCEPT !.open = FALSE, !.out = FALSE, !.full = FALSE]]

-----------------------------------------------------------------------------

GapDisconnect(x) == [x EXCEPT !.closing = x.g.up]

\* admit(): the session takes the peer, or a bond that was only just made is removed.
Admit(x) ==
    IF x.g.adm \/ ~x.g.enc \/ x.g.peer = 0 \/ ~x.g.up THEN {x}
    ELSE {SessionConnected([x EXCEPT !.g.adm = TRUE])}
             \cup {IF x.g.isNew THEN [x EXCEPT !.stack = @ \ {x.g.peer}] ELSE x}

Quiet(x) ==
    [EndpointClosed(x) EXCEPT !.w = NoWrite, !.g = [@ EXCEPT !.out = FALSE, !.req = FALSE,
                                                            !.cc = FALSE, !.wcc = FALSE, !.ind = "none"]]

\* disconnected(): the link is gone, and with it the request the stack held.
Disconnected(x) ==
    LET y == IF x.g.adm THEN SessionDisconnected(x)
             ELSE IF x.g.isNew THEN [x EXCEPT !.stack = @ \ {x.g.peer}] ELSE x
    IN  [Quiet(y) EXCEPT !.g = Down, !.held = FALSE, !.closing = FALSE]

BugSecurityLost(x) == IF x.g.adm THEN SessionDisconnected(x) ELSE x

\* security_lost(): authority and output end now, the link a little later.
SecurityLost(x) == Quiet(IF x.g.adm THEN SessionDisconnected(x) ELSE x)

WtpEnabled(x) == IF x.ses.over THEN x.g.cc ELSE x.g.wcc

OutputPending(x) == x.g.out \/ (WtpEnabled(x) /\ x.ep.open /\ x.ep.out)

BugEnsureEndpoint(x) ==
    IF x.ep.open \/ ~x.ses.auth THEN x
    ELSE [x EXCEPT !.ep.open = TRUE, !.ep.gen = @ + 1]

\* ensure_wtp_endpoint(): not while an indication of the endpoint before it is unacknowledged.
EnsureEndpoint(x) ==
    IF x.ep.open \/ x.g.ind = "wtp" \/ ~x.ses.auth THEN x
    ELSE [x EXCEPT !.ep.open = TRUE, !.ep.gen = @ + 1]

RequestSend(x) ==
    IF x.g.req \/ x.g.ind # "none" \/ ~OutputPending(x) \/ ~x.g.up THEN x
    ELSE [x EXCEPT !.g.req = TRUE]

-----------------------------------------------------------------------------
(* Callbacks of the stack.                                                 *)

ConnectionComplete ==
    /\ ~l.g.up
    /\ l' = [l EXCEPT !.g = [Down EXCEPT !.up = TRUE]]

\* SM_EVENT_JUST_WORKS_REQUEST outside the enrolment window.
PairingRefused ==
    /\ l.g.up
    /\ l' = GapDisconnect(l)

\* An identity was made, or one in the stack resolved; it may come again, and the session that
\* has been admitted stays with the peer it took.
Identity(p, isNew) ==
    /\ l.g.up
    /\ isNew \/ p \in l.stack
    /\ Became(Admit([l EXCEPT !.g.peer = p, !.g.isNew = isNew, !.stack = @ \cup {p}]))

EncryptionChange(on) ==
    /\ l.g.up
    /\ IF on THEN Became(Admit([l EXCEPT !.g.enc = TRUE]))
       ELSE l' = GapDisconnect(SecurityLost([l EXCEPT !.g.enc = FALSE]))

DisconnectionComplete ==
    /\ l.g.up
    /\ l' = Disconnected(l)

BugCccdOff(x) == [x EXCEPT !.w = NoWrite]

\* The endpoint loses its indications: a retained request can no longer be served.
CccdOff(x) == IF x.w.pend THEN GapDisconnect([x EXCEPT !.w = NoWrite]) ELSE x

WriteCccd(field, on) ==
    /\ l.g.up /\ ~l.held
    /\ LET x == IF field THEN [l EXCEPT !.g.cc = on] ELSE [l EXCEPT !.g.wcc = on]
       IN  l' = IF ~on /\ (field <=> l.ses.over) THEN CccdOff(EndpointClosed(x)) ELSE x

Expired(x) == x.clk - x.w.at >= Deadline

\* GattWriteAdmission::admit() of a request: deferring it again does not renew its deadline.
Admitted(x, ready, ok) ==
    IF ~ok \/ (x.w.pend /\ Expired(x)) THEN [r |-> "rejected", w |-> NoWrite]
    ELSE IF ready THEN [r |-> "ready", w |-> NoWrite]
    ELSE [r |-> "deferred", w |-> [pend |-> TRUE, sched |-> FALSE, at |-> IF x.w.pend THEN x.w.at ELSE x.clk]]

\* endpoint_->receive(): all of it, or the link is given up.
Received(x) ==
    {RequestSend([x EXCEPT !.ep.full = TRUE]), RequestSend([x EXCEPT !.ep.out = TRUE]),
     GapDisconnect(SecurityLost(x))}

\* The stack keeps a request that was deferred and forgets one that was answered.
Answered(x) == [x EXCEPT !.held = FALSE, !.born = 0]

\* write_callback() of a WTP write request that is new or held by the stack.
WriteRequest(x) ==
    IF ~x.g.adm \/ ~x.ses.auth THEN {Answered([x EXCEPT !.w = NoWrite])}
    ELSE LET may == (~x.w.pend \/ x.ep.open) /\ WtpEnabled(x)
             y == IF may THEN EnsureEndpoint(x) ELSE x
             ok == may /\ y.ep.open
             d == Admitted(y, ok /\ ~y.ep.full, ok)
             z == [y EXCEPT !.w = d.w]
         IN  CASE d.r = "deferred" -> {[z EXCEPT !.held = TRUE, !.born = IF x.held THEN @ ELSE x.clk]}
               [] d.r = "rejected" -> {Answered(z)}
               [] OTHER -> {Answered(q) : q \in Received([z EXCEPT !.late = @ \/ (x.held /\ x.clk - x.born >= Deadline)])}

WtpWrite ==
    /\ l.g.up /\ ~l.held /\ l.ep.gen < MaxEndpoints
    /\ \E x \in Admit(l) : Became(WriteRequest(x))

\* A write command has no reply; it never waits.  Without authority it drops what is retained.
WtpWriteCommand ==
    /\ l.g.up /\ l.ses.over /\ l.ep.gen < MaxEndpoints
    /\ IF ~l.g.adm \/ ~l.ses.auth
       THEN l' = [l EXCEPT !.w = NoWrite, !.stray = @ \/ l.w.pend]
       ELSE LET x == IF WtpEnabled(l) /\ (~l.w.pend \/ l.ep.open) THEN EnsureEndpoint(l) ELSE l
            IN  IF x.ep.open /\ WtpEnabled(x) /\ ~x.ep.full /\ ~x.w.pend THEN Became(Received(x))
                ELSE l' = x

\* A complete field command, as a write request or a write command: the session answers, the reply is queued if the last one is out.
Replied(x, before) ==
    LET changed == before.ses.over # x.ses.over
        y == IF changed THEN CccdOff(EndpointClosed(x)) ELSE x
    IN  IF y.g.cc /\ ~y.g.out
        THEN LET z == RequestSend([y EXCEPT !.g.out = TRUE])
             IN  IF z.ses.auth THEN EnsureEndpoint(z) ELSE z
        ELSE IF changed THEN GapDisconnect(SessionDisconnected(y)) ELSE y

FieldCommand(op) ==
    /\ l.g.up /\ ~l.ses.over /\ l.g.cc /\ l.ep.gen < MaxEndpoints
    /\ \E x \in Admit(l) :
        /\ x.g.adm /\ x.ses.conn
        /\ CASE op = "authorize" -> l' = Replied([x EXCEPT !.ses.auth = TRUE, !.ses.prov = FALSE,
                                                           !.ses.over = FALSE], l)
             [] op = "select" -> x.ses.auth /\ l' = Replied([x EXCEPT !.ses.over = TRUE], l)
             [] OTHER -> x.ses.prov /\ l' = Replied(x, l)

\* send_next(): a field reply first, then the endpoint.
CanSend(works) ==
    /\ l.g.req
    /\ LET x == [l EXCEPT !.g.req = FALSE]
           y == CASE x.g.ind # "none" -> x
                  [] x.g.ind = "none" /\ x.g.out -> [x EXCEPT !.g.ind = "field"]
                  [] x.g.ind = "none" /\ ~x.g.out /\ OutputPending(x) ->
                         [x EXCEPT !.g.ind = "wtp", !.g.of = x.ep.gen]
                  [] OTHER -> x
       IN  l' = IF y.g.ind = x.g.ind \/ works THEN y ELSE GapDisconnect(x)

IndicationComplete(works) ==
    /\ l.g.up /\ l.g.ind # "none"
    /\ IF ~works THEN l' = GapDisconnect(l)
       ELSE LET x == [l EXCEPT !.g.ind = "none", !.g.of = 0,
                               !.g.out = IF l.g.ind = "field" THEN FALSE ELSE @,
                               !.ep.out = IF l.g.ind = "wtp" /\ l.ep.open THEN FALSE ELSE @]
            IN  l' = RequestSend(x)

-----------------------------------------------------------------------------

\* resume_wtp_write(): the stack calls back with the request it holds, or the link is closed.
Resume(x) ==
    LET ok == x.g.up /\ x.g.enc /\ x.g.adm /\ x.ses.auth /\ WtpEnabled(x) /\ x.ep.open
    IN  IF ~x.w.pend \/ x.w.sched \/ (~(ok /\ ~x.ep.full) /\ ok /\ ~Expired(x)) THEN {x}
        ELSE {GapDisconnect(SecurityLost(x))} \cup WriteRequest([x EXCEPT !.w.sched = TRUE])

\* poll(): an enrolment that ran out ends the link; an endpoint without authority is closed.
Poll(expired) ==
    /\ l.g.up
    /\ expired => l.ses.prov
    /\ IF expired
       THEN l' = GapDisconnect(SecurityLost(SessionDisconnected(l)))
       ELSE LET x == IF l.ep.open /\ ~l.ses.auth THEN EndpointClosed(l) ELSE l
            IN  Became(Resume(RequestSend(x)))

\* The access record loses the peer: its authority is gone, the link is not.
AuthorityLost ==
    /\ l.ses.auth
    /\ l' = [l EXCEPT !.ses.auth = FALSE]

\* The endpoint works off what it holds.
EndpointReady ==
    /\ l.ep.open /\ l.ep.full
    /\ l' = [l EXCEPT !.ep.full = FALSE, !.ep.out = TRUE]

Stop ==
    /\ l.g.up
    /\ l' = Disconnected(l)

Tick ==
    /\ l.clk < MaxTime /\ l.held
    /\ l' = [l EXCEPT !.clk = @ + 1]

Init == l = [g |-> Down, ses |-> NoSession, ep |-> [open |-> FALSE, gen |-> 0, out |-> FALSE, full |-> FALSE],
             w |-> NoWrite, held |-> FALSE, born |-> 0, closing |-> FALSE, stack |-> {}, late |-> FALSE,
             stray |-> FALSE, clk |-> 0]

Next ==
    \/ ConnectionComplete \/ PairingRefused \/ DisconnectionComplete \/ Stop
    \/ \E p \in Peers, isNew \in BOOLEAN : Identity(p, isNew)
    \/ \E on \in BOOLEAN : EncryptionChange(on) \/ \E field \in BOOLEAN : WriteCccd(field, on)
    \/ WtpWrite \/ WtpWriteCommand
    \/ \E op \in {"authorize", "select", "other"} : FieldCommand(op)
    \/ \E works \in BOOLEAN : CanSend(works) \/ IndicationComplete(works)
    \/ \E expired \in BOOLEAN : Poll(expired)
    \/ AuthorityLost \/ EndpointReady \/ Tick

Spec == Init /\ [][Next]_vars

-----------------------------------------------------------------------------

\* The acknowledgement of an indication is credited to the endpoint connection whose bytes it
\* carried, never to a later one (ensure_wtp_endpoint, security_lost).
CompletionMatched == l.g.ind = "wtp" /\ l.ep.open => l.g.of = l.ep.gen

\* A write request the stack holds is not forgotten: the link still means to resume it, or is
\* being closed; and none is accepted after its deadline.  The exception is a write command
\* that comes when authority is gone: it drops the request (write_callback).
RequestKept == (l.held /\ ~l.closing => l.w.pend \/ l.stray) /\ ~l.late

\* When encryption or authority is lost nothing more is sent or accepted for the peer, though
\* the link is still up (security_lost).
SilentWhenLost == l.g.up /\ ~l.g.enc => ~l.ep.open /\ ~l.ses.conn /\ ~OutputPending(l)

=============================================================================
