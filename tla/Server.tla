------------------------------- MODULE Server -------------------------------
(***************************************************************************)
(* PicoServer (network/pico/server.cpp): the TLS and plain listeners, one   *)
(* pending socket and two connections.  lwIP's callbacks run between polls; *)
(* a poll admits the pending socket and then serves the two connections in  *)
(* turn, which `todo' spells out one connection at a time.                   *)
(*                                                                         *)
(* TCP bytes are units: a TLS record or a plain segment is one unit of      *)
(* `flight', the sequence of units written and not yet acknowledged, each    *)
(* tagged with the generation whose response it completes (0: none).  Its    *)
(* length is pending_tcp_bytes_.  Time is the set of deadlines that have     *)
(* passed when a poll looks.                                                 *)
(***************************************************************************)
EXTENDS Naturals, Integers, Sequences, FiniteSets

CONSTANTS Modes,            \* admission_: "cert", "local", "softap"
          Loads,            \* how many sockets lwIP hands over and calls it makes
          LastGeneration    \* generation_ stops here (UINT64_MAX)

VARIABLES v, c, h

vars == <<v, c, h>>
Slots == {1, 2}

(* A connection after close(): nothing of the previous one is left.          *)
Idle == [client |-> 0, generation |-> 0, rx |-> 0, flight |-> <<>>, remaining |-> -1,
         size |-> 0, offset |-> 0, keep |-> FALSE, principal |-> "",
         handshake |-> FALSE, wtp |-> FALSE, gone |-> FALSE, responded |-> FALSE,
         notify |-> FALSE, failed |-> FALSE, softap |-> FALSE, plain |-> FALSE,
         endpoint |-> FALSE]

Nobody == [pcb |-> 0, slot |-> 0, softap |-> FALSE, plain |-> FALSE]

Init ==
    /\ \E m \in Modes :
           v = [mode |-> m, tls |-> FALSE, plain |-> FALSE, open |-> TRUE, pending |-> Nobody,
                generation |-> 0, turn |-> 1, todo |-> <<>>, sta |-> TRUE, ap |-> TRUE]
    /\ c = [i \in Slots |-> Idle]
    /\ \E load \in Loads :
         h = [load |-> load, sockets |-> 0, calls |-> 0, asked |-> {}, answered |-> {}, done |-> {},
              twice |-> FALSE]

Calls == v.todo = <<>> /\ h.calls < h.load.calls
Called(g) == [g EXCEPT !.calls = @ + 1]

ResponseAcknowledged(k) == k.remaining = 0
WtpOccupied == \E i \in Slots : c[i].client # 0 /\ c[i].wtp
Handler(k) == IF k.softap THEN "softap" ELSE "api"

(* finish_request of the handler that served the connection's generation.    *)
Finish(g, k, apply) ==
    IF k.generation = 0 THEN g
    ELSE [g EXCEPT !.done = @ \union {<<k.generation, Handler(k), apply>>},
                   !.twice = @ \/ \E e \in g.done : e[1] = k.generation]

\* The slot keeps the bytes the refused socket left in it.
BugResetSlot(k) == [Idle EXCEPT !.rx = k.rx]

ResetSlot(k) == Idle

Free(k) == k.client = 0 /\ k.generation = 0

FirstFree(cs) == IF Free(cs[1]) THEN 1 ELSE IF Free(cs[2]) THEN 2 ELSE 0

DropPending(cs) ==
    IF v.pending.slot = 0 THEN cs
    ELSE [cs EXCEPT ![v.pending.slot] = ResetSlot(@)]

CloseAll(cs) == [i \in Slots |-> Idle]

FinishAll(g) == Finish(Finish(g, c[1], FALSE), c[2], FALSE)

-----------------------------------------------------------------------------
(* Listeners.  Every failure inside start() runs stop().                     *)

Start ==
    /\ v.todo = <<>> /\ ~v.tls /\ v.open
    /\ v' = [v EXCEPT !.tls = TRUE]
    /\ UNCHANGED <<c, h>>

Stopped == [v EXCEPT !.tls = FALSE, !.plain = FALSE, !.pending = Nobody]

StartFailed ==
    /\ Calls /\ ~v.tls /\ v.open
    /\ c' = CloseAll(c) /\ h' = Called(FinishAll(h)) /\ v' = Stopped

StartPlain ==
    /\ v.todo = <<>> /\ ~v.plain /\ v.open
    /\ v' = [v EXCEPT !.plain = TRUE]
    /\ UNCHANGED <<c, h>>

Stop ==
    /\ Calls /\ (v.tls \/ v.plain)
    /\ c' = CloseAll(c) /\ h' = Called(FinishAll(h)) /\ v' = Stopped

\* Closing admission leaves what is already connected alone.
BugSetAdmission(open) ==
    /\ Calls /\ v.open # open
    /\ v' = [v EXCEPT !.open = open, !.pending = IF open THEN @ ELSE Nobody]
    /\ h' = Called(h) /\ UNCHANGED c

SetAdmission(open) ==
    /\ Calls /\ v.open # open
    /\ IF open
       THEN v' = [v EXCEPT !.open = TRUE] /\ h' = Called(h) /\ UNCHANGED c
       ELSE /\ v' = [v EXCEPT !.open = FALSE, !.pending = Nobody]
            /\ c' = CloseAll(c) /\ h' = Called(FinishAll(h))

-----------------------------------------------------------------------------
(* lwIP callbacks.                                                           *)

(* accept_connection().  `busy' is a local job that is armed or running,      *)
(* `clock' a synchronised clock; a refused socket is aborted at once.         *)
Accept(plain, softap, busy, clock) ==
    /\ h.sockets < h.load.sockets /\ Calls
    /\ IF plain THEN v.plain ELSE v.tls
    /\ v.open /\ v.pending.pcb = 0 /\ ~busy
    /\ ~(plain /\ WtpOccupied)
    /\ softap => ~plain /\ v.mode # "local"
    /\ (~softap /\ ~plain) => v.mode # "softap"
    /\ softap \/ clock
    /\ v' = [v EXCEPT !.pending = [pcb |-> h.sockets + 1, slot |-> FirstFree(c),
                                   softap |-> softap, plain |-> plain]]
    /\ h' = [h EXCEPT !.sockets = @ + 1, !.calls = @ + 1]
    /\ UNCHANGED c

(* Bytes of the pending socket go to the slot reserved for it; without one   *)
(* they stay in the TCP window.                                              *)
PendingReceive ==
    /\ Calls /\ v.pending.slot # 0
    /\ c[v.pending.slot].rx = 0
    /\ c' = [c EXCEPT ![v.pending.slot].rx = v.pending.pcb]
    /\ h' = Called(h) /\ UNCHANGED v

(* pending_receive() of a FIN or an error, pending_error(), close_pending().  *)
PendingLost ==
    /\ Calls /\ v.pending.pcb # 0
    /\ c' = DropPending(c)
    /\ v' = [v EXCEPT !.pending = Nobody]
    /\ h' = Called(h)

Receive(i) ==
    /\ Calls /\ c[i].client # 0 /\ ~c[i].gone /\ c[i].rx = 0
    /\ c' = [c EXCEPT ![i].rx = c[i].client]
    /\ h' = Called(h) /\ UNCHANGED v

PeerFin(i) ==
    /\ Calls /\ c[i].client # 0 /\ ~c[i].gone
    /\ c' = [c EXCEPT ![i].gone = TRUE]
    /\ h' = Called(h) /\ UNCHANGED v

(* error(): lwIP has already freed the socket.                               *)
PeerReset(i) ==
    /\ Calls /\ c[i].client # 0
    /\ c' = [c EXCEPT ![i].client = 0, ![i].gone = TRUE]
    /\ h' = Called(h) /\ UNCHANGED v

Sent(i, n) ==
    /\ Calls /\ c[i].client # 0 /\ n <= Len(c[i].flight)
    /\ c' = [c EXCEPT ![i].flight = SubSeq(@, n + 1, Len(@)),
                      ![i].remaining = IF @ = -1 THEN -1 ELSE IF @ > n THEN @ - n ELSE 0]
    /\ h' = [Called(h) EXCEPT !.answered = @ \union ({c[i].flight[j] : j \in 1 .. n} \ {0})]
    /\ UNCHANGED v

-----------------------------------------------------------------------------
(* poll(): the part before the connections.                                  *)

(* activate(): a plain socket is a WTP connection of the local network at     *)
(* once; mbedtls_ssl_setup() may fail.                                       *)
Activated(k, p, g, setup) ==
    IF p.plain
    THEN [k EXCEPT !.client = p.pcb, !.generation = g, !.plain = TRUE,
                   !.principal = "local-network", !.wtp = TRUE, !.handshake = TRUE,
                   !.endpoint = TRUE]
    ELSE IF setup THEN [k EXCEPT !.client = p.pcb, !.generation = g, !.softap = p.softap]
    ELSE Idle

Turns(skip) ==
    IF v.turn = skip THEN <<3 - v.turn>> ELSE IF 3 - v.turn = skip THEN <<v.turn>> ELSE <<v.turn, 3 - v.turn>>

Handshaking == \E i \in Slots : c[i].client # 0 /\ ~c[i].handshake

LinksDown(sta, ap) ==
    /\ ~sta /\ ~ap
    /\ c' = CloseAll(c) /\ h' = Called(FinishAll(h))
    /\ v' = [v EXCEPT !.pending = Nobody]

Polling(p, sta, ap, g) ==
    [v EXCEPT !.pending = p, !.todo = Turns(p.slot), !.turn = 3 - @, !.sta = sta, !.ap = ap,
              !.generation = g]

(* The pending socket has waited ten seconds, or a local job is about to run; *)
(* or it is plain and a WTP connection has been made since.                   *)
RefusePending(sta, ap, expired) ==
    /\ v.pending.pcb # 0
    /\ expired \/ (v.pending.plain /\ WtpOccupied /\ v.generation # LastGeneration)
    /\ c' = DropPending(c)
    /\ v' = Polling(Nobody, sta, ap, v.generation)
    /\ h' = Called(h)

Admissible == v.pending.pcb # 0 /\ (v.pending.plain \/ ~Handshaking)
              /\ v.generation # LastGeneration

Place == IF v.pending.slot # 0 THEN v.pending.slot ELSE FirstFree(c)

AdmitPending(sta, ap, setup) ==
    /\ Admissible /\ Place # 0
    /\ ~(v.pending.plain /\ WtpOccupied)
    /\ c' = [c EXCEPT ![Place] = Activated(@, v.pending, v.generation + 1, setup)]
    /\ h' = IF setup \/ v.pending.plain THEN Called(h)
            ELSE Finish(Called(h), [Idle EXCEPT !.generation = v.generation + 1,
                                        !.softap = v.pending.softap], FALSE)
    /\ v' = Polling(Nobody, sta, ap, v.generation + 1)

KeepPending(sta, ap) ==
    /\ v.pending.pcb = 0 \/ ~Admissible \/ Place = 0
    /\ v' = Polling(v.pending, sta, ap, v.generation)
    /\ h' = Called(h) /\ UNCHANGED c

Poll(sta, ap, expired, setup) ==
    /\ Calls /\ (v.tls \/ v.plain)
    /\ \/ LinksDown(sta, ap)
       \/ (sta \/ ap) /\ RefusePending(sta, ap, expired)
       \/ (sta \/ ap) /\ ~expired /\ AdmitPending(sta, ap, setup)
       \/ (sta \/ ap) /\ ~expired /\ KeepPending(sta, ap)

-----------------------------------------------------------------------------
(* Connection::poll(): each operator is one way through it, on slot i.        *)

LinkUp(i) == IF c[i].softap THEN v.ap ELSE v.sta

(* The links are arguments of the poll: nothing keeps them after it.          *)
Next1 == [v EXCEPT !.todo = Tail(@), !.sta = Len(v.todo) = 1 \/ @,
                   !.ap = Len(v.todo) = 1 \/ @]

Close(i, apply) ==
    /\ c' = [c EXCEPT ![i] = ResetSlot(@)]
    /\ h' = Finish(h, c[i], apply)
    /\ v' = Next1

Step(i, k) ==
    /\ c' = [c EXCEPT ![i] = k] /\ v' = Next1 /\ UNCHANGED h

(* The link is down, the peer is gone, or a deadline has passed.  A peer that *)
(* closes after it acknowledged the response does not cancel its action.      *)
Ends(i, late) == \/ ~LinkUp(i)
                 \/ c[i].gone
                 \/ (c[i].client # 0 /\ late)

\* A peer that closes is taken to have seen the response.
BugPollEnds(i, late) ==
    /\ Ends(i, late)
    /\ Close(i, LinkUp(i) /\ (c[i].responded \/ ResponseAcknowledged(c[i])))

PollEnds(i, late) ==
    /\ Ends(i, late)
    /\ Close(i, LinkUp(i) /\ ResponseAcknowledged(c[i]))

PollIdle(i) ==
    /\ ~Ends(i, FALSE)
    /\ c[i].client = 0
    /\ Step(i, c[i])

Lives(i) == ~Ends(i, FALSE) /\ c[i].client # 0

(* A failed handshake waits inert until its alert is acknowledged.            *)
PollFailed(i, waited) ==
    /\ Lives(i) /\ c[i].failed
    /\ IF c[i].flight = <<>> \/ waited THEN Close(i, FALSE) ELSE Step(i, c[i])

Shaking(i) == Lives(i) /\ ~c[i].failed /\ ~c[i].handshake

(* No HTTP step allowed, or the handshake wants more; a record may go out.    *)
HandshakeWaits(i) ==
    /\ Shaking(i)
    /\ Step(i, c[i])

HandshakeFails(i, alert) ==
    /\ Shaking(i)
    /\ IF alert \/ c[i].flight # <<>>
       THEN Step(i, [c[i] EXCEPT !.failed = TRUE,
                                 !.flight = IF alert THEN Append(@, 0) ELSE @])
       ELSE Close(i, FALSE)

HandshakeUnclocked(i) ==
    /\ Shaking(i) /\ ~c[i].softap
    /\ Close(i, FALSE)

Refused(i, cert, alpn) ==
    \/ ~c[i].softap /\ v.mode = "cert" /\ ~cert
    \/ alpn = "none" /\ ~c[i].softap
    \/ v.mode = "local" /\ alpn # "wtp/1"
    \/ c[i].softap /\ alpn = "wtp/1"

OtherWtp(i) == c[3 - i].client # 0 /\ c[3 - i].handshake /\ c[3 - i].wtp

Principal(i) == IF v.mode = "local" THEN "local-network"
                ELSE IF ~c[i].softap /\ v.mode = "cert" THEN "tls-cert" ELSE ""

\* The other connection is not looked at when the handshake ends.
BugHandshakeOver(i, cert, alpn) ==
    /\ Shaking(i) /\ c[i].rx # 0
    /\ IF Refused(i, cert, alpn) THEN Close(i, FALSE)
       ELSE Step(i, [c[i] EXCEPT !.principal = Principal(i), !.wtp = alpn = "wtp/1", !.rx = 0,
                                 !.handshake = TRUE, !.endpoint = alpn = "wtp/1"])

HandshakeOver(i, cert, alpn) ==
    /\ Shaking(i) /\ c[i].rx # 0
    /\ IF Refused(i, cert, alpn) \/ (alpn = "wtp/1" /\ OtherWtp(i)) THEN Close(i, FALSE)
       ELSE Step(i, [c[i] EXCEPT !.principal = Principal(i), !.wtp = alpn = "wtp/1", !.rx = 0,
                                 !.handshake = TRUE, !.endpoint = alpn = "wtp/1"])

Established(i) == Lives(i) /\ ~c[i].failed /\ c[i].handshake

(* A WTP connection: the endpoint closes it, has output, takes input, or the  *)
(* transport fails.  The endpoint's own behaviour is module Endpoint's.       *)
PollWtp(i, q) ==
    /\ Established(i) /\ c[i].wtp
    /\ \/ q = "quiet" /\ Step(i, c[i])
       \/ q = "closed" /\ Close(i, FALSE)
       \/ q = "input" /\ c[i].rx # 0 /\ Step(i, [c[i] EXCEPT !.rx = 0])

(* HTTP.  Steps are withheld while the USB console drains.                    *)
PollHttpHeld(i) ==
    /\ Established(i) /\ ~c[i].wtp
    /\ Step(i, c[i])

Last(k) == k.offset + 1 = k.size

\* The count starts with the last write's own bytes, not all that are in flight.
BugPollWrite(i, ok) ==
    /\ Established(i) /\ ~c[i].wtp /\ c[i].offset < c[i].size
    /\ IF ~ok THEN Close(i, FALSE)
       ELSE Step(i, [c[i] EXCEPT !.offset = @ + 1,
                        !.flight = Append(@, IF Last(c[i]) THEN c[i].generation ELSE 0),
                        !.remaining = IF Last(c[i]) THEN 1 ELSE @])

(* The response goes out a unit at a time; when its last unit is written the  *)
(* bytes then in flight are what must be acknowledged.                        *)
PollWrite(i, ok) ==
    /\ Established(i) /\ ~c[i].wtp /\ c[i].offset < c[i].size
    /\ IF ~ok THEN Close(i, FALSE)
       ELSE Step(i, [c[i] EXCEPT !.offset = @ + 1,
                        !.flight = Append(@, IF Last(c[i]) THEN c[i].generation ELSE 0),
                        !.remaining = IF Last(c[i]) THEN Len(c[i].flight) + 1 ELSE @])

Written(i) == Established(i) /\ ~c[i].wtp /\ c[i].offset = c[i].size /\ c[i].responded

\* The next request of a kept connection runs under the same generation.
BugPollKeepAlive(i) ==
    /\ Written(i) /\ c[i].keep /\ ResponseAcknowledged(c[i])
    /\ c' = [c EXCEPT ![i].remaining = -1, ![i].offset = 0,
                      ![i].size = 0, ![i].keep = FALSE, ![i].responded = FALSE,
                      ![i].notify = FALSE]
    /\ h' = Finish(h, c[i], TRUE)
    /\ v' = Next1

(* A kept connection: the acknowledged response's action is applied and the   *)
(* next request gets a generation of its own.                                 *)
PollKeepAlive(i) ==
    /\ Written(i) /\ c[i].keep /\ ResponseAcknowledged(c[i])
    /\ v.generation < LastGeneration
    /\ c' = [c EXCEPT ![i].generation = v.generation + 1, ![i].remaining = -1, ![i].offset = 0,
                      ![i].size = 0, ![i].keep = FALSE, ![i].responded = FALSE,
                      ![i].notify = FALSE]
    /\ h' = Finish(h, c[i], TRUE)
    /\ v' = [Next1 EXCEPT !.generation = @ + 1]

PollUnacknowledged(i) ==
    /\ Written(i) /\ ~ResponseAcknowledged(c[i])
    /\ c[i].keep \/ c[i].notify
    /\ Step(i, c[i])

PollNotify(i, ok) ==
    /\ Written(i) /\ ~c[i].keep /\ ~c[i].notify
    /\ IF ok THEN Step(i, [c[i] EXCEPT !.notify = TRUE, !.flight = Append(@, 0)])
       ELSE Close(i, ResponseAcknowledged(c[i]))

PollFinished(i) ==
    /\ Written(i) /\ ~c[i].keep /\ c[i].notify /\ ResponseAcknowledged(c[i])
    /\ Close(i, TRUE)

Reading(i) == Established(i) /\ ~c[i].wtp /\ ~c[i].responded

PollReadFails(i) == Reading(i) /\ Close(i, FALSE)

(* A complete request is handed to the SoftAP or the browser API; a request   *)
(* that cannot be parsed is answered without either.                          *)
PollRequest(i, parsed, size, keep) ==
    /\ Reading(i) /\ c[i].rx # 0
    /\ keep => parsed
    /\ c' = [c EXCEPT ![i].rx = 0, ![i].responded = TRUE, ![i].size = size, ![i].keep = keep]
    /\ h' = IF parsed THEN [h EXCEPT !.asked = @ \union {<<c[i].generation, Handler(c[i])>>}]
            ELSE h
    /\ v' = Next1

PollConnection ==
    /\ v.todo # <<>>
    /\ \E i \in {Head(v.todo)} :
           \/ \E late \in BOOLEAN : PollEnds(i, late)
           \/ PollIdle(i)
           \/ \E waited \in BOOLEAN : PollFailed(i, waited)
           \/ HandshakeWaits(i) \/ HandshakeUnclocked(i)
           \/ \E alert \in BOOLEAN : HandshakeFails(i, alert)
           \/ \E cert \in BOOLEAN, alpn \in {"wtp/1", "http/1.1", "none"} :
                  HandshakeOver(i, cert, alpn)
           \/ \E q \in {"quiet", "closed", "input"} : PollWtp(i, q)
           \/ PollHttpHeld(i)
           \/ \E ok \in BOOLEAN : PollWrite(i, ok) \/ PollNotify(i, ok)
           \/ PollKeepAlive(i) \/ PollUnacknowledged(i) \/ PollFinished(i) \/ PollReadFails(i)
           \/ \E parsed, keep \in BOOLEAN, size \in {1, 2} : PollRequest(i, parsed, size, keep)

Next ==
    \/ Start \/ StartFailed \/ StartPlain \/ Stop
    \/ \E open \in BOOLEAN : SetAdmission(open)
    \/ \E plain, softap, busy, clock \in BOOLEAN : Accept(plain, softap, busy, clock)
    \/ PendingReceive \/ PendingLost
    \/ \E i \in Slots : Receive(i) \/ PeerFin(i) \/ PeerReset(i)
    \/ \E i \in Slots, n \in {1, 2} : Sent(i, n)
    \/ \E sta, ap, expired, setup \in BOOLEAN : Poll(sta, ap, expired, setup)
    \/ PollConnection

Spec == Init /\ [][Next]_vars

-----------------------------------------------------------------------------
(* Properties.                                                               *)

(* At most one live WTP connection, whether it came over TLS or plain, and    *)
(* however its handshake interleaved with the other socket's admission.       *)
WtpExclusive ==
    \A i, j \in Slots : (c[i].client # 0 /\ c[i].endpoint /\ c[j].client # 0 /\ c[j].endpoint)
                            => i = j

(* A mutation is applied only when the peer acknowledged the last byte of its *)
(* own response ("Only an acknowledged response can finish its mutation"),    *)
(* once, and by the handler that served the request.                          *)
AppliedAcknowledged ==
    /\ \A e \in h.done : e[3] => e[1] \in h.answered
    /\ \A e \in h.done, a \in h.asked : e[1] = a[1] => e[2] = a[2]
    /\ ~h.twice

(* The bytes buffered in a slot are those of the socket that owns it, never   *)
(* left over from an earlier or a refused one.                                *)
BytesOwned ==
    \A i \in Slots :
        c[i].rx # 0 => \/ c[i].rx = c[i].client \/ c[i].gone
                       \/ v.pending.slot = i /\ c[i].rx = v.pending.pcb

(* While admission is closed there is no socket at all, pending or admitted.  *)
AdmissionHeld ==
    v.open \/ (v.pending.pcb = 0 /\ \A i \in Slots : c[i].client = 0 /\ ~c[i].endpoint)
=============================================================================
