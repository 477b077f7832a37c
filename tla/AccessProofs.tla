---------------------------- MODULE AccessProofs ----------------------------
(***************************************************************************)
(* Local access: the Bluetooth link (LinkSound), the window in which the   *)
(* access point is open (WindowSound) and its browser (BrowserSound), for  *)
(* every set of peers and sessions, every deadline and every period.       *)
(*                                                                         *)
(* The link. A request that waits is held by the stack since it arrived,   *)
(* and who has a session was admitted over an encrypted link: LinkGood     *)
(* says so of the whole link, since every part of it ends with another.    *)
(***************************************************************************)
EXTENDS MCAccess, TLAPS, WellFoundedInduction

\* The connection: what the stack and the controller know of it.
GapTypes ==
    [up : BOOLEAN, enc : BOOLEAN, peer : LinkPeers \cup {0}, isNew : BOOLEAN, adm : BOOLEAN,
     cc : BOOLEAN, wcc : BOOLEAN, out : BOOLEAN, req : BOOLEAN,
     ind : {"none", "field", "wtp"}, of : Nat]

\* The field session of the peer.
SesTypes ==
    [conn : BOOLEAN, peer : LinkPeers \cup {0}, prov : BOOLEAN, auth : BOOLEAN, over : BOOLEAN]

\* The WTP endpoint of the connection.
EpTypes == [open : BOOLEAN, gen : Nat, out : BOOLEAN, full : BOOLEAN]

\* The write request that waits for room.
WaitTypes == [pend : BOOLEAN, sched : BOOLEAN, at : Nat]

\* The link. An endpoint, a request and an indication carry the number of their making.
LinkTypes ==
    [g : GapTypes, ses : SesTypes, ep : EpTypes, w : WaitTypes, held : BOOLEAN, born : Nat,
     closing : BOOLEAN, stack : SUBSET (LinkPeers \cup {0}), late : BOOLEAN, stray : BOOLEAN, clk : Nat]

\* Who is connected was admitted over an encrypted link, and nothing else has output.
Encrypted(x) ==
    /\ x.ses.conn => x.g.adm /\ x.g.enc /\ x.g.up
    /\ x.ses.auth => x.ses.conn
    /\ x.ep.open => x.ses.conn
    /\ x.g.out => x.g.enc /\ x.g.up

\* An indication that is out is of the endpoint that is open.
Matched(x) == x.g.ind = "wtp" /\ x.ep.open => x.g.of = x.ep.gen

\* What every part of the link relies on.
Linked(x) == x \in LinkTypes /\ Encrypted(x) /\ Matched(x) /\ (x.held => x.g.up) /\ ~x.late

\* A request that waits is held by the stack, from the time it arrived.
Retained(x) ==
    /\ x.w.pend => x.held /\ x.w.at = x.born
    /\ x.held /\ ~x.closing => x.w.pend \/ x.stray

\* The invariant of the link.
LinkGood(x) == Linked(x) /\ Retained(x)

\* The request that waits, and what the stack holds, are left alone.
WaitKept(x, y) ==
    /\ y.w = x.w /\ y.held = x.held /\ y.born = x.born /\ y.closing = x.closing /\ y.stray = x.stray
    /\ y.clk = x.clk

\* What leaves the request alone keeps it.
LEMMA KeptGood ==
    ASSUME NEW x, NEW y, LinkGood(x), Linked(y), WaitKept(x, y)
    PROVE  LinkGood(y)
  BY DEF LinkGood, Retained, WaitKept

\* What an update of the link leaves: its types, and the parts it does not name.
LEMMA ClosedTyped ==
    ASSUME NEW x \in LinkTypes
    PROVE  /\ Link!EndpointClosed(x) \in LinkTypes
           /\ Link!EndpointClosed(x) = [x EXCEPT !.ep = Link!EndpointClosed(x).ep]
           /\ ~Link!EndpointClosed(x).ep.open
  <1> DEFINE p == [x.ep EXCEPT !.open = FALSE, !.out = FALSE, !.full = FALSE]
  <1>1. p \in EpTypes /\ ~p.open
    BY DEF LinkTypes, EpTypes
  <1>2. Link!EndpointClosed(x) = [x EXCEPT !.ep = p]
    BY DEF Link!EndpointClosed
  <1> HIDE DEF p
  <1> QED
    BY <1>1, <1>2 DEF LinkTypes

\* A quiet link has no endpoint, no output and no request.
LEMMA QuietTyped ==
    ASSUME NEW x \in LinkTypes
    PROVE  LET y == Link!Quiet(x)
           IN  /\ y \in LinkTypes
               /\ y.ses = x.ses /\ y.held = x.held /\ y.late = x.late /\ y.closing = x.closing
               /\ ~y.ep.open /\ ~y.w.pend
               /\ ~y.g.out /\ y.g.ind = "none" /\ y.g.up = x.g.up /\ y.g.enc = x.g.enc /\ y.g.adm = x.g.adm
  <1> DEFINE u == Link!EndpointClosed(x)
             e == [u.g EXCEPT !.out = FALSE, !.req = FALSE, !.cc = FALSE, !.wcc = FALSE, !.ind = "none"]
  <1>1. u \in LinkTypes /\ ~u.ep.open /\ u = [x EXCEPT !.ep = u.ep]
    BY ClosedTyped
  <1>2. Link!NoWrite \in WaitTypes /\ ~Link!NoWrite.pend
    BY DEF WaitTypes, Link!NoWrite
  <1>3. /\ e \in GapTypes /\ ~e.out /\ e.ind = "none"
        /\ e.up = u.g.up /\ e.enc = u.g.enc /\ e.adm = u.g.adm
    BY <1>1 DEF LinkTypes, GapTypes
  <1>4. Link!Quiet(x) = [u EXCEPT !.w = Link!NoWrite, !.g = e]
    BY DEF Link!Quiet
  <1>5. u.g = x.g /\ u.ses = x.ses /\ u.held = x.held /\ u.late = x.late /\ u.closing = x.closing
    BY <1>1 DEF LinkTypes
  <1> HIDE DEF u, e
  <1> QED
    BY <1>1, <1>2, <1>3, <1>4, <1>5 DEF LinkTypes

\* The session ends with everything that was open for it.
LEMMA SessionTyped ==
    ASSUME NEW x \in LinkTypes
    PROVE  LET y == Link!SessionDisconnected(x)
           IN  /\ y \in LinkTypes
               /\ ~y.ses.conn /\ ~y.ses.auth
               /\ y.g = x.g /\ y.ep = x.ep /\ y.w = x.w /\ y.held = x.held /\ y.born = x.born
               /\ y.closing = x.closing /\ y.late = x.late /\ y.stray = x.stray
  <1>1. Link!NoSession \in SesTypes /\ ~Link!NoSession.conn /\ ~Link!NoSession.auth
    BY DEF SesTypes, Link!NoSession
  <1>2. x.ses.peer \in LinkPeers \cup {0} /\ x.ses.prov \in BOOLEAN
    BY DEF LinkTypes, SesTypes
  <1> QED
    BY <1>1, <1>2 DEF LinkTypes, Link!SessionDisconnected

\* A connection that is gone leaves nothing behind.
LEMMA DownGood ==
    ASSUME NEW x, LinkGood(x)
    PROVE  LinkGood(Link!Disconnected(x))
  <1> DEFINE y == IF x.g.adm THEN Link!SessionDisconnected(x)
             ELSE IF x.g.isNew THEN [x EXCEPT !.stack = @ \ {x.g.peer}] ELSE x
             q == Link!Quiet(y)
  <1>1. y \in LinkTypes /\ ~y.late /\ ~y.ses.conn /\ ~y.ses.auth
    <2>1. x \in LinkTypes /\ ~x.late /\ (~x.g.adm => ~x.ses.conn /\ ~x.ses.auth)
      BY DEF LinkGood, Linked, Encrypted
    <2>2. CASE x.g.adm
      BY <2>1, <2>2, SessionTyped
    <2>3. CASE ~x.g.adm
      BY <2>1, <2>3 DEF LinkTypes, GapTypes
    <2> QED
      BY <2>2, <2>3
  <1>2. Link!Disconnected(x) = [q EXCEPT !.g = Link!Down, !.held = FALSE, !.closing = FALSE]
    BY DEF Link!Disconnected
  <1> HIDE DEF y
  <1>3. /\ q \in LinkTypes /\ ~q.late /\ ~q.ses.conn /\ ~q.ses.auth /\ ~q.ep.open /\ ~q.w.pend
    BY <1>1, QuietTyped
  <1>4. Link!Down \in GapTypes /\ ~Link!Down.up /\ ~Link!Down.out
    BY DEF GapTypes, Link!Down
  <1> HIDE DEF q
  <1>5. Link!Disconnected(x) \in LinkTypes
    BY <1>2, <1>3, <1>4 DEF LinkTypes
  <1> QED
    BY <1>2, <1>3, <1>4, <1>5 DEF LinkGood, LinkTypes, Linked, Retained, Encrypted, Matched

\* A link that lost its security is cut.
LEMMA CutGood ==
    ASSUME NEW x \in LinkTypes, x.g.up, x.ses.conn => x.g.adm, x.ses.auth => x.ses.conn, ~x.late
    PROVE  LET y == Link!GapDisconnect(Link!SecurityLost(x))
           IN  LinkGood(y) /\ ~y.w.pend
  <1> DEFINE y == IF x.g.adm THEN Link!SessionDisconnected(x) ELSE x
             q == Link!Quiet(y)
  <1>1. y \in LinkTypes /\ ~y.late /\ ~y.ses.conn /\ ~y.ses.auth /\ y.g.up
    BY SessionTyped
  <1>2. Link!SecurityLost(x) = q
    BY DEF Link!SecurityLost
  <1> HIDE DEF y
  <1>3. /\ q \in LinkTypes /\ ~q.late /\ ~q.ses.conn /\ ~q.ses.auth /\ ~q.ep.open /\ ~q.w.pend
        /\ q.g.up /\ ~q.g.out
    BY <1>1, QuietTyped
  <1> HIDE DEF q
  <1>4. Link!GapDisconnect(q) = [q EXCEPT !.closing = TRUE]
    BY <1>3 DEF Link!GapDisconnect
  <1>5. Link!GapDisconnect(q) \in LinkTypes
    BY <1>3, <1>4 DEF LinkTypes
  <1> QED
    BY <1>2, <1>3, <1>4, <1>5 DEF LinkGood, LinkTypes, Linked, Retained, Encrypted, Matched

\* So is one the local side gives up.
LEMMA GapGood ==
    ASSUME NEW x, Linked(x), x.g.up, x.w.pend => x.held /\ x.w.at = x.born
    PROVE  LinkGood(Link!GapDisconnect(x))
  <1>1. Link!GapDisconnect(x) = [x EXCEPT !.closing = TRUE] /\ x \in LinkTypes
    BY DEF Link!GapDisconnect, Linked
  <1>2. Link!GapDisconnect(x) \in LinkTypes
    BY <1>1 DEF LinkTypes
  <1> QED
    BY <1>1, <1>2 DEF LinkGood, LinkTypes, Linked, Retained, Encrypted, Matched

\* An endpoint that is closed has no output.
LEMMA ClosedLinked ==
    ASSUME NEW x, Linked(x)
    PROVE  LET y == Link!EndpointClosed(x)
           IN  Linked(y) /\ WaitKept(x, y) /\ y.g = x.g /\ y.ses = x.ses /\ ~y.ep.open
  <1> DEFINE y == Link!EndpointClosed(x)
  <1>1. x \in LinkTypes
    BY DEF Linked
  <1>2. y \in LinkTypes /\ y = [x EXCEPT !.ep = y.ep] /\ ~y.ep.open
    BY <1>1, ClosedTyped
  <1> HIDE DEF y
  <1>3. /\ WaitKept(x, y) /\ y.g = x.g /\ y.ses = x.ses /\ y.late = x.late
    BY <1>1, <1>2 DEF LinkTypes, WaitKept
  <1>4. Linked(y)
    BY <1>2, <1>3 DEF Linked, Encrypted, Matched, WaitKept
  <1> QED
    BY <1>2, <1>3, <1>4 DEF y

\* A request to send changes nothing else.
LEMMA SendLinked ==
    ASSUME NEW x, Linked(x)
    PROVE  LET y == Link!RequestSend(x)
           IN  Linked(y) /\ WaitKept(x, y) /\ y.ses = x.ses /\ y.ep = x.ep /\ y.g.up = x.g.up
  <1> DEFINE y == [x EXCEPT !.g.req = TRUE]
  <1>1. x \in LinkTypes
    BY DEF Linked
  <1>2. y.g \in GapTypes
    BY <1>1 DEF LinkTypes, GapTypes
  <1>3. y \in LinkTypes
    BY <1>1, <1>2 DEF LinkTypes
  <1>4. Linked(y) /\ WaitKept(x, y) /\ y.ses = x.ses /\ y.ep = x.ep /\ y.g.up = x.g.up
    BY <1>1, <1>3 DEF Linked, WaitKept, LinkTypes, GapTypes, Encrypted, Matched
  <1> QED
    BY <1>4 DEF Link!RequestSend, WaitKept

\* Who is admitted is connected over an encrypted link.
LEMMA AdmitLinked ==
    ASSUME NEW x, Linked(x), NEW y \in Link!Admit(x)
    PROVE  Linked(y) /\ WaitKept(x, y) /\ y.g.up = x.g.up /\ y.ep = x.ep
  <1>1. x \in LinkTypes
    BY DEF Linked
  <1>2. CASE y = x
    BY <1>2 DEF WaitKept
  <1>3. CASE y = [x EXCEPT !.stack = @ \ {x.g.peer}]
    <2>1. y \in LinkTypes /\ \A f \in {"g", "ses", "ep", "w", "held", "born", "closing", "late", "stray", "clk"} : y[f] = x[f]
      BY <1>1, <1>3 DEF LinkTypes
    <2> QED
      BY <2>1 DEF Linked, WaitKept, Encrypted, Matched
  <1>4. CASE /\ x.g.enc /\ x.g.up
             /\ y = Link!SessionConnected([x EXCEPT !.g.adm = TRUE])
    <2> DEFINE z == [x EXCEPT !.g.adm = TRUE]
    <2>1. /\ z.g \in GapTypes /\ z.g = [x.g EXCEPT !.adm = TRUE]
          /\ z.g.adm /\ z.g.enc /\ z.g.up /\ z.g.out = x.g.out /\ z.g.ind = x.g.ind /\ z.g.of = x.g.of
      BY <1>1, <1>4 DEF LinkTypes, GapTypes
    <2>2. z \in LinkTypes /\ z = [x EXCEPT !.g = z.g]
      BY <1>1, <2>1 DEF LinkTypes
    <2> HIDE DEF z
    <2>3. PICK e \in SesTypes : y = [z EXCEPT !.ses = e] /\ e.conn
      <3> DEFINE e == [Link!NoSession EXCEPT !.conn = TRUE, !.peer = z.g.peer,
                                             !.prov = z.g.isNew, !.auth = ~z.g.isNew]
      <3>1. z.g.peer \in LinkPeers \cup {0} /\ z.g.isNew \in BOOLEAN
        BY <2>1 DEF GapTypes
      <3>2. e \in SesTypes /\ e.conn
        BY <3>1 DEF SesTypes, Link!NoSession
      <3>3. y = [z EXCEPT !.ses = e]
        BY <1>4 DEF Link!SessionConnected, z
      <3> QED
        BY <3>2, <3>3
    <2>4. y \in LinkTypes /\ y.ses.conn /\ y.g = z.g
      BY <2>2, <2>3 DEF LinkTypes
    <2>5. \A f \in {"ep", "w", "held", "born", "closing", "late", "stray", "clk"} : y[f] = x[f]
      BY <1>1, <2>2, <2>3 DEF LinkTypes
    <2> QED
      BY <2>1, <2>4, <2>5, <1>4 DEF Linked, WaitKept, Encrypted, Matched
  <1> QED
    BY <1>2, <1>3, <1>4 DEF Link!Admit

\* An endpoint is opened with a number of its own.
LEMMA EndpointLinked ==
    ASSUME NEW x, Linked(x)
    PROVE  LET y == Link!EnsureEndpoint(x)
           IN  Linked(y) /\ WaitKept(x, y) /\ y.g = x.g /\ y.ses = x.ses
  <1> DEFINE p == [x.ep EXCEPT !.open = TRUE, !.gen = @ + 1]
  <1>1. x \in LinkTypes
    BY DEF Linked
  <1>2. p \in EpTypes
    <2>1. x.ep \in EpTypes
      BY <1>1 DEF LinkTypes
    <2>2. x.ep.gen + 1 \in Nat
      BY <2>1 DEF EpTypes
    <2> QED
      BY <2>1, <2>2 DEF EpTypes
  <1>3. CASE x.ep.open \/ x.g.ind = "wtp" \/ ~x.ses.auth
    <2>1. Link!EnsureEndpoint(x) = x
      BY <1>3 DEF Link!EnsureEndpoint
    <2> QED
      BY <2>1 DEF WaitKept
  <1>4. CASE ~(x.ep.open \/ x.g.ind = "wtp" \/ ~x.ses.auth)
    <2>1. Link!EnsureEndpoint(x) = [x EXCEPT !.ep = p]
      BY <1>4 DEF Link!EnsureEndpoint
    <2> HIDE DEF p
    <2>2. Link!EnsureEndpoint(x) \in LinkTypes
      BY <2>1, <1>1, <1>2 DEF LinkTypes
    <2> QED
      BY <2>1, <2>2, <1>1, <1>4 DEF LinkTypes, Linked, WaitKept, Encrypted, Matched
  <1> QED
    BY <1>3, <1>4

\* The endpoint takes bytes or has some, and stays the one that is open.
LEMMA BytesLinked ==
    ASSUME NEW x, Linked(x), NEW p \in EpTypes, p.open => x.ep.open /\ p.gen = x.ep.gen
    PROVE  Linked([x EXCEPT !.ep = p]) /\ WaitKept(x, [x EXCEPT !.ep = p])
  <1>1. x \in LinkTypes
    BY DEF Linked
  <1>2. [x EXCEPT !.ep = p] \in LinkTypes
    BY <1>1 DEF LinkTypes
  <1> QED
    BY <1>1, <1>2 DEF LinkTypes, Linked, WaitKept, Encrypted, Matched

\* The bytes of a write reach the endpoint that is open.
LEMMA ReceivedLinked ==
    ASSUME NEW x, Linked(x), x.g.up, NEW y \in Link!Received(x)
    PROVE  \/ Linked(y) /\ WaitKept(x, y)
           \/ LinkGood(y) /\ ~y.w.pend
  <1>1. x \in LinkTypes
    BY DEF Linked
  <1>2. [x.ep EXCEPT !.full = TRUE] \in EpTypes /\ [x.ep EXCEPT !.full = TRUE].open = x.ep.open
        /\ [x.ep EXCEPT !.full = TRUE].gen = x.ep.gen
    BY <1>1 DEF LinkTypes, EpTypes
  <1>3. [x.ep EXCEPT !.out = TRUE] \in EpTypes /\ [x.ep EXCEPT !.out = TRUE].open = x.ep.open
        /\ [x.ep EXCEPT !.out = TRUE].gen = x.ep.gen
    BY <1>1 DEF LinkTypes, EpTypes
  <1> DEFINE u == [x EXCEPT !.ep.full = TRUE]
             v == [x EXCEPT !.ep.out = TRUE]
  <1>4. Linked(u) /\ WaitKept(x, u)
    BY <1>2, BytesLinked
  <1>5. Linked(v) /\ WaitKept(x, v)
    BY <1>3, BytesLinked
  <1>6. y \in {Link!RequestSend(u), Link!RequestSend(v), Link!GapDisconnect(Link!SecurityLost(x))}
    BY DEF Link!Received
  <1> HIDE DEF u, v
  <1>7. CASE y = Link!RequestSend(u)
    BY <1>4, <1>7, SendLinked DEF WaitKept
  <1>8. CASE y = Link!RequestSend(v)
    BY <1>5, <1>8, SendLinked DEF WaitKept
  <1>9. CASE y = Link!GapDisconnect(Link!SecurityLost(x))
    BY <1>9, CutGood DEF Linked, Encrypted
  <1> QED
    BY <1>6, <1>7, <1>8, <1>9

\* A request that is answered is not held any more.
LEMMA AnsweredGood ==
    ASSUME NEW x, Linked(x), ~x.w.pend
    PROVE  LinkGood(Link!Answered(x))
  <1>1. x \in LinkTypes
    BY DEF Linked
  <1>2. Link!Answered(x) \in LinkTypes
    BY <1>1 DEF Link!Answered, LinkTypes
  <1> QED
    BY <1>1, <1>2 DEF Link!Answered, LinkTypes, LinkGood, Linked, Retained, Encrypted, Matched

\* What admission makes of a request: it waits from when it came, or waits no more; none that
\* is late gets through.
LEMMA AdmittedKinds ==
    ASSUME NEW x \in LinkTypes, NEW ready \in BOOLEAN, NEW ok \in BOOLEAN
    PROVE  LET d == Link!Admitted(x, ready, ok)
           IN  /\ d.w \in WaitTypes
               /\ d.r \in {"rejected", "ready", "deferred"}
               /\ d.r # "deferred" => ~d.w.pend
               /\ d.r = "deferred" => d.w.pend /\ d.w.at = IF x.w.pend THEN x.w.at ELSE x.clk
               /\ d.r = "ready" => ~(x.w.pend /\ Link!Expired(x))
  <1>1. x.w.at \in Nat /\ x.clk \in Nat
    BY DEF LinkTypes, WaitTypes
  <1> QED
    BY <1>1 DEF Link!Admitted, Link!NoWrite, WaitTypes

\* A write request is answered, or waits while the stack holds it.
LEMMA WriteRequestGood ==
    ASSUME NEW x, LinkGood(x), x.held => x.w.pend, NEW y \in Link!WriteRequest(x)
    PROVE  LinkGood(y)
  <1>1. x \in LinkTypes /\ Linked(x)
    BY DEF LinkGood, Linked
  <1>2. CASE ~x.g.adm \/ ~x.ses.auth
    <2> DEFINE z == [x EXCEPT !.w = Link!NoWrite]
    <2>1. Link!NoWrite \in WaitTypes /\ ~Link!NoWrite.pend
      BY DEF Link!NoWrite, WaitTypes
    <2>2. y = Link!Answered(z)
      BY <1>2 DEF Link!WriteRequest
    <2>3. z \in LinkTypes
      BY <1>1, <2>1 DEF LinkTypes
    <2>4. Linked(z) /\ ~z.w.pend
      BY <1>1, <2>1, <2>3 DEF LinkTypes, Linked, Encrypted, Matched
    <2> QED
      BY <2>2, <2>4, AnsweredGood
  <1>3. CASE x.g.adm /\ x.ses.auth
    <2> DEFINE may == (~x.w.pend \/ x.ep.open) /\ Link!WtpEnabled(x)
               p == IF may THEN Link!EnsureEndpoint(x) ELSE x
               ok == may /\ p.ep.open
               ready == ok /\ ~p.ep.full
               d == Link!Admitted(p, ready, ok)
               z == [p EXCEPT !.w = d.w]
               late == x.late \/ (x.held /\ x.clk - x.born >= Deadline)
               f == [z EXCEPT !.late = @ \/ (x.held /\ x.clk - x.born >= Deadline)]
    <2>1. may \in BOOLEAN
      BY <1>1 DEF LinkTypes, WaitTypes, EpTypes, GapTypes, Link!WtpEnabled
    <2>2. Linked(p) /\ WaitKept(x, p) /\ p.g = x.g /\ p.ses = x.ses
      BY <1>1, EndpointLinked DEF WaitKept
    <2>3. p \in LinkTypes
      BY <2>2 DEF Linked
    <2>4. y \in CASE d.r = "deferred" -> {[z EXCEPT !.held = TRUE, !.born = IF x.held THEN @ ELSE x.clk]}
                  [] d.r = "rejected" -> {Link!Answered(z)}
                  [] OTHER -> {Link!Answered(q) : q \in Link!Received(f)}
      BY <1>3 DEF Link!WriteRequest
    <2>5. ok \in BOOLEAN /\ ready \in BOOLEAN
      BY <2>1, <2>3 DEF LinkTypes, EpTypes
    <2>6. x.g.up
      BY <1>1, <1>3 DEF Linked, Encrypted
    <2> HIDE DEF may, p, ok, ready
    <2>7. /\ d.w \in WaitTypes
          /\ d.r \in {"rejected", "ready", "deferred"}
          /\ d.r # "deferred" => ~d.w.pend
          /\ d.r = "deferred" => d.w.pend /\ d.w.at = IF p.w.pend THEN p.w.at ELSE p.clk
          /\ d.r = "ready" => ~(p.w.pend /\ Link!Expired(p))
      BY <2>3, <2>5, AdmittedKinds
    <2> HIDE DEF d
    <2>8. /\ z \in LinkTypes /\ z.w = d.w
          /\ z.g = p.g /\ z.ses = p.ses /\ z.ep = p.ep /\ z.held = p.held /\ z.born = p.born /\ z.late = p.late
      BY <2>3, <2>7 DEF LinkTypes
    <2> HIDE DEF z
    <2>9. Linked(z) /\ z.held = x.held /\ z.born = x.born /\ ~z.late /\ z.g.up
      <3>1. ~p.late /\ ~x.late /\ p.held = x.held /\ p.born = x.born /\ (p.held => p.g.up) /\ p.g.up
        BY <2>2, <2>6, <1>1 DEF Linked, WaitKept
      <3>2. Encrypted(z) /\ Matched(z)
        BY <2>2, <2>8 DEF Linked, Encrypted, Matched
      <3> QED
        BY <2>8, <3>1, <3>2 DEF Linked
    <2>10. CASE d.r = "deferred"
      <3> DEFINE b == IF x.held THEN x.born ELSE x.clk
      <3>1. y = [z EXCEPT !.held = TRUE, !.born = b]
        BY <2>4, <2>9, <2>10
      <3>2. b \in Nat /\ b = d.w.at
        BY <1>1, <2>2, <2>7, <2>10 DEF LinkTypes, WaitKept, LinkGood, Retained
      <3> HIDE DEF b
      <3>3. y \in LinkTypes
        BY <2>8, <3>1, <3>2 DEF LinkTypes
      <3> QED
        BY <2>7, <2>8, <2>9, <2>10, <3>1, <3>2, <3>3
        DEF LinkTypes, LinkGood, Linked, Retained, Encrypted, Matched
    <2>11. CASE d.r = "rejected"
      <3>1. y = Link!Answered(z)
        BY <2>4, <2>11
      <3> QED
        BY <2>7, <2>8, <2>9, <2>11, <3>1, AnsweredGood
    <2>12. CASE d.r = "ready"
      <3>1. PICK q \in Link!Received(f) : y = Link!Answered(q)
        BY <2>4, <2>12
      <3>2. ~(x.held /\ x.clk - x.born >= Deadline) /\ ~x.late
        BY <1>1, <2>2, <2>7, <2>12 DEF Link!Expired, WaitKept, LinkGood, Linked, Retained
      <3>3. f = z
        BY <2>8, <2>9, <3>2 DEF LinkTypes
      <3>4. Linked(q) /\ ~q.w.pend
        BY <2>7, <2>8, <2>9, <2>12, <3>1, <3>3, ReceivedLinked DEF WaitKept, LinkGood
      <3> QED
        BY <3>1, <3>4, AnsweredGood
    <2> QED
      BY <2>7, <2>10, <2>11, <2>12
  <1> QED
    BY <1>1, <1>2, <1>3 DEF LinkTypes, GapTypes, SesTypes

\* A request that waits is tried again.
LEMMA ResumeGood ==
    ASSUME NEW x, LinkGood(x), NEW y \in Link!Resume(x), x.g.up
    PROVE  LinkGood(y)
  <1> DEFINE z == [x EXCEPT !.w.sched = TRUE]
  <1>1. x \in LinkTypes /\ ~x.late
    BY DEF LinkGood, Linked
  <1>2. CASE y = x
    BY <1>2
  <1>3. CASE y = Link!GapDisconnect(Link!SecurityLost(x))
    BY <1>1, <1>3, CutGood DEF LinkGood, Linked, Encrypted
  <1>4. CASE x.w.pend /\ y \in Link!WriteRequest(z)
    <2>1. z.w \in WaitTypes /\ z.w.pend /\ z.w.at = x.w.at
      BY <1>1, <1>4 DEF LinkTypes, WaitTypes
    <2>2. z \in LinkTypes
      BY <1>1, <2>1 DEF LinkTypes
    <2>3. LinkGood(z)
      BY <1>1, <1>4, <2>1, <2>2 DEF LinkTypes, LinkGood, Linked, Retained, Encrypted, Matched
    <2> HIDE DEF z
    <2> QED
      BY <1>4, <2>1, <2>3, WriteRequestGood
  <1> QED
    BY <1>2, <1>3, <1>4 DEF Link!Resume

-----------------------------------------------------------------------------
(* The link's steps.                                                       *)

\* The client turns indications on or off.
LEMMA CccdGood ==
    ASSUME LinkGood(l), NEW field \in BOOLEAN, NEW on \in BOOLEAN, Link!WriteCccd(field, on)
    PROVE  LinkGood(l')
  <1> DEFINE x == IF field THEN [l EXCEPT !.g.cc = on] ELSE [l EXCEPT !.g.wcc = on]
             u == Link!EndpointClosed(x)
  <1>1. l \in LinkTypes /\ Linked(l) /\ ~l.held /\ ~l.w.pend /\ l.g.up
    BY DEF LinkGood, Linked, Retained, Link!WriteCccd
  <1>2. /\ x.g \in GapTypes /\ x = [l EXCEPT !.g = x.g]
        /\ x.g.up = l.g.up /\ x.g.enc = l.g.enc /\ x.g.adm = l.g.adm /\ x.g.out = l.g.out
        /\ x.g.ind = l.g.ind /\ x.g.of = l.g.of
    BY <1>1 DEF LinkTypes, GapTypes
  <1>3. l' = IF ~on /\ (field <=> l.ses.over) THEN Link!CccdOff(u) ELSE x
    BY DEF Link!WriteCccd
  <1> HIDE DEF x
  <1>4. x \in LinkTypes /\ ~x.w.pend /\ x.held = l.held
    BY <1>1, <1>2 DEF LinkTypes
  <1>5. LinkGood(x)
    BY <1>1, <1>2, <1>4 DEF LinkTypes, LinkGood, Linked, Retained, Encrypted, Matched
  <1>6. LinkGood(u) /\ ~u.w.pend
    BY <1>4, <1>5, ClosedLinked, KeptGood DEF WaitKept, LinkGood
  <1> HIDE DEF u
  <1>7. Link!CccdOff(u) = u
    BY <1>6 DEF Link!CccdOff
  <1> QED
    BY <1>3, <1>5, <1>6, <1>7

\* Identity and encryption: the peer is known, the link is encrypted, the session may take it.
LEMMA IdentityGood ==
    ASSUME LinkGood(l), NEW p \in LinkPeers, NEW isNew \in BOOLEAN, Link!Identity(p, isNew)
    PROVE  LinkGood(l')
  <1> DEFINE e == [l.g EXCEPT !.peer = p, !.isNew = isNew]
             x == [l EXCEPT !.g.peer = p, !.g.isNew = isNew, !.stack = @ \cup {p}]
  <1>1. l \in LinkTypes /\ Linked(l)
    BY DEF LinkGood, Linked
  <1>2. /\ e \in GapTypes /\ e.up = l.g.up /\ e.enc = l.g.enc /\ e.adm = l.g.adm /\ e.out = l.g.out
        /\ e.ind = l.g.ind /\ e.of = l.g.of
    BY <1>1 DEF LinkTypes, GapTypes
  <1>3. x = [l EXCEPT !.g = e, !.stack = @ \cup {p}]
    BY <1>1 DEF LinkTypes, GapTypes
  <1>4. \E y \in Link!Admit(x) : l' = y
    BY DEF Link!Identity, Link!Became
  <1> HIDE DEF e, x
  <1>5. x \in LinkTypes
    BY <1>1, <1>2, <1>3 DEF LinkTypes
  <1>6. LinkGood(x)
    BY <1>1, <1>2, <1>3, <1>5 DEF LinkTypes, LinkGood, Linked, Retained, Encrypted, Matched
  <1> QED
    BY <1>4, <1>6, AdmitLinked, KeptGood DEF LinkGood

\* The controller reports that encryption is on or off.
LEMMA EncryptionGood ==
    ASSUME LinkGood(l), NEW on \in BOOLEAN, Link!EncryptionChange(on)
    PROVE  LinkGood(l')
  <1> DEFINE e == [l.g EXCEPT !.enc = on]
             x == [l EXCEPT !.g.enc = on]
  <1>1. l \in LinkTypes /\ Linked(l) /\ l.g.up
    BY DEF LinkGood, Linked, Link!EncryptionChange
  <1>2. /\ e \in GapTypes /\ e.up = l.g.up /\ e.enc = on /\ e.adm = l.g.adm /\ e.out = l.g.out
        /\ e.ind = l.g.ind /\ e.of = l.g.of
    BY <1>1 DEF LinkTypes, GapTypes
  <1>3. x = [l EXCEPT !.g = e]
    BY DEF x, e
  <1>4. IF on THEN \E y \in Link!Admit(x) : l' = y
        ELSE l' = Link!GapDisconnect(Link!SecurityLost(x))
    BY DEF Link!EncryptionChange, Link!Became
  <1> HIDE DEF e, x
  <1>5. x \in LinkTypes
    BY <1>1, <1>2, <1>3 DEF LinkTypes
  <1>6. CASE on
    <2>1. LinkGood(x)
      BY <1>1, <1>2, <1>3, <1>5, <1>6 DEF LinkTypes, LinkGood, Linked, Retained, Encrypted, Matched
    <2> QED
      BY <1>4, <1>6, <2>1, AdmitLinked, KeptGood DEF LinkGood
  <1>7. CASE ~on
    <2>1. x.g.up /\ (x.ses.conn => x.g.adm) /\ (x.ses.auth => x.ses.conn) /\ ~x.late
      BY <1>1, <1>2, <1>3 DEF LinkTypes, Linked, Encrypted
    <2> QED
      BY <1>4, <1>5, <1>7, <2>1, CutGood
  <1> QED
    BY <1>6, <1>7

\* A write request of the WTP characteristic.
LEMMA WtpWriteGood ==
    ASSUME LinkGood(l), Link!WtpWrite
    PROVE  LinkGood(l')
  <1>1. PICK x \in Link!Admit(l) : \E y \in Link!WriteRequest(x) : l' = y
    BY DEF Link!WtpWrite, Link!Became
  <1>2. LinkGood(x) /\ ~x.held
    BY AdmitLinked, KeptGood DEF LinkGood, WaitKept, Link!WtpWrite
  <1> QED
    BY <1>1, <1>2, WriteRequestGood

\* A write command of it, that has no answer.
LEMMA WtpWriteCommandGood ==
    ASSUME LinkGood(l), Link!WtpWriteCommand
    PROVE  LinkGood(l')
  <1>1. l \in LinkTypes /\ Linked(l) /\ l.g.up
    BY DEF LinkGood, Linked, Link!WtpWriteCommand
  <1>2. CASE ~l.g.adm \/ ~l.ses.auth
    <2>1. l' = [l EXCEPT !.w = Link!NoWrite, !.stray = @ \/ l.w.pend]
      BY <1>2 DEF Link!WtpWriteCommand
    <2>2. Link!NoWrite \in WaitTypes /\ ~Link!NoWrite.pend /\ l.w.pend \in BOOLEAN
      BY <1>1 DEF Link!NoWrite, WaitTypes, LinkTypes
    <2>3. l' \in LinkTypes
      BY <1>1, <2>1, <2>2 DEF LinkTypes
    <2> QED
      BY <1>1, <2>1, <2>2, <2>3 DEF LinkTypes, LinkGood, Linked, Retained, Encrypted, Matched
  <1>3. CASE l.g.adm /\ l.ses.auth
    <2> DEFINE x == IF Link!WtpEnabled(l) /\ (~l.w.pend \/ l.ep.open) THEN Link!EnsureEndpoint(l) ELSE l
    <2>1. LinkGood(x) /\ x.g.up
      BY <1>1, EndpointLinked, KeptGood DEF LinkGood
    <2>2. (~x.w.pend /\ l' \in Link!Received(x)) \/ l' = x
      BY <1>3 DEF Link!WtpWriteCommand, Link!Became
    <2> HIDE DEF x
    <2>3. CASE l' \in Link!Received(x)
      BY <2>1, <2>3, ReceivedLinked, KeptGood DEF LinkGood
    <2> QED
      BY <2>1, <2>2, <2>3
  <1> QED
    BY <1>1, <1>2, <1>3 DEF LinkTypes, GapTypes, SesTypes

\* A request that can no longer be served is not forgotten: the link is closed.
LEMMA CccdOffGood ==
    ASSUME NEW x, LinkGood(x), x.g.up
    PROVE  LET y == Link!CccdOff(x)
           IN  LinkGood(y) /\ y.g = x.g /\ y.ses = x.ses /\ y.ep = x.ep
  <1> DEFINE z == [x EXCEPT !.w = Link!NoWrite]
  <1>1. x \in LinkTypes /\ Linked(x)
    BY DEF LinkGood, Linked
  <1>2. Link!NoWrite \in WaitTypes /\ ~Link!NoWrite.pend
    BY DEF Link!NoWrite, WaitTypes
  <1>3. z \in LinkTypes /\ z.w = Link!NoWrite
    BY <1>1, <1>2 DEF LinkTypes
  <1>4. z.g = x.g /\ z.ses = x.ses /\ z.ep = x.ep /\ z.held = x.held /\ z.late = x.late
    BY <1>1 DEF LinkTypes
  <1>5. Link!CccdOff(x) = IF x.w.pend THEN Link!GapDisconnect(z) ELSE x
    BY DEF Link!CccdOff
  <1> HIDE DEF z
  <1>6. Linked(z)
    BY <1>1, <1>3, <1>4 DEF Linked, Encrypted, Matched
  <1>7. LinkGood(Link!GapDisconnect(z))
    BY <1>2, <1>3, <1>4, <1>6, GapGood
  <1>8. Link!GapDisconnect(z).g = z.g /\ Link!GapDisconnect(z).ses = z.ses /\ Link!GapDisconnect(z).ep = z.ep
    BY <1>3 DEF Link!GapDisconnect, LinkTypes
  <1> QED
    BY <1>4, <1>5, <1>7, <1>8

\* A field command is answered, and may have ended the session or changed who owns it.
LEMMA RepliedGood ==
    ASSUME NEW x, LinkGood(x), x.ses.conn, NEW before
    PROVE  LinkGood(Link!Replied(x, before))
  <1> DEFINE changed == before.ses.over # x.ses.over
             u == Link!EndpointClosed(x)
             y == IF changed THEN Link!CccdOff(u) ELSE x
             o == [y EXCEPT !.g.out = TRUE]
             z == Link!RequestSend(o)
             q == Link!SessionDisconnected(y)
  <1>1. x \in LinkTypes /\ Linked(x) /\ x.g.up
    BY DEF LinkGood, Linked, Encrypted
  <1>2. LinkGood(u) /\ u.g = x.g /\ u.ses = x.ses /\ ~u.ep.open
    BY <1>1, ClosedLinked, KeptGood
  <1>3. Link!Replied(x, before) =
          IF y.g.cc /\ ~y.g.out THEN IF z.ses.auth THEN Link!EnsureEndpoint(z) ELSE z
          ELSE IF changed THEN Link!GapDisconnect(q) ELSE y
    BY DEF Link!Replied
  <1> HIDE DEF u
  <1>4. /\ LinkGood(y) /\ y.g = x.g /\ y.ses = x.ses
        /\ changed => ~y.ep.open
    BY <1>1, <1>2, CccdOffGood
  <1> HIDE DEF y, changed
  <1>5. y \in LinkTypes /\ Linked(y) /\ y.g.up /\ y.g.enc
    BY <1>1, <1>4 DEF LinkGood, Linked, Encrypted
  <1>6. LinkGood(o)
    <2>1. /\ o.g \in GapTypes /\ o = [y EXCEPT !.g = o.g] /\ o.g.up /\ o.g.enc /\ o.g.adm = y.g.adm
          /\ o.g.ind = y.g.ind /\ o.g.of = y.g.of
      BY <1>5 DEF LinkTypes, GapTypes
    <2>2. o \in LinkTypes /\ WaitKept(y, o) /\ o.ses = y.ses /\ o.ep = y.ep /\ o.late = y.late
      BY <1>5, <2>1 DEF LinkTypes, WaitKept
    <2>3. Linked(o)
      BY <1>5, <2>1, <2>2 DEF Linked, WaitKept, Encrypted, Matched
    <2> QED
      BY <1>4, <2>2, <2>3, KeptGood
  <1> HIDE DEF o
  <1>7. LinkGood(z)
    BY <1>6, SendLinked, KeptGood DEF LinkGood
  <1> HIDE DEF z
  <1>8. LinkGood(Link!EnsureEndpoint(z))
    BY <1>7, EndpointLinked, KeptGood DEF LinkGood
  <1>9. ASSUME changed
        PROVE  LinkGood(Link!GapDisconnect(q))
    <2>1. /\ q \in LinkTypes /\ ~q.ses.conn /\ ~q.ses.auth
          /\ q.g = y.g /\ q.ep = y.ep /\ q.w = y.w /\ q.held = y.held /\ q.born = y.born /\ q.late = y.late
      BY <1>5, SessionTyped
    <2> HIDE DEF q
    <2>2. Linked(q) /\ q.g.up
      BY <1>4, <1>5, <1>9, <2>1 DEF Linked, Encrypted, Matched
    <2>3. q.w.pend => q.held /\ q.w.at = q.born
      BY <1>4, <2>1 DEF LinkGood, Retained
    <2> QED
      BY <2>2, <2>3, GapGood
  <1> HIDE DEF q
  <1> QED
    BY <1>3, <1>4, <1>7, <1>8, <1>9

\* The field commands that open, end and override a session.
LEMMA FieldCommandGood ==
    ASSUME LinkGood(l), NEW op, Link!FieldCommand(op)
    PROVE  LinkGood(l')
  <1>1. PICK x \in Link!Admit(l) :
          /\ x.g.adm /\ x.ses.conn
          /\ CASE op = "authorize" -> l' = Link!Replied([x EXCEPT !.ses.auth = TRUE, !.ses.prov = FALSE,
                                                           !.ses.over = FALSE], l)
               [] op = "select" -> x.ses.auth /\ l' = Link!Replied([x EXCEPT !.ses.over = TRUE], l)
               [] OTHER -> x.ses.prov /\ l' = Link!Replied(x, l)
    BY DEF Link!FieldCommand
  <1>2. LinkGood(x)
    BY AdmitLinked, KeptGood DEF LinkGood
  <1>3. x \in LinkTypes
    BY <1>2 DEF LinkGood, Linked
  <1>4. ASSUME NEW e \in SesTypes, e.conn
        PROVE  LinkGood([x EXCEPT !.ses = e]) /\ [x EXCEPT !.ses = e].ses.conn
    <2> DEFINE y == [x EXCEPT !.ses = e]
    <2>1. /\ y \in LinkTypes /\ WaitKept(x, y) /\ y.g = x.g /\ y.ep = x.ep /\ y.late = x.late /\ y.ses = e
      BY <1>3 DEF LinkTypes, WaitKept
    <2> HIDE DEF y
    <2>2. Linked(y) /\ y.ses.conn
      BY <1>1, <1>2, <1>4, <2>1 DEF LinkGood, Linked, Encrypted, Matched, WaitKept
    <2> QED
      BY <1>2, <2>1, <2>2, KeptGood DEF y
  <1> DEFINE a1 == [x.ses EXCEPT !.auth = TRUE, !.prov = FALSE, !.over = FALSE]
             a2 == [x.ses EXCEPT !.over = TRUE]
  <1>5. a1 \in SesTypes /\ a1.conn /\ a2 \in SesTypes /\ a2.conn
    BY <1>1, <1>3 DEF LinkTypes, SesTypes
  <1>6. CASE op = "authorize"
    <2>1. l' = Link!Replied([x EXCEPT !.ses = a1], l)
      BY <1>1, <1>3, <1>6 DEF LinkTypes, SesTypes
    <2> HIDE DEF a1
    <2> QED
      BY <1>4, <1>5, <2>1, RepliedGood
  <1>7. CASE op = "select"
    <2>1. l' = Link!Replied([x EXCEPT !.ses = a2], l)
      BY <1>1, <1>3, <1>7
    <2> HIDE DEF a2
    <2> QED
      BY <1>4, <1>5, <2>1, RepliedGood
  <1>8. CASE op # "authorize" /\ op # "select"
    BY <1>1, <1>2, <1>8, RepliedGood
  <1> QED
    BY <1>6, <1>7, <1>8

\* An update of the connection record alone.
LEMMA GapLinked ==
    ASSUME NEW x, LinkGood(x), NEW e \in GapTypes,
           e.up = x.g.up, e.enc = x.g.enc, e.adm = x.g.adm, e.out => x.g.out,
           e.ind = "wtp" /\ x.ep.open => e.of = x.ep.gen
    PROVE  LinkGood([x EXCEPT !.g = e]) /\ [x EXCEPT !.g = e].g = e
  <1> DEFINE y == [x EXCEPT !.g = e]
  <1>1. x \in LinkTypes /\ Linked(x)
    BY DEF LinkGood, Linked
  <1>2. /\ y \in LinkTypes /\ WaitKept(x, y) /\ y.g = e /\ y.ses = x.ses /\ y.ep = x.ep /\ y.late = x.late
    BY <1>1 DEF LinkTypes, WaitKept
  <1> HIDE DEF y
  <1>3. Linked(y)
    BY <1>1, <1>2 DEF Linked, Encrypted, Matched, WaitKept
  <1> QED
    BY <1>2, <1>3, KeptGood DEF y

\* The stack can send: one indication goes out.
LEMMA CanSendGood ==
    ASSUME LinkGood(l), NEW works \in BOOLEAN, Link!CanSend(works)
    PROVE  LinkGood(l')
  <1> DEFINE e == [l.g EXCEPT !.req = FALSE]
             x == [l EXCEPT !.g.req = FALSE]
             e1 == [x.g EXCEPT !.ind = "field"]
             e2 == [x.g EXCEPT !.ind = "wtp", !.of = x.ep.gen]
             y == CASE x.g.ind # "none" -> x
                    [] x.g.ind = "none" /\ x.g.out -> [x EXCEPT !.g = e1]
                    [] x.g.ind = "none" /\ ~x.g.out /\ Link!OutputPending(x) -> [x EXCEPT !.g = e2]
                    [] OTHER -> x
  <1>1. l \in LinkTypes /\ Linked(l)
    BY DEF LinkGood, Linked
  <1>2. /\ e \in GapTypes /\ e.up = l.g.up /\ e.enc = l.g.enc /\ e.adm = l.g.adm /\ e.out = l.g.out
        /\ e.ind = l.g.ind /\ e.of = l.g.of
    BY <1>1 DEF LinkTypes, GapTypes
  <1>3. LinkGood([l EXCEPT !.g = e])
    <2> HIDE DEF e
    <2>1. e.ind = "wtp" /\ l.ep.open => e.of = l.ep.gen
      BY <1>1, <1>2 DEF Linked, Matched
    <2> QED
      BY <1>2, <2>1, GapLinked
  <1>4. LinkGood(x)
    BY <1>3
  <1>5. l' = IF y.g.ind = x.g.ind \/ works THEN y ELSE Link!GapDisconnect(x)
    <2> DEFINE y0 == CASE x.g.ind # "none" -> x
                  [] x.g.ind = "none" /\ x.g.out -> [x EXCEPT !.g.ind = "field"]
                  [] x.g.ind = "none" /\ ~x.g.out /\ Link!OutputPending(x) ->
                         [x EXCEPT !.g.ind = "wtp", !.g.of = x.ep.gen]
                  [] OTHER -> x
    <2>1. l' = IF y0.g.ind = x.g.ind \/ works THEN y0 ELSE Link!GapDisconnect(x)
      BY DEF Link!CanSend
    <2>2. x \in LinkTypes
      BY <1>4 DEF LinkGood, Linked
    <2> HIDE DEF x
    <2>3. [x EXCEPT !.g.ind = "wtp", !.g.of = x.ep.gen] = [x EXCEPT !.g = e2]
      BY <2>2 DEF LinkTypes, GapTypes
    <2>4. y0 = y
      BY <2>3
    <2> HIDE DEF y0, y
    <2> QED
      BY <2>1, <2>4
  <1> HIDE DEF x
  <1>6. x \in LinkTypes
    BY <1>4 DEF LinkGood, Linked
  <1>7. /\ e1 \in GapTypes /\ e1.up = x.g.up /\ e1.enc = x.g.enc /\ e1.adm = x.g.adm /\ e1.out = x.g.out
        /\ e1.ind = "field"
    BY <1>6 DEF LinkTypes, GapTypes
  <1>8. /\ e2 \in GapTypes /\ e2.up = x.g.up /\ e2.enc = x.g.enc /\ e2.adm = x.g.adm /\ e2.out = x.g.out
        /\ e2.of = x.ep.gen
    BY <1>6 DEF LinkTypes, GapTypes, EpTypes
  <1>9. LinkGood([x EXCEPT !.g = e1])
    BY <1>4, <1>7, GapLinked
  <1>10. LinkGood([x EXCEPT !.g = e2])
    BY <1>4, <1>8, GapLinked
  <1> HIDE DEF e1, e2
  <1>11. LinkGood(y)
    BY <1>4, <1>9, <1>10
  <1>12. CASE l' = y
    BY <1>11, <1>12
  <1>13. CASE l' = Link!GapDisconnect(x) /\ y.g.ind # x.g.ind
    <2>1. x.g.out \/ Link!OutputPending(x)
      BY <1>13
    <2>2. x.g.up
      BY <1>4, <2>1 DEF Link!OutputPending, LinkGood, Linked, Encrypted
    <2> QED
      BY <1>4, <1>13, <2>2, GapGood DEF LinkGood, Retained
  <1> QED
    BY <1>5, <1>12, <1>13

\* The peer confirmed an indication.
LEMMA IndicationGood ==
    ASSUME LinkGood(l), NEW works \in BOOLEAN, Link!IndicationComplete(works)
    PROVE  LinkGood(l')
  <1> DEFINE e == [l.g EXCEPT !.ind = "none", !.of = 0, !.out = IF l.g.ind = "field" THEN FALSE ELSE @]
             p == [l.ep EXCEPT !.out = IF l.g.ind = "wtp" /\ l.ep.open THEN FALSE ELSE @]
             x == [l EXCEPT !.g = e]
             y == [x EXCEPT !.ep = p]
  <1>1. l \in LinkTypes /\ Linked(l) /\ l.g.up
    BY DEF LinkGood, Linked, Link!IndicationComplete
  <1>2. CASE ~works
    BY <1>1, <1>2, GapGood DEF Link!IndicationComplete, LinkGood, Retained
  <1>3. CASE works
    <2>1. /\ e \in GapTypes /\ e.up = l.g.up /\ e.enc = l.g.enc /\ e.adm = l.g.adm /\ (e.out => l.g.out)
          /\ e.ind = "none"
      BY <1>1 DEF LinkTypes, GapTypes
    <2>2. p \in EpTypes /\ p.open = l.ep.open /\ p.gen = l.ep.gen
      BY <1>1 DEF LinkTypes, EpTypes
    <2>3. l' = Link!RequestSend([l EXCEPT !.g = e, !.ep = p])
      <3>1. l' = Link!RequestSend([l EXCEPT !.g.ind = "none", !.g.of = 0,
                               !.g.out = IF l.g.ind = "field" THEN FALSE ELSE @,
                               !.ep.out = IF l.g.ind = "wtp" /\ l.ep.open THEN FALSE ELSE @])
        BY <1>3 DEF Link!IndicationComplete
      <3>2. [l EXCEPT !.g.ind = "none", !.g.of = 0,
                               !.g.out = IF l.g.ind = "field" THEN FALSE ELSE @,
                               !.ep.out = IF l.g.ind = "wtp" /\ l.ep.open THEN FALSE ELSE @]
            = [l EXCEPT !.g = e, !.ep = p]
        BY <1>1 DEF LinkTypes, GapTypes, EpTypes
      <3> HIDE DEF e, p
      <3> QED
        BY <3>1, <3>2
    <2> HIDE DEF e, p
    <2>4. LinkGood(x)
      BY <2>1, GapLinked
    <2>5. x.ep = l.ep /\ [l EXCEPT !.g = e, !.ep = p] = y
      BY <1>1 DEF LinkTypes
    <2> HIDE DEF x
    <2>6. LinkGood(y)
      BY <2>2, <2>4, <2>5, BytesLinked, KeptGood DEF LinkGood
    <2> HIDE DEF y
    <2>7. LinkGood(Link!RequestSend(y))
      BY <2>6, SendLinked, KeptGood DEF LinkGood
    <2> QED
      BY <2>3, <2>5, <2>7
  <1> QED
    BY <1>2, <1>3

\* The loop of the application visits the link.
LEMMA PollGood ==
    ASSUME LinkGood(l), NEW expired \in BOOLEAN, Link!Poll(expired)
    PROVE  LinkGood(l')
  <1>1. l \in LinkTypes /\ Linked(l) /\ l.g.up
    BY DEF LinkGood, Linked, Link!Poll
  <1>2. CASE expired
    <2> DEFINE q == Link!SessionDisconnected(l)
    <2>1. /\ q \in LinkTypes /\ ~q.ses.conn /\ ~q.ses.auth /\ q.g = l.g /\ q.late = l.late
      BY <1>1, SessionTyped
    <2>2. l' = Link!GapDisconnect(Link!SecurityLost(q))
      BY <1>2 DEF Link!Poll
    <2> HIDE DEF q
    <2> QED
      BY <1>1, <2>1, <2>2, CutGood DEF Linked
  <1>3. CASE ~expired
    <2> DEFINE x == IF l.ep.open /\ ~l.ses.auth THEN Link!EndpointClosed(l) ELSE l
               y == Link!RequestSend(x)
    <2>1. l' \in Link!Resume(y)
      BY <1>3 DEF Link!Poll, Link!Became
    <2>2. LinkGood(x) /\ x.g.up
      BY <1>1, ClosedLinked, KeptGood
    <2> HIDE DEF x
    <2>3. LinkGood(y) /\ y.g.up
      BY <2>2, SendLinked, KeptGood DEF LinkGood
    <2> HIDE DEF y
    <2> QED
      BY <2>1, <2>3, ResumeGood
  <1> QED
    BY <1>2, <1>3

\* A peer connects.
LEMMA ConnectionGood ==
    ASSUME LinkGood(l), Link!ConnectionComplete
    PROVE  LinkGood(l')
  <1> DEFINE e == [Link!Down EXCEPT !.up = TRUE]
  <1>1. l \in LinkTypes /\ Linked(l) /\ ~l.g.up /\ ~l.held /\ ~l.ep.open /\ ~l.ses.conn /\ ~l.ses.auth
    BY DEF LinkGood, Linked, Encrypted, Link!ConnectionComplete
  <1>2. e \in GapTypes /\ ~e.out /\ e.ind = "none"
    BY DEF GapTypes, Link!Down
  <1>3. l' = [l EXCEPT !.g = e]
    BY DEF Link!ConnectionComplete
  <1> HIDE DEF e
  <1>4. /\ l' \in LinkTypes /\ WaitKept(l, l') /\ l'.g = e /\ l'.ses = l.ses /\ l'.ep = l.ep /\ l'.late = l.late
    BY <1>1, <1>2, <1>3 DEF LinkTypes, WaitKept
  <1>5. Linked(l')
    BY <1>1, <1>2, <1>4 DEF Linked, Encrypted, Matched, WaitKept
  <1> QED
    BY <1>4, <1>5, KeptGood

\* The authority of the session ends elsewhere.
LEMMA AuthorityGood ==
    ASSUME LinkGood(l), Link!AuthorityLost
    PROVE  LinkGood(l')
  <1> DEFINE e == [l.ses EXCEPT !.auth = FALSE]
  <1>1. l \in LinkTypes /\ Linked(l)
    BY DEF LinkGood, Linked
  <1>2. e \in SesTypes /\ e.conn = l.ses.conn /\ ~e.auth
    BY <1>1 DEF LinkTypes, SesTypes
  <1>3. l' = [l EXCEPT !.ses = e]
    BY DEF Link!AuthorityLost
  <1> HIDE DEF e
  <1>4. /\ l' \in LinkTypes /\ WaitKept(l, l') /\ l'.ses = e /\ l'.g = l.g /\ l'.ep = l.ep /\ l'.late = l.late
    BY <1>1, <1>2, <1>3 DEF LinkTypes, WaitKept
  <1>5. Linked(l')
    BY <1>1, <1>2, <1>4 DEF Linked, Encrypted, Matched, WaitKept
  <1> QED
    BY <1>4, <1>5, KeptGood

\* The endpoint takes bytes again, and has an answer.
LEMMA ReadyGood ==
    ASSUME LinkGood(l), Link!EndpointReady
    PROVE  LinkGood(l')
  <1> DEFINE p == [l.ep EXCEPT !.full = FALSE, !.out = TRUE]
  <1>1. l \in LinkTypes /\ Linked(l)
    BY DEF LinkGood, Linked
  <1>2. p \in EpTypes /\ p.open = l.ep.open /\ p.gen = l.ep.gen
    BY <1>1 DEF LinkTypes, EpTypes
  <1>3. l' = [l EXCEPT !.ep = p]
    BY DEF Link!EndpointReady
  <1> HIDE DEF p
  <1> QED
    BY <1>1, <1>2, <1>3, BytesLinked, KeptGood

\* Time passes.
LEMMA TickGood ==
    ASSUME LinkGood(l), Link!Tick
    PROVE  LinkGood(l')
  <1>1. l \in LinkTypes /\ Linked(l)
    BY DEF LinkGood, Linked
  <1>2. l' = [l EXCEPT !.clk = @ + 1] /\ l' \in LinkTypes
    BY <1>1 DEF Link!Tick, LinkTypes
  <1> QED
    BY <1>1, <1>2 DEF LinkGood, LinkTypes, Linked, Retained, Encrypted, Matched

\* The link before a peer connects.
LEMMA LinkInit ==
    ASSUME Link!Init
    PROVE  LinkGood(l)
  BY DEF Link!Init, Link!Down, Link!NoSession, Link!NoWrite, LinkGood, LinkTypes, GapTypes, SesTypes, EpTypes,
         WaitTypes, Linked, Retained, Encrypted, Matched

\* Every action of the link keeps the invariant.
LEMMA LinkStep ==
    ASSUME LinkGood(l), Link!Next
    PROVE  LinkGood(l')
  <1>1. CASE Link!PairingRefused
    BY <1>1, GapGood DEF Link!PairingRefused, LinkGood, Retained
  <1>2. CASE Link!DisconnectionComplete \/ Link!Stop
    BY <1>2, DownGood DEF Link!DisconnectionComplete, Link!Stop
  <1> QED
    BY <1>1, <1>2, ConnectionGood, IdentityGood, EncryptionGood, CccdGood, WtpWriteGood, WtpWriteCommandGood,
       FieldCommandGood, CanSendGood, IndicationGood, PollGood, AuthorityGood, ReadyGood, TickGood
    DEF Link!Next

\* The invariant has what the link promises.
LEMMA LinkGoodSound ==
    ASSUME LinkGood(l)
    PROVE  Link!CompletionMatched /\ Link!RequestKept /\ Link!SilentWhenLost
  BY DEF LinkGood, Linked, Retained, Encrypted, Matched, Link!CompletionMatched, Link!RequestKept,
         Link!SilentWhenLost, Link!OutputPending

\* Every write request held by the stack is answered or waits until its deadline,
\* an indication completes at the endpoint that sent it, and a link whose
\* encryption or session is lost has no endpoint and no output left: the
\* connection handling of the GATT service (wtp_gatt_server.cpp).
THEOREM LinkHolds == Spec => []LinkSound
  <1> DEFINE Inv == focus = "link" => LinkGood(l)
  <1>1. Init => Inv
    BY LinkInit DEF Init
  <1>2. Inv /\ [Next]_vars => Inv'
    <2> SUFFICES ASSUME Inv, [Next]_vars PROVE Inv'
      OBVIOUS
    <2>1. CASE UNCHANGED vars
      BY <2>1 DEF vars
    <2>2. CASE Next
      <3>1. CASE focus = "link"
        BY <2>2, <3>1, LinkStep DEF Next
      <3>2. CASE focus # "link"
        BY <2>2, <3>2 DEF Next
      <3> QED
        BY <3>1, <3>2
    <2> QED
      BY <2>1, <2>2
  <1>3. Inv => LinkSound
    BY LinkGoodSound DEF LinkSound
  <1> QED
    BY <1>1, <1>2, <1>3, PTL DEF Spec

-----------------------------------------------------------------------------
(***************************************************************************)
(* The window. WindowSound is about the ends of turns of the loop; within  *)
(* one the coordinator passes through states of its own, so the invariant  *)
(* comes in parts that each step of the poll keeps (FieldGood) and in one  *)
(* that relates them to the history (FieldInv).                            *)
(***************************************************************************)

\* The fields of the coordinator, and the types of those the window depends on.
FieldNames ==
    {"blank", "temp", "field", "st", "seen", "chg", "fb", "req", "rdy", "reply", "tok", "grace", "graceAt",
     "man", "held", "drain", "drainAt", "act", "actAt", "exp", "expAt", "armed", "cl", "hold", "run"}

\* The coordinator is well typed in what the window depends on.
FieldTyped(x) ==
    /\ DOMAIN x = FieldNames
    /\ x.field \in BOOLEAN /\ x.st \in BOOLEAN /\ x.seen \in BOOLEAN /\ x.fb \in BOOLEAN
    /\ x.req \in BOOLEAN /\ x.rdy \in BOOLEAN /\ x.act \in BOOLEAN /\ x.exp \in BOOLEAN
    /\ x.armed \in BOOLEAN /\ x.cl \in BOOLEAN
    /\ x.chg \in Nat /\ x.actAt \in Nat /\ x.expAt \in Nat

\* What the history of the window keeps: the loop that ended, and when it was asked for.
HistoryTypes == [clk : Nat, polled : BOOLEAN, asked : Nat, win : Nat, down : Int, last : Nat]

\* An access point that is ready is wanted, and its window runs.
Serving(x) == x.rdy => x.req /\ x.act /\ ~x.exp

\* The fallback is armed or in force; in force, access was offered up to an expiry.
Covered(x, k) ==
    /\ x.armed \/ x.fb
    /\ x.st => x.seen
    /\ x.exp => x.expAt <= k.clk
    /\ x.fb /\ x.exp => k.last >= x.expAt - 1

\* While the fallback is in force and a window runs, access was offered when the last loop ended.
Offered(x, k) == x.fb /\ ~x.exp /\ x.act => k.last >= k.clk - 1

\* The coordinator at any time within a loop.
FieldGood(x, k) == FieldTyped(x) /\ Serving(x) /\ Covered(x, k)

\* What the poll leaves alone.
Same(x, y) ==
    /\ y.cl = x.cl /\ y.field = x.field /\ y.chg = x.chg /\ y.seen = x.seen /\ y.st = x.st
    /\ y.actAt = x.actAt

\* An access point that was ready stays so, or its window ends now.
Lasts(x, y) == x.rdy => y.rdy \/ (y.exp /\ y.expAt = h.clk)

\* A window that runs out has ended.
NotDue(x) == x.rdy /\ ~x.field /\ ~x.cl => ~Field!Elapsed(x.actAt, Manual)

\* A window that runs out closes the access point, and only then.
LEMMA ExpireGood ==
    ASSUME h \in HistoryTypes, NEW x, FieldGood(x, h), Offered(x, h)
    PROVE  LET y == Field!Expire(x)
           IN  FieldGood(y, h) /\ Same(x, y) /\ Lasts(x, y) /\ NotDue(y) /\ y.armed = x.armed
  <1> DEFINE y == IF x.field /\ x.exp THEN [x EXCEPT !.exp = FALSE, !.act = FALSE] ELSE x
             z == [y EXCEPT !.exp = TRUE, !.expAt = h.clk, !.man = FALSE, !.grace = FALSE,
                            !.drain = FALSE, !.rdy = FALSE, !.req = FALSE, !.hold = FALSE]
  <1>1. FieldTyped(x) /\ h.clk \in Nat
    BY DEF FieldGood, HistoryTypes
  <1>2. Field!Expire(x) = IF ~y.field /\ ~y.exp /\ y.act /\ ~y.cl /\ Field!Elapsed(y.actAt, Manual) THEN z ELSE y
    BY DEF Field!Expire
  <1>3. FieldTyped(y)
    BY <1>1 DEF FieldTyped, FieldNames
  <1>4. /\ Same(x, y) /\ y.armed = x.armed /\ y.fb = x.fb /\ y.expAt = x.expAt /\ y.rdy = x.rdy /\ y.req = x.req
        /\ (x.field /\ x.exp) \/ (y.exp = x.exp /\ y.act = x.act)
        /\ x.field /\ x.exp => ~y.exp /\ ~y.act
    BY <1>1 DEF FieldTyped, FieldNames, Same
  <1> HIDE DEF y
  <1>5. FieldGood(y, h) /\ Lasts(x, y)
    BY <1>3, <1>4 DEF FieldGood, Serving, Covered, Same, Lasts
  <1>6. FieldTyped(z)
    BY <1>1, <1>3 DEF FieldTyped, FieldNames
  <1>7. /\ Same(y, z) /\ z.armed = y.armed /\ z.fb = y.fb /\ z.expAt = h.clk /\ ~z.rdy /\ ~z.req /\ z.exp
        /\ z.act = y.act
    BY <1>3 DEF FieldTyped, FieldNames, Same
  <1> HIDE DEF z
  <1>8. CASE ~y.field /\ ~y.exp /\ y.act /\ ~y.cl /\ Field!Elapsed(y.actAt, Manual)
    <2>1. y.fb => h.last >= h.clk - 1
      BY <1>4, <1>8 DEF Offered
    <2>3. FieldGood(z, h)
      BY <1>1, <1>5, <1>6, <1>7, <1>8, <2>1 DEF FieldGood, Serving, Covered, Same
    <2>2. Same(x, z) /\ Lasts(x, z) /\ NotDue(z) /\ z.armed = x.armed
      BY <1>4, <1>7 DEF Same, Lasts, NotDue
    <2> QED
      BY <1>2, <1>8, <2>2, <2>3
  <1>9. CASE ~(~y.field /\ ~y.exp /\ y.act /\ ~y.cl /\ Field!Elapsed(y.actAt, Manual))
    <2>1. NotDue(y)
      BY <1>5, <1>9 DEF FieldGood, Serving, NotDue
    <2> QED
      BY <1>2, <1>4, <1>5, <1>9, <2>1
  <1> QED
    BY <1>8, <1>9

\* A station that has been there long enough arms the fallback.
Armed(x) == x.st /\ Field!Elapsed(x.chg, Stable) => x.armed

\* A lease that is dropped leaves the window alone.
LEMMA LeasesGood ==
    ASSUME h \in HistoryTypes, NEW x, FieldGood(x, h)
    PROVE  LET y == Field!Leases(x)
           IN  /\ FieldGood(y, h) /\ Same(x, y) /\ Armed(y) /\ (y.armed => x.armed \/ y.st)
               /\ y.rdy = x.rdy /\ y.exp = x.exp /\ y.expAt = x.expAt
  <1> DEFINE y == Field!Leases(x)
             p == x.armed \/ Field!StableStation(x)
             q == Field!Gracing(x)
             r == Field!ManualSetup(x)
  <1>1. FieldTyped(x)
    BY DEF FieldGood
  <1>2. p \in BOOLEAN /\ q \in BOOLEAN /\ r \in BOOLEAN
    BY DEF Field!Gracing, Field!ManualSetup
  <1>3. y = [x EXCEPT !.armed = p, !.grace = q, !.man = r]
    BY DEF Field!Leases
  <1>4. p <=> x.armed \/ (x.seen /\ x.st /\ Field!Elapsed(x.chg, Stable))
    BY DEF Field!StableStation
  <1> HIDE DEF p, q, r, y
  <1>5. FieldTyped(y)
    BY <1>1, <1>2, <1>3 DEF FieldTyped, FieldNames
  <1>6. /\ Same(x, y) /\ y.armed = p /\ y.fb = x.fb /\ y.expAt = x.expAt /\ y.rdy = x.rdy /\ y.req = x.req
        /\ y.exp = x.exp /\ y.act = x.act
    BY <1>1, <1>3 DEF FieldTyped, FieldNames, Same
  <1>7. FieldGood(y, h) /\ Armed(y) /\ (y.armed => x.armed \/ y.st)
    BY <1>4, <1>5, <1>6 DEF FieldGood, Serving, Covered, Same, Armed
  <1> QED
    BY <1>6, <1>7 DEF y

\* An outage that lasts arms the fallback.
LEMMA OutageGood ==
    ASSUME h \in HistoryTypes, NEW x, FieldGood(x, h), Armed(x)
    PROVE  LET y == Field!Outage(x)
           IN  /\ FieldGood(y, h) /\ Same(x, y) /\ Armed(y)
               /\ (y.rdy = x.rdy /\ y.exp = x.exp /\ y.expAt = x.expAt /\ y.armed = x.armed) \/ (x.armed /\ ~x.st /\ ~y.armed)
               /\ y.rdy = x.rdy
               /\ y.seen /\ ~y.st /\ Field!Elapsed(y.chg, Fallback) => y.fb
  <1> DEFINE y == [x EXCEPT !.armed = FALSE, !.fb = TRUE, !.exp = FALSE, !.act = @ /\ ~x.exp]
  <1>1. FieldTyped(x)
    BY DEF FieldGood
  <1>2. FieldTyped(y)
    BY <1>1 DEF FieldTyped, FieldNames
  <1>3. /\ Same(x, y) /\ ~y.armed /\ y.fb /\ y.expAt = x.expAt /\ y.rdy = x.rdy /\ y.req = x.req
        /\ ~y.exp /\ (y.act <=> x.act /\ ~x.exp)
    BY <1>1 DEF FieldTyped, FieldNames, Same
  <1> HIDE DEF y
  <1> DEFINE due == x.seen /\ ~x.st /\ x.armed /\ Field!Elapsed(x.chg, Fallback)
  <1>4. Field!Outage(x) = IF due THEN y ELSE x
    BY DEF Field!Outage, y
  <1>5. CASE due
    <2>1. x.armed /\ ~x.st
      BY <1>5
    <2> QED
      BY <1>2, <1>3, <1>4, <1>5, <2>1 DEF FieldGood, Serving, Covered, Same, Armed
  <1>6. CASE ~due
    BY <1>4, <1>6 DEF FieldGood, Covered, Same
  <1> QED
    BY <1>5, <1>6

\* An expiry is not undone before the reopening period is over.
LEMMA ReopenedGood ==
    ASSUME h \in HistoryTypes, NEW x, FieldGood(x, h), Armed(x)
    PROVE  LET y == Field!Reopened(x)
           IN  /\ FieldGood(y, h) /\ Same(x, y) /\ Armed(y)
               /\ y.rdy = x.rdy /\ y.armed = x.armed /\ y.expAt = x.expAt /\ y.fb = x.fb
               /\ x.exp /\ x.expAt = h.clk => y.exp
               /\ y.exp => x.exp
               /\ y.fb /\ ~y.st /\ y.exp => h.clk - y.expAt < Reopen
  <1> DEFINE y == [x EXCEPT !.exp = FALSE, !.act = FALSE, !.hold = FALSE]
             past == x.exp /\ x.fb /\ ~x.st /\ Field!Elapsed(x.expAt, Reopen)
  <1>1. FieldTyped(x) /\ h.clk \in Nat /\ Reopen \in Nat /\ Reopen > 0
    BY PeriodsAssumption DEF FieldGood, HistoryTypes
  <1>2. FieldTyped(y)
    BY <1>1 DEF FieldTyped, FieldNames
  <1>3. /\ Same(x, y) /\ y.armed = x.armed /\ y.fb = x.fb /\ y.expAt = x.expAt /\ y.rdy = x.rdy /\ y.req = x.req
        /\ ~y.exp /\ ~y.act
    BY <1>1 DEF FieldTyped, FieldNames, Same
  <1>4. Field!Reopened(x) = IF past THEN y ELSE x
    BY DEF Field!Reopened
  <1> HIDE DEF y
  <1>5. CASE past
    <2>1. x.exp /\ x.expAt # h.clk
      BY <1>1, <1>5 DEF Field!Elapsed, FieldTyped
    <2>2. FieldGood(y, h) /\ Armed(y)
      BY <1>2, <1>3, <2>1 DEF FieldGood, Serving, Covered, Same, Armed
    <2> QED
      BY <1>3, <1>4, <1>5, <2>1, <2>2
  <1>6. CASE ~past
    <2>1. x.fb /\ ~x.st /\ x.exp => h.clk - x.expAt < Reopen
      BY <1>1, <1>6 DEF Field!Elapsed, FieldTyped
    <2> QED
      BY <1>4, <1>6, <2>1 DEF Same
  <1> QED
    BY <1>5, <1>6

\* A network that is back ends the fallback.
LEMMA RecoveredGood ==
    ASSUME h \in HistoryTypes, NEW x, FieldGood(x, h), Armed(x)
    PROVE  LET y == Field!Recovered(x)
           IN  /\ FieldGood(y, h) /\ Same(x, y)
               /\ y.rdy = x.rdy /\ y.armed = x.armed /\ y.expAt = x.expAt /\ y.exp = x.exp
               /\ (y.fb => x.fb) /\ (~y.st => y.fb = x.fb)
  <1> DEFINE y == [x EXCEPT !.fb = FALSE]
             back == x.st /\ Field!Elapsed(x.chg, Stable)
  <1>1. FieldTyped(x)
    BY DEF FieldGood
  <1>2. FieldTyped(y)
    BY <1>1 DEF FieldTyped, FieldNames
  <1>3. /\ Same(x, y) /\ y.armed = x.armed /\ ~y.fb /\ y.expAt = x.expAt /\ y.rdy = x.rdy /\ y.req = x.req
        /\ y.exp = x.exp /\ y.act = x.act
    BY <1>1 DEF FieldTyped, FieldNames, Same
  <1>4. (back /\ Field!Recovered(x) = y) \/ Field!Recovered(x) = x
    BY DEF Field!Recovered
  <1> HIDE DEF y
  <1>5. CASE back /\ Field!Recovered(x) = y
    <2>1. x.armed /\ x.st
      BY <1>5 DEF Armed
    <2>2. FieldGood(y, h)
      BY <1>2, <1>3, <2>1 DEF FieldGood, Serving, Covered, Same
    <2> QED
      BY <1>3, <1>5, <2>1, <2>2 DEF Same
  <1>6. CASE Field!Recovered(x) = x
    BY <1>6 DEF Same
  <1> QED
    BY <1>4, <1>5, <1>6

\* What is wanted is offered: the fallback opens the access point.
LEMMA DecideGood ==
    ASSUME h \in HistoryTypes, NEW x, FieldGood(x, h)
    PROVE  LET y == Field!Decide(x)
           IN  /\ FieldGood(y, h) /\ Same(x, y)
               /\ y.armed = x.armed /\ y.expAt = x.expAt /\ y.exp = x.exp /\ y.fb = x.fb /\ y.act = x.act
               /\ y.fb /\ ~y.exp => y.req
               /\ (y.rdy <=> x.rdy /\ y.req) /\ (y.req => ~y.exp)
  <1> DEFINE want == ~x.exp /\ (x.blank \/ x.field \/ x.fb \/ Field!Retained(x))
             start == ~want /\ ~x.exp /\ x.temp /\ x.req /\ x.reply /\ ~x.drain
             b == ~want /\ (x.drain \/ start)
             t == IF start THEN h.clk ELSE x.drainAt
             y == [x EXCEPT !.drain = b, !.drainAt = t]
             on == want \/ (~y.exp /\ y.drain /\ y.reply /\ ~Field!Elapsed(y.drainAt, Drain))
             r == y.rdy /\ on
             z == [y EXCEPT !.req = on, !.rdy = r]
  <1>1. FieldTyped(x)
    BY DEF FieldGood
  <1>2. Field!Decide(x) = z
    BY DEF Field!Decide
  <1>3. (x.fb /\ ~x.exp => want) /\ (want => ~x.exp)
    OBVIOUS
  <1> HIDE DEF want, start, b, t
  <1>4. FieldTyped(y)
    BY <1>1 DEF FieldTyped, FieldNames
  <1>5. /\ Same(x, y) /\ y.armed = x.armed /\ y.fb = x.fb /\ y.expAt = x.expAt /\ y.rdy = x.rdy
        /\ y.exp = x.exp /\ y.act = x.act
    BY <1>1 DEF FieldTyped, FieldNames, Same
  <1> HIDE DEF y
  <1>6. (x.fb /\ ~x.exp => on) /\ (on => ~x.exp) /\ on \in BOOLEAN /\ r \in BOOLEAN /\ (r <=> x.rdy /\ on)
    BY <1>3, <1>4, <1>5
  <1> HIDE DEF on, r
  <1>7. FieldTyped(z)
    BY <1>4, <1>6 DEF FieldTyped, FieldNames
  <1>8. /\ Same(x, z) /\ z.armed = x.armed /\ z.fb = x.fb /\ z.expAt = x.expAt
        /\ z.exp = x.exp /\ z.act = x.act /\ z.rdy = r /\ z.req = on
    BY <1>4, <1>5 DEF FieldTyped, FieldNames, Same
  <1> HIDE DEF z
  <1>9. FieldGood(z, h)
    BY <1>6, <1>7, <1>8 DEF FieldGood, Serving, Covered, Same
  <1> QED
    BY <1>2, <1>6, <1>8, <1>9

\* What is forgotten at the end of a poll is not of the window.
LEMMA ForgetGood ==
    ASSUME h \in HistoryTypes, NEW x, FieldGood(x, h)
    PROVE  LET y == Field!Forget(x)
           IN  /\ FieldGood(y, h)
               /\ y.cl = x.cl /\ y.field = x.field /\ y.chg = x.chg /\ y.seen = x.seen /\ y.st = x.st
               /\ y.actAt \in {0, x.actAt} /\ (y.act => y.actAt = x.actAt)
               /\ y.armed = x.armed /\ y.exp = x.exp /\ y.fb = x.fb /\ y.act = x.act
               /\ y.rdy = x.rdy /\ y.req = x.req /\ (y.exp => y.expAt = x.expAt)
  <1> DEFINE t1 == IF x.grace THEN x.graceAt ELSE 0
             t2 == IF x.act THEN x.actAt ELSE 0
             t3 == IF x.exp THEN x.expAt ELSE 0
             t4 == IF x.drain THEN x.drainAt ELSE 0
             y == [x EXCEPT !.graceAt = t1, !.actAt = t2, !.expAt = t3, !.drainAt = t4]
  <1>1. FieldTyped(x)
    BY DEF FieldGood
  <1>2. Field!Forget(x) = y
    BY DEF Field!Forget
  <1>3. /\ t2 \in Nat /\ t3 \in Nat /\ t2 \in {0, x.actAt} /\ (x.act => t2 = x.actAt) /\ (x.exp => t3 = x.expAt)
    BY <1>1 DEF FieldTyped
  <1> HIDE DEF t1, t2, t3, t4
  <1>4. FieldTyped(y)
    BY <1>1, <1>3 DEF FieldTyped, FieldNames
  <1>5. /\ y.armed = x.armed /\ y.fb = x.fb /\ y.rdy = x.rdy
        /\ y.exp = x.exp /\ y.act = x.act /\ y.expAt = t3 /\ y.actAt = t2 /\ y.req = x.req
        /\ y.cl = x.cl /\ y.field = x.field /\ y.chg = x.chg /\ y.seen = x.seen /\ y.st = x.st
    BY <1>1 DEF FieldTyped, FieldNames
  <1> HIDE DEF y
  <1>6. FieldGood(y, h)
    BY <1>3, <1>4, <1>5 DEF FieldGood, Serving, Covered
  <1> QED
    BY <1>2, <1>3, <1>5, <1>6

\* What a poll leaves, and what it guarantees: an access point that was ready and is still wanted
\* stays ready but for a new outage, a window that is over has ended, and a lost station is
\* covered or was until a moment ago.
Polled(x, y) ==
    /\ y.cl = x.cl /\ y.field = x.field /\ y.chg = x.chg /\ y.seen = x.seen /\ y.st = x.st
    /\ y.actAt \in {0, x.actAt} /\ (y.act => y.actAt = x.actAt)
    /\ x.rdy /\ y.req /\ ~y.rdy => x.armed /\ ~y.armed
    /\ NotDue(y)
    /\ y.seen /\ ~y.st /\ Field!Elapsed(y.chg, Fallback) => y.req \/ h.clk - h.last <= Reopen
    /\ y.fb /\ ~y.exp => y.req
    /\ y.req => ~y.exp

\* The poll as a whole.
LEMMA PollPolled ==
    ASSUME h \in HistoryTypes, NEW x, FieldGood(x, h), Offered(x, h)
    PROVE  FieldGood(Field!Poll(x), h) /\ Polled(x, Field!Poll(x))
  <1> DEFINE x1 == Field!Expire(x)
             x2 == Field!Leases(x1)
             x3 == Field!Outage(x2)
             x4 == Field!Reopened(x3)
             x5 == Field!Recovered(x4)
             x6 == Field!Decide(x5)
             y == Field!Forget(x6)
  <1>1. FieldGood(x1, h) /\ Same(x, x1) /\ Lasts(x, x1) /\ NotDue(x1) /\ x1.armed = x.armed
    BY ExpireGood
  <1> HIDE DEF x1
  <1>2. /\ FieldGood(x2, h) /\ Same(x1, x2) /\ Armed(x2) /\ (x2.armed => x1.armed \/ x2.st)
        /\ x2.rdy = x1.rdy /\ x2.exp = x1.exp /\ x2.expAt = x1.expAt
    BY <1>1, LeasesGood
  <1> HIDE DEF x2
  <1>3. /\ FieldGood(x3, h) /\ Same(x2, x3) /\ Armed(x3)
        /\ (x3.rdy = x2.rdy /\ x3.exp = x2.exp /\ x3.expAt = x2.expAt /\ x3.armed = x2.armed)
           \/ (x2.armed /\ ~x2.st /\ ~x3.armed)
        /\ x3.rdy = x2.rdy
        /\ x3.seen /\ ~x3.st /\ Field!Elapsed(x3.chg, Fallback) => x3.fb
    BY <1>2, OutageGood
  <1> HIDE DEF x3
  <1>4. /\ FieldGood(x4, h) /\ Same(x3, x4) /\ Armed(x4)
        /\ x4.rdy = x3.rdy /\ x4.armed = x3.armed /\ x4.expAt = x3.expAt /\ x4.fb = x3.fb
        /\ x3.exp /\ x3.expAt = h.clk => x4.exp
        /\ x4.exp => x3.exp
        /\ x4.fb /\ ~x4.st /\ x4.exp => h.clk - x4.expAt < Reopen
    BY <1>3, ReopenedGood
  <1> HIDE DEF x4
  <1>5. /\ FieldGood(x5, h) /\ Same(x4, x5)
        /\ x5.rdy = x4.rdy /\ x5.armed = x4.armed /\ x5.expAt = x4.expAt /\ x5.exp = x4.exp
        /\ (x5.fb => x4.fb) /\ (~x5.st => x5.fb = x4.fb)
    BY <1>4, RecoveredGood
  <1> HIDE DEF x5
  <1>6. /\ FieldGood(x6, h) /\ Same(x5, x6)
        /\ x6.armed = x5.armed /\ x6.expAt = x5.expAt /\ x6.exp = x5.exp /\ x6.fb = x5.fb /\ x6.act = x5.act
        /\ x6.fb /\ ~x6.exp => x6.req
        /\ (x6.rdy <=> x5.rdy /\ x6.req) /\ (x6.req => ~x6.exp)
    BY <1>5, DecideGood
  <1> HIDE DEF x6
  <1>7. /\ FieldGood(y, h)
        /\ y.cl = x6.cl /\ y.field = x6.field /\ y.chg = x6.chg /\ y.seen = x6.seen /\ y.st = x6.st
        /\ y.actAt \in {0, x6.actAt} /\ (y.act => y.actAt = x6.actAt)
        /\ y.armed = x6.armed /\ y.exp = x6.exp /\ y.fb = x6.fb /\ y.act = x6.act
        /\ y.rdy = x6.rdy /\ y.req = x6.req /\ (y.exp => y.expAt = x6.expAt)
    BY <1>6, ForgetGood
  <1>8. Field!Poll(x) = y
    BY DEF Field!Poll, x1, x2, x3, x4, x5, x6
  <1> HIDE DEF y
  <1>9. /\ y.cl = x.cl /\ y.field = x.field /\ y.chg = x.chg /\ y.seen = x.seen /\ y.st = x.st
        /\ y.actAt \in {0, x.actAt} /\ (y.act => y.actAt = x.actAt)
    BY <1>1, <1>2, <1>3, <1>4, <1>5, <1>6, <1>7 DEF Same
  <1>10. ASSUME x.rdy, y.req, ~y.rdy
         PROVE  x.armed /\ ~y.armed
    <2>1. ~x5.rdy /\ ~x4.exp
      BY <1>5, <1>6, <1>7, <1>10
    <2>2. x1.exp /\ x1.expAt = h.clk
      BY <1>1, <1>2, <1>3, <1>4, <1>5, <1>10, <2>1 DEF Lasts
    <2>3. x2.armed /\ ~x2.st /\ ~x3.armed
      BY <1>2, <1>3, <1>4, <2>1, <2>2
    <2> QED
      BY <1>1, <1>2, <1>4, <1>5, <1>6, <1>7, <2>3
  <1>11. NotDue(y)
    <2>1. y.rdy => y.act /\ x1.rdy
      BY <1>2, <1>3, <1>4, <1>5, <1>6, <1>7 DEF FieldGood, Serving
    <2>2. x1.actAt = x.actAt /\ x1.field = x.field /\ x1.cl = x.cl
      BY <1>1 DEF Same
    <2> QED
      BY <1>1, <1>9, <2>1, <2>2 DEF NotDue
  <1>12. ASSUME y.seen, ~y.st, Field!Elapsed(y.chg, Fallback)
         PROVE  y.req \/ h.clk - h.last <= Reopen
    <2>1. x3.fb /\ ~x4.st /\ x4.fb /\ ~x5.st /\ x5.fb
      BY <1>3, <1>4, <1>5, <1>6, <1>7, <1>12 DEF Same
    <2>2. CASE ~y.exp
      BY <1>6, <1>7, <2>1, <2>2
    <2>3. CASE y.exp
      <3>1. x4.exp /\ x4.expAt = y.expAt
        BY <1>5, <1>6, <1>7, <2>3
      <3>2. h.clk - x4.expAt < Reopen
        BY <1>4, <2>1, <3>1
      <3>3. h.last >= x4.expAt - 1 /\ x4.expAt \in Nat
        BY <1>4, <2>1, <3>1 DEF FieldGood, Covered, FieldTyped
      <3>4. h.clk \in Nat /\ h.last \in Nat /\ Reopen \in Nat
        BY PeriodsAssumption DEF HistoryTypes
      <3> QED
        BY <3>2, <3>3, <3>4
    <2> QED
      BY <2>2, <2>3
  <1>13. (y.fb /\ ~y.exp => y.req) /\ (y.req => ~y.exp)
    BY <1>6, <1>7
  <1> QED
    BY <1>7, <1>8, <1>9, <1>10, <1>11, <1>12, <1>13 DEF Polled

\* What the window depends on is the same but for the time of activity and the client.
Alike(x, y) ==
    /\ y.field = x.field /\ y.fb = x.fb /\ y.req = x.req /\ y.rdy = x.rdy /\ y.act = x.act
    /\ y.exp = x.exp /\ y.expAt = x.expAt /\ y.armed = x.armed

\* Two coordinators alike in what the window depends on are equally good.
LEMMA AlikeGood ==
    ASSUME NEW k, NEW x, FieldGood(x, k), Offered(x, k), NEW y, FieldTyped(y), Alike(x, y), y.st => y.seen
    PROVE  FieldGood(y, k) /\ Offered(y, k)
  BY DEF Alike, FieldGood, Offered, Serving, Covered

\* The station joins or leaves.
LEMMA StationAlike ==
    ASSUME h \in HistoryTypes, NEW x, FieldTyped(x), NEW usable \in BOOLEAN
    PROVE  LET y == Field!StationIs(x, usable)
           IN  FieldTyped(y) /\ Alike(x, y) /\ y.seen /\ y.st = usable /\ y.cl = x.cl /\ y.actAt = x.actAt
  <1> DEFINE t == IF ~x.seen \/ usable # x.st THEN h.clk ELSE x.chg
             y == [x EXCEPT !.chg = t, !.seen = TRUE, !.st = usable]
  <1>1. t \in Nat
    BY DEF FieldTyped, HistoryTypes
  <1>2. Field!StationIs(x, usable) = y
    BY DEF Field!StationIs
  <1> HIDE DEF t
  <1>3. FieldTyped(y)
    BY <1>1 DEF FieldTyped, FieldNames
  <1>4. Alike(x, y) /\ y.seen /\ y.st = usable /\ y.cl = x.cl /\ y.actAt = x.actAt
    BY DEF FieldTyped, FieldNames, Alike
  <1> QED
    BY <1>2, <1>3, <1>4

\* A client of the access point comes or goes.
LEMMA ClientAlike ==
    ASSUME h \in HistoryTypes, NEW x, FieldTyped(x), NEW present \in BOOLEAN
    PROVE  LET y == Field!ClientIs(x, present)
           IN  /\ FieldTyped(y) /\ Alike(x, y) /\ y.seen = x.seen /\ y.st = x.st
               /\ y.actAt \in {x.actAt, h.clk} /\ (~x.cl /\ ~y.cl => y.actAt = x.actAt)
  <1> DEFINE v == present /\ x.act /\ x.req /\ ~x.exp
             y == [x EXCEPT !.actAt = h.clk, !.hold = TRUE, !.cl = v]
  <1>1. v \in BOOLEAN /\ h.clk \in Nat
    BY DEF FieldTyped, HistoryTypes
  <1>2. Field!ClientIs(x, present) = IF v \/ x.cl THEN y ELSE x
    BY DEF Field!ClientIs
  <1> HIDE DEF v
  <1>3. FieldTyped(y)
    BY <1>1 DEF FieldTyped, FieldNames
  <1>4. Alike(x, y) /\ y.seen = x.seen /\ y.st = x.st /\ y.cl = v /\ y.actAt = h.clk
    BY DEF FieldTyped, FieldNames, Alike
  <1> HIDE DEF y
  <1> QED
    BY <1>1, <1>2, <1>3, <1>4 DEF Alike

\* The radio of the access point runs or not.
LEMMA RunAlike ==
    ASSUME NEW x, FieldTyped(x), NEW v
    PROVE  LET y == [x EXCEPT !.run = v]
           IN  FieldTyped(y) /\ Alike(x, y) /\ y.seen = x.seen /\ y.st = x.st /\ y.cl = x.cl /\ y.actAt = x.actAt
               /\ y.chg = x.chg
  BY DEF FieldTyped, FieldNames, Alike

\* An access point becomes ready: its window starts.
LEMMA ServesGood ==
    ASSUME h \in HistoryTypes, NEW x, FieldGood(x, h), NEW v \in BOOLEAN
    PROVE  LET y == Field!Ready(x, v)
           IN  /\ FieldGood(y, h)
               /\ y.cl = x.cl /\ y.field = x.field /\ y.chg = x.chg /\ y.seen = x.seen /\ y.st = x.st
               /\ y.armed = x.armed /\ y.exp = x.exp /\ y.fb = x.fb /\ y.req = x.req
               /\ y.actAt \in {x.actAt, h.clk} /\ (x.act => y.actAt = x.actAt)
               /\ y.rdy => y.act
  <1> DEFINE r == v /\ x.req /\ ~x.exp
             y == [x EXCEPT !.rdy = r]
             t == IF x.grace THEN h.clk ELSE y.graceAt
             z == [y EXCEPT !.act = TRUE, !.actAt = h.clk, !.graceAt = t]
  <1>1. FieldTyped(x) /\ r \in BOOLEAN /\ (r => x.req /\ ~x.exp) /\ h.clk \in Nat
    BY DEF FieldGood, FieldTyped, HistoryTypes
  <1>2. Field!Ready(x, v) = IF y.rdy /\ ~x.act THEN z ELSE y
    BY DEF Field!Ready
  <1> HIDE DEF r, t
  <1>3. FieldTyped(y)
    BY <1>1 DEF FieldTyped, FieldNames
  <1>4. /\ Same(x, y) /\ y.armed = x.armed /\ y.fb = x.fb /\ y.req = x.req /\ y.exp = x.exp /\ y.expAt = x.expAt
        /\ y.act = x.act /\ y.rdy = r
    BY <1>1 DEF FieldTyped, FieldNames, Same
  <1> HIDE DEF y
  <1>5. FieldTyped(z)
    BY <1>1, <1>3 DEF FieldTyped, FieldNames
  <1>6. /\ z.cl = y.cl /\ z.field = y.field /\ z.chg = y.chg /\ z.seen = y.seen /\ z.st = y.st
        /\ z.armed = y.armed /\ z.fb = y.fb /\ z.req = y.req /\ z.exp = y.exp /\ z.expAt = y.expAt
        /\ z.act /\ z.rdy = y.rdy /\ z.actAt = h.clk
    BY <1>3 DEF FieldTyped, FieldNames
  <1> HIDE DEF z
  <1>7. CASE y.rdy /\ ~x.act
    BY <1>1, <1>2, <1>4, <1>5, <1>6, <1>7 DEF FieldGood, Serving, Covered, Same
  <1>8. CASE ~(y.rdy /\ ~x.act)
    <2>1. y.rdy => y.act
      BY <1>4, <1>8
    <2> QED
      BY <1>1, <1>2, <1>3, <1>4, <1>8, <2>1 DEF FieldGood, Serving, Covered, Same
  <1> QED
    BY <1>7, <1>8

-----------------------------------------------------------------------------

\* The invariant: the coordinator is good, its window began no later than the history has it,
\* and what a loop ended with is offered or excused.
FieldInv ==
    /\ h \in HistoryTypes
    /\ FieldGood(s, h) /\ Offered(s, h)
    /\ s.actAt <= h.win /\ h.win <= h.clk
    /\ h.polled /\ s.fb /\ ~s.exp => h.last = h.clk
    /\ Field!WindowBounded
    /\ h.polled /\ s.seen /\ ~s.st /\ Field!Elapsed(s.chg, Fallback) => s.req \/ h.clk - h.last <= Reopen

\* What the history makes of the end of a loop.
LEMMA ObservedInv ==
    ASSUME FieldInv, NEW d, FieldGood(d, h), s' = d, h' = [Field!Observed(d) EXCEPT !.polled = TRUE],
           d.actAt <= h.clk,
           d.rdy /\ ~d.field /\ ~d.cl /\ s.rdy /\ ~s.cl /\ ~(s.armed /\ ~d.armed) =>
               d.actAt <= s.actAt /\ ~Field!Elapsed(s.actAt, Manual),
           d.fb /\ ~d.exp => d.req,
           d.seen /\ ~d.st /\ Field!Elapsed(d.chg, Fallback) => d.req \/ h.clk - h.last <= Reopen
    PROVE  FieldInv'
  <1> DEFINE renewed == ~d.rdy \/ ~s.rdy \/ d.cl \/ s.cl \/ d.field \/ (s.armed /\ ~d.armed)
             w == IF renewed THEN h.clk ELSE h.win
             o == IF Field!StableStation(d) THEN -1 ELSE IF h.down = -1 /\ ~d.st THEN d.chg ELSE h.down
             u == IF d.req THEN h.clk ELSE h.last
  <1>1. h' = [h EXCEPT !.win = w, !.down = o, !.last = u, !.polled = TRUE]
    BY DEF Field!Observed
  <1>2. h \in HistoryTypes /\ h.win <= h.clk /\ s.actAt <= h.win /\ FieldTyped(d) /\ FieldTyped(s)
    BY DEF FieldInv, FieldGood
  <1>3. w \in Nat /\ o \in Int /\ u \in Nat /\ w <= h.clk /\ d.actAt <= w
    BY <1>2 DEF HistoryTypes, FieldTyped
  <1>4. d.rdy /\ ~d.field => h.clk - w < Manual
    <2>1. h.clk \in Nat /\ h.win \in Nat /\ s.actAt \in Nat /\ Manual \in Nat /\ Manual > 0
      BY <1>2, PeriodsAssumption DEF HistoryTypes, FieldTyped
    <2>2. CASE renewed
      BY <2>1, <2>2
    <2>3. CASE ~renewed
      BY <1>2, <2>1, <2>3 DEF Field!Elapsed
    <2> QED
      BY <2>2, <2>3
  <1>5. d.req => u = h.clk
    OBVIOUS
  <1>6. ~d.req => u = h.last
    OBVIOUS
  <1> HIDE DEF w, o, u
  <1>7. /\ h' \in HistoryTypes /\ h'.clk = h.clk /\ h'.polled /\ h'.win = w /\ h'.last = u
    BY <1>1, <1>2, <1>3 DEF HistoryTypes
  <1>8. h.clk \in Nat /\ h.last \in Nat /\ (u >= h.last \/ u = h.clk)
    BY <1>2, <1>5, <1>6 DEF HistoryTypes
  <1>9. FieldGood(d, h')
    <2>1. d.exp => d.expAt <= h.clk
      BY DEF FieldGood, Covered
    <2>2. d.expAt \in Nat /\ h.clk \in Nat /\ h.last \in Nat /\ u \in Nat
      BY <1>2, <1>3 DEF FieldTyped, HistoryTypes
    <2>3. d.fb /\ d.exp => u >= d.expAt - 1
      <3>1. CASE d.req
        BY <1>5, <2>1, <2>2, <3>1
      <3>2. CASE ~d.req
        BY <1>6, <3>2 DEF FieldGood, Covered
      <3> QED
        BY <3>1, <3>2
    <2> QED
      BY <1>7, <2>1, <2>3 DEF FieldGood, Covered
  <1>10. Offered(d, h') /\ (d.fb /\ ~d.exp => u = h.clk)
    BY <1>5, <1>7, <1>2 DEF Offered, HistoryTypes
  <1>11. d.seen /\ ~d.st /\ Field!Elapsed(d.chg, Fallback) => d.req \/ h.clk - u <= Reopen
    BY <1>6
  <1> QED
    BY <1>3, <1>4, <1>7, <1>9, <1>10, <1>11 DEF FieldInv, Field!WindowBounded, Field!Elapsed

\* A turn of the loop.
LEMMA LoopInv ==
    ASSUME FieldInv,
           NEW usable \in BOOLEAN, NEW client \in BOOLEAN, NEW reply \in BOOLEAN, NEW safe \in BOOLEAN,
           NEW starts \in BOOLEAN, Field!Loop(usable, client, reply, safe, starts)
    PROVE  FieldInv'
  <1> DEFINE here == client /\ (Field!Remaining(s) \/ s.cl)
             a1 == Field!StationIs(s, usable)
             a2 == Field!ClientIs(a1, here)
             a3 == [a2 EXCEPT !.reply = reply, !.tok = s.tok /\ s.run]
             b == Field!Poll(a3)
             g == Field!Radio(b, safe, starts)
             d == Field!Ready(g, g.run)
  <1>1. h \in HistoryTypes /\ FieldGood(s, h) /\ Offered(s, h) /\ FieldTyped(s)
    BY DEF FieldInv, FieldGood
  <1>2. here \in BOOLEAN
    BY DEF FieldInv
  <1>3. s' = d /\ h' = [Field!Observed(d) EXCEPT !.polled = TRUE]
    BY DEF Field!Loop
  <1> HIDE DEF here
  <1>4. FieldTyped(a1) /\ Alike(s, a1) /\ a1.seen /\ a1.cl = s.cl /\ a1.actAt = s.actAt
    BY <1>1, StationAlike
  <1> HIDE DEF a1
  <1>5. /\ FieldTyped(a2) /\ Alike(a1, a2) /\ a2.seen
        /\ a2.actAt \in {a1.actAt, h.clk} /\ (~a1.cl /\ ~a2.cl => a2.actAt = a1.actAt)
    BY <1>1, <1>2, <1>4, ClientAlike
  <1> HIDE DEF a2
  <1>6. FieldTyped(a3) /\ Alike(a2, a3) /\ a3.seen = a2.seen /\ a3.cl = a2.cl /\ a3.actAt = a2.actAt
    <2> DEFINE t == s.tok /\ s.run
    <2>1. a3 = [a2 EXCEPT !.reply = reply, !.tok = t]
      OBVIOUS
    <2>2. FieldTyped(a2)
      BY <1>5
    <2> HIDE DEF t, a3, b, g, d
    <2> QED
      BY <2>1, <2>2 DEF FieldTyped, FieldNames, Alike
  <1> HIDE DEF a3
  <1>7. Alike(s, a3) /\ a3.seen
    BY <1>4, <1>5, <1>6 DEF Alike
  <1>8. FieldGood(a3, h) /\ Offered(a3, h)
    BY <1>1, <1>6, <1>7, AlikeGood
  <1>9. FieldGood(b, h) /\ Polled(a3, b)
    BY <1>1, <1>8, PollPolled
  <1> HIDE DEF b
  <1>10. /\ FieldTyped(g) /\ Alike(b, g) /\ g.seen = b.seen /\ g.st = b.st /\ g.cl = b.cl /\ g.actAt = b.actAt
         /\ g.chg = b.chg /\ g.run \in BOOLEAN
    <2> DEFINE v == IF safe /\ b.req /\ ~b.run THEN starts ELSE b.run /\ (b.req \/ ~safe)
    <2>1. g = [b EXCEPT !.run = v] /\ v \in BOOLEAN
      BY DEF Field!Radio
    <2>2. FieldTyped(b)
      BY <1>9 DEF FieldGood
    <2> HIDE DEF v, g
    <2>3. g.run = v
      BY <2>1, <2>2 DEF FieldTyped, FieldNames
    <2> QED
      BY <2>1, <2>2, <2>3, RunAlike
  <1>11. FieldGood(g, h)
    BY <1>9, <1>10 DEF Alike, FieldGood, Serving, Covered
  <1> HIDE DEF g
  <1>13. /\ FieldGood(d, h)
         /\ d.cl = g.cl /\ d.field = g.field /\ d.chg = g.chg /\ d.seen = g.seen /\ d.st = g.st
         /\ d.armed = g.armed /\ d.exp = g.exp /\ d.fb = g.fb /\ d.req = g.req
         /\ d.actAt \in {g.actAt, h.clk} /\ (g.act => d.actAt = g.actAt)
         /\ d.rdy => d.act
    BY <1>1, <1>10, <1>11, ServesGood
  <1> HIDE DEF d
  <1>14. d.actAt <= h.clk
    <2>1. s.actAt <= h.clk /\ h.clk \in Nat /\ s.actAt \in Nat
      BY <1>1 DEF FieldInv, FieldTyped, HistoryTypes
    <2> QED
      BY <2>1, <1>4, <1>5, <1>6, <1>9, <1>10, <1>13 DEF Polled
  <1>15. ASSUME d.rdy, ~d.field, ~d.cl, s.rdy, ~s.cl, ~(s.armed /\ ~d.armed)
         PROVE  d.actAt <= s.actAt /\ ~Field!Elapsed(s.actAt, Manual)
    <2>1. d.req /\ b.req /\ ~b.field /\ ~b.cl /\ a3.rdy /\ a3.actAt = s.actAt
      BY <1>4, <1>5, <1>6, <1>7, <1>9, <1>10, <1>13, <1>15 DEF Alike, Polled, FieldGood, Serving
    <2>2. b.rdy
      BY <1>7, <1>9, <1>10, <1>13, <1>15, <2>1 DEF Alike, Polled
    <2>3. b.act /\ b.actAt = s.actAt /\ g.act
      BY <1>9, <1>10, <2>1, <2>2 DEF Alike, Polled, FieldGood, Serving
    <2>4. ~Field!Elapsed(b.actAt, Manual)
      BY <1>9, <2>1, <2>2 DEF Polled, NotDue
    <2>5. d.actAt = s.actAt /\ s.actAt \in Nat
      BY <1>1, <1>10, <1>13, <2>3 DEF FieldTyped
    <2> QED
      BY <2>3, <2>4, <2>5
  <1>16. d.fb /\ ~d.exp => d.req
    BY <1>9, <1>10, <1>13 DEF Alike, Polled
  <1>17. d.seen /\ ~d.st /\ Field!Elapsed(d.chg, Fallback) => d.req \/ h.clk - h.last <= Reopen
    BY <1>9, <1>10, <1>13 DEF Alike, Polled
  <1> QED
    BY <1>3, <1>13, <1>14, <1>15, <1>16, <1>17, ObservedInv

\* A turn of the loop in which the coordinator is reset.
LEMMA ResetLoopInv ==
    ASSUME FieldInv, NEW client \in BOOLEAN, NEW safe \in BOOLEAN, Field!ResetLoop(client, safe)
    PROVE  FieldInv'
  <1> DEFINE here == client /\ (Field!Remaining(s) \/ s.cl)
             a2 == Field!ClientIs(s, here)
             b == Field!Poll(a2)
             d == [b EXCEPT !.run = @ /\ ~(b.exp /\ safe)]
  <1>1. h \in HistoryTypes /\ FieldGood(s, h) /\ Offered(s, h) /\ FieldTyped(s) /\ (s.st => s.seen)
    BY DEF FieldInv, FieldGood, Covered
  <1>2. here \in BOOLEAN
    BY DEF FieldInv
  <1>3. s' = d /\ h' = [Field!Observed(d) EXCEPT !.polled = TRUE]
    BY DEF Field!ResetLoop
  <1> HIDE DEF here
  <1>5. /\ FieldTyped(a2) /\ Alike(s, a2) /\ a2.seen = s.seen /\ a2.st = s.st
        /\ a2.actAt \in {s.actAt, h.clk} /\ (~s.cl /\ ~a2.cl => a2.actAt = s.actAt)
    BY <1>1, <1>2, ClientAlike
  <1> HIDE DEF a2
  <1>8. FieldGood(a2, h) /\ Offered(a2, h)
    BY <1>1, <1>5, AlikeGood
  <1>9. FieldGood(b, h) /\ Polled(a2, b)
    BY <1>1, <1>8, PollPolled
  <1> HIDE DEF b
  <1>10. /\ FieldTyped(d) /\ Alike(b, d) /\ d.seen = b.seen /\ d.st = b.st /\ d.cl = b.cl /\ d.actAt = b.actAt
         /\ d.chg = b.chg
    BY <1>9, RunAlike DEF FieldGood
  <1> HIDE DEF d
  <1>13. FieldGood(d, h)
    BY <1>9, <1>10 DEF Alike, FieldGood, Serving, Covered
  <1>14. d.actAt <= h.clk
    <2>1. s.actAt <= h.clk /\ h.clk \in Nat /\ s.actAt \in Nat
      BY <1>1 DEF FieldInv, FieldTyped, HistoryTypes
    <2> QED
      BY <2>1, <1>5, <1>9, <1>10 DEF Polled
  <1>15. ASSUME d.rdy, ~d.field, ~d.cl, s.rdy, ~s.cl, ~(s.armed /\ ~d.armed)
         PROVE  d.actAt <= s.actAt /\ ~Field!Elapsed(s.actAt, Manual)
    <2>1. b.rdy /\ ~b.field /\ ~b.cl /\ a2.actAt = s.actAt /\ b.act
      BY <1>5, <1>9, <1>10, <1>15 DEF Alike, Polled, FieldGood, Serving
    <2>2. b.actAt = s.actAt /\ ~Field!Elapsed(b.actAt, Manual)
      BY <1>9, <2>1 DEF Polled, NotDue
    <2> QED
      BY <1>1, <1>10, <2>2 DEF FieldTyped
  <1>16. d.fb /\ ~d.exp => d.req
    BY <1>9, <1>10 DEF Alike, Polled
  <1>17. d.seen /\ ~d.st /\ Field!Elapsed(d.chg, Fallback) => d.req \/ h.clk - h.last <= Reopen
    BY <1>9, <1>10 DEF Alike, Polled
  <1> QED
    BY <1>3, <1>13, <1>14, <1>15, <1>16, <1>17, ObservedInv

\* A request is taken: what it may change of the window is none that runs.
LEMMA AskedInv ==
    ASSUME FieldInv, NEW x, Field!Asks(x), FieldGood(x, h), Offered(x, h), x.actAt = s.actAt
    PROVE  FieldInv'
  <1>1. /\ s' = x /\ h' = [h EXCEPT !.asked = @ + 1, !.polled = FALSE]
        /\ h \in HistoryTypes /\ s.actAt <= h.win /\ h.win <= h.clk
    BY DEF Field!Asks, FieldInv
  <1>2. h' \in HistoryTypes /\ ~h'.polled /\ h'.clk = h.clk /\ h'.last = h.last /\ h'.win = h.win
    <2>1. h.asked + 1 \in Nat
      BY <1>1 DEF HistoryTypes
    <2>2. h' = [h EXCEPT !.asked = h.asked + 1, !.polled = FALSE]
      BY <1>1
    <2> QED
      BY <1>1, <2>1, <2>2 DEF HistoryTypes
  <1>3. FieldGood(x, h') /\ Offered(x, h')
    BY <1>2 DEF FieldGood, Covered, Offered
  <1> QED
    BY <1>1, <1>2, <1>3 DEF FieldInv, Field!WindowBounded

\* A join that may still succeed keeps the access point for a while.
LEMMA JoinGraceGood ==
    ASSUME h \in HistoryTypes, FieldGood(s, h), Offered(s, h)
    PROVE  LET x == Field!JoinGrace(s) IN FieldGood(x, h) /\ Offered(x, h) /\ x.actAt = s.actAt
  <1> DEFINE y == IF s.exp \/ ~s.req THEN [s EXCEPT !.exp = FALSE, !.act = FALSE] ELSE s
             z == [y EXCEPT !.graceAt = h.clk, !.grace = TRUE]
  <1>1. FieldTyped(s)
    BY DEF FieldGood
  <1>2. Field!JoinGrace(s) \in {s, z}
    BY DEF Field!JoinGrace
  <1>3. FieldTyped(y)
    BY <1>1 DEF FieldTyped, FieldNames
  <1>4. /\ Same(s, y) /\ y.armed = s.armed /\ y.fb = s.fb /\ y.expAt = s.expAt /\ y.rdy = s.rdy /\ y.req = s.req
        /\ (y.exp = s.exp /\ y.act = s.act) \/ ((s.exp \/ ~s.req) /\ ~y.exp /\ ~y.act)
    BY <1>1 DEF FieldTyped, FieldNames, Same
  <1> HIDE DEF y
  <1>5. FieldTyped(z) /\ Alike(y, z) /\ z.seen = y.seen /\ z.st = y.st /\ z.actAt = y.actAt
    BY <1>3 DEF FieldTyped, FieldNames, Alike
  <1> HIDE DEF z
  <1>6. FieldGood(y, h) /\ Offered(y, h)
    BY <1>3, <1>4 DEF FieldGood, Serving, Covered, Offered, Same
  <1>7. FieldGood(z, h) /\ Offered(z, h)
    BY <1>5, <1>6, AlikeGood DEF FieldGood, Covered
  <1> QED
    BY <1>2, <1>4, <1>5, <1>7 DEF Same

\* Setup takes the access point or gives it back.
LEMMA SetupGood ==
    ASSUME h \in HistoryTypes, FieldGood(s, h), Offered(s, h), NEW held \in BOOLEAN
    PROVE  LET x == Field!Setup(s, held) IN FieldGood(x, h) /\ Offered(x, h) /\ x.actAt = s.actAt
  <1> DEFINE y == IF ~s.req THEN [s EXCEPT !.exp = FALSE, !.act = FALSE] ELSE s
             z == [y EXCEPT !.man = TRUE, !.held = held]
  <1>1. FieldTyped(s)
    BY DEF FieldGood
  <1>2. Field!Setup(s, held) \in {s, z}
    BY DEF Field!Setup
  <1>3. FieldTyped(y)
    BY <1>1 DEF FieldTyped, FieldNames
  <1>4. /\ Same(s, y) /\ y.armed = s.armed /\ y.fb = s.fb /\ y.expAt = s.expAt /\ y.rdy = s.rdy /\ y.req = s.req
        /\ (y.exp = s.exp /\ y.act = s.act) \/ (~s.req /\ ~y.exp /\ ~y.act)
    BY <1>1 DEF FieldTyped, FieldNames, Same
  <1> HIDE DEF y
  <1>5. FieldTyped(z) /\ Alike(y, z) /\ z.seen = y.seen /\ z.st = y.st /\ z.actAt = y.actAt
    BY <1>3 DEF FieldTyped, FieldNames, Alike
  <1> HIDE DEF z
  <1>6. FieldGood(y, h) /\ Offered(y, h)
    BY <1>3, <1>4 DEF FieldGood, Serving, Covered, Offered, Same
  <1>7. FieldGood(z, h) /\ Offered(z, h)
    BY <1>5, <1>6, AlikeGood DEF FieldGood, Covered
  <1> QED
    BY <1>2, <1>4, <1>5, <1>7 DEF Same

\* An update of a part the window does not depend on.
LEMMA AsideInv ==
    ASSUME FieldInv, NEW f \in {"held", "tok"}, NEW v, s' = [s EXCEPT ![f] = v], h' = h
    PROVE  FieldInv'
  <1>1. FieldTyped(s)
    BY DEF FieldInv, FieldGood
  <1>2. FieldTyped(s') /\ Alike(s, s') /\ Same(s, s')
    BY <1>1 DEF FieldTyped, FieldNames, Alike, Same
  <1>3. FieldGood(s', h) /\ Offered(s', h)
    BY <1>2, AlikeGood DEF FieldInv, FieldGood, Covered, Same
  <1> QED
    BY <1>2, <1>3 DEF FieldInv, Alike, Same, Field!WindowBounded, Field!Elapsed

\* The field mode is taken or left.
LEMMA FieldModeInv ==
    ASSUME FieldInv, Field!FieldMode
    PROVE  FieldInv'
  <1> DEFINE x == [s EXCEPT !.field = ~@]
  <1>1. FieldTyped(s) /\ FieldGood(s, h) /\ Offered(s, h)
    BY DEF FieldInv, FieldGood
  <1>2. Field!Asks(x)
    BY DEF Field!FieldMode
  <1>3. FieldTyped(x) /\ x.actAt = s.actAt /\ x.seen = s.seen /\ x.st = s.st /\ x.armed = s.armed /\ x.fb = s.fb
        /\ x.exp = s.exp /\ x.expAt = s.expAt /\ x.act = s.act /\ x.rdy = s.rdy /\ x.req = s.req
    BY <1>1 DEF FieldTyped, FieldNames
  <1> HIDE DEF x
  <1>4. FieldGood(x, h) /\ Offered(x, h)
    BY <1>1, <1>3 DEF FieldGood, Serving, Covered, Offered
  <1> QED
    BY <1>2, <1>3, <1>4, AskedInv

\* Time passes, and only after the loop had its turn.
LEMMA FieldTickInv ==
    ASSUME FieldInv, Field!Tick
    PROVE  FieldInv'
  <1>1. h' = [h EXCEPT !.clk = @ + 1, !.polled = FALSE] /\ s' = s /\ h \in HistoryTypes /\ h.polled
    BY DEF Field!Tick, FieldInv
  <1>2. h' \in HistoryTypes /\ ~h'.polled /\ h'.clk = h.clk + 1 /\ h'.last = h.last /\ h'.win = h.win
    <2>1. h.clk + 1 \in Nat
      BY <1>1 DEF HistoryTypes
    <2>2. h' = [h EXCEPT !.clk = h.clk + 1, !.polled = FALSE]
      BY <1>1
    <2> QED
      BY <1>1, <2>1, <2>2 DEF HistoryTypes
  <1>3. h.clk \in Nat /\ h.last \in Nat /\ h.win \in Nat /\ FieldTyped(s)
    BY <1>1 DEF HistoryTypes, FieldInv, FieldGood
  <1>4. FieldGood(s, h')
    BY <1>2, <1>3 DEF FieldInv, FieldGood, Covered, FieldTyped
  <1>5. Offered(s, h')
    BY <1>1, <1>2, <1>3 DEF FieldInv, Offered
  <1> QED
    BY <1>1, <1>2, <1>3, <1>4, <1>5 DEF FieldInv, Field!WindowBounded, FieldTyped

\* The coordinator at power-on.
LEMMA FieldInit ==
    ASSUME Field!Init
    PROVE  FieldInv
  <1>1. PICK blank \in BOOLEAN, temp \in BOOLEAN :
          s = [blank |-> blank, temp |-> temp, field |-> FALSE, st |-> FALSE, seen |-> FALSE,
             chg |-> 0, fb |-> FALSE, req |-> FALSE, rdy |-> FALSE, reply |-> FALSE, tok |-> FALSE,
             grace |-> FALSE, graceAt |-> 0, man |-> FALSE, held |-> FALSE, drain |-> FALSE,
             drainAt |-> 0, act |-> FALSE, actAt |-> 0, exp |-> FALSE, expAt |-> 0,
             armed |-> TRUE, cl |-> FALSE, hold |-> FALSE, run |-> FALSE]
    BY DEF Field!Init
  <1>2. h = [clk |-> 0, polled |-> FALSE, asked |-> 0, win |-> 0, down |-> 0, last |-> 0]
    BY DEF Field!Init
  <1>3. FieldTyped(s)
    BY <1>1 DEF FieldTyped, FieldNames
  <1>4. FieldGood(s, h) /\ Offered(s, h) /\ s.actAt = 0
    BY <1>1, <1>2, <1>3 DEF FieldGood, Serving, Covered, Offered
  <1>5. h \in HistoryTypes
    BY <1>2 DEF HistoryTypes
  <1> QED
    BY <1>2, <1>4, <1>5 DEF FieldInv, Field!WindowBounded

\* Every action of the coordinator keeps the invariant.
LEMMA FieldStep ==
    ASSUME FieldInv, Field!Next
    PROVE  FieldInv'
  <1>1. CASE \E usable, client, reply, safe, starts \in BOOLEAN : Field!Loop(usable, client, reply, safe, starts)
    BY <1>1, LoopInv
  <1>2. CASE \E client, safe \in BOOLEAN : Field!ResetLoop(client, safe)
    BY <1>2, ResetLoopInv
  <1>3. CASE Field!RequestJoinGrace
    BY <1>3, JoinGraceGood, AskedInv DEF Field!RequestJoinGrace, FieldInv
  <1>4. CASE \E held \in BOOLEAN : Field!RequestManualSetup(held)
    <2>1. PICK held \in BOOLEAN : Field!Asks(Field!Setup(s, held))
      BY <1>4 DEF Field!RequestManualSetup
    <2> QED
      BY <2>1, SetupGood, AskedInv DEF FieldInv
  <1>5. CASE Field!ButtonReleased
    BY <1>5, AsideInv DEF Field!ButtonReleased
  <1>6. CASE Field!Session
    BY <1>6, AsideInv DEF Field!Session
  <1> QED
    BY <1>1, <1>2, <1>3, <1>4, <1>5, <1>6, FieldModeInv, FieldTickInv DEF Field!Next

\* The invariant has what the window promises.
LEMMA FieldInvSound ==
    ASSUME FieldInv
    PROVE  Field!WindowBounded /\ Field!OutageOpens
  BY DEF FieldInv, Field!OutageOpens, Field!Elapsed

\* An access point that is ready closes when its window has run out, and a station
\* that stays away opens it again: the window of the field coordinator
\* (field_runtime.cpp).
THEOREM WindowHolds == Spec => []WindowSound
  <1> DEFINE Inv == focus = "field" => FieldInv
  <1>1. Init => Inv
    BY FieldInit DEF Init
  <1>2. Inv /\ [Next]_vars => Inv'
    <2> SUFFICES ASSUME Inv, [Next]_vars PROVE Inv'
      OBVIOUS
    <2>1. CASE UNCHANGED vars
      BY <2>1 DEF vars, FieldInv, Field!WindowBounded, Field!Elapsed
    <2>2. CASE Next
      <3>1. CASE focus = "field"
        BY <2>2, <3>1, FieldStep DEF Next
      <3>2. CASE focus # "field"
        BY <2>2, <3>2 DEF Next
      <3> QED
        BY <3>1, <3>2
    <2> QED
      BY <2>1, <2>2
  <1>3. Inv => WindowSound
    BY FieldInvSound DEF WindowSound
  <1> QED
    BY <1>1, <1>2, <1>3, PTL DEF Spec

-----------------------------------------------------------------------------
(***************************************************************************)
(* The browser. That whoever armed a job can abort it rests on who holds   *)
(* which token: a session at the service was opened by one login, which is *)
(* bound to it for as long as it is live (Bound), so the login that armed  *)
(* the job owns it (JobHeld), and an owner's login is not reclaimed. That  *)
(* every change has used up a proof is a count of those given and used.    *)
(***************************************************************************)

\* A login.
LoginTypes ==
    [live : BOOLEAN, token : Nat, wtp : Wtp \cup {"none"}, epoch : Nat, at : Nat, last : Nat,
     under : Passwords \cup {0}]

\* The access controller is well typed in what the browser surface depends on.
ControllerTyped(x) ==
    /\ DOMAIN x = {"st", "rec", "proof", "ble", "soft", "enr", "stack", "tokens"}
    /\ DOMAIN x.rec = {"epoch", "pwd", "dflt", "bonds", "bleOff", "field"}
    /\ DOMAIN x.proof = {"on", "bind", "at", "epoch", "pwd", "conf"}
    /\ x.rec.epoch \in Nat /\ x.tokens \in Nat
    /\ x.proof.on \in BOOLEAN /\ x.proof.pwd \in BOOLEAN
    /\ x.soft \in [1..ApSlots -> LoginTypes]

\* A token is given to one login, and never again.
TokensUnique(x) ==
    /\ \A i \in 1..ApSlots : x.soft[i].live => x.soft[i].token \in 1..x.tokens
    /\ \A i, j \in 1..ApSlots :
         x.soft[i].live /\ x.soft[j].live /\ x.soft[i].token = x.soft[j].token => i = j

\* Logins and bonds of the present epoch were made under the present password.
Governed(x) ==
    Ap!Healthy(x) =>
        /\ \A i \in 1..ApSlots :
             x.soft[i].live /\ x.soft[i].epoch = x.rec.epoch => x.soft[i].under = x.rec.pwd
        /\ \A b \in x.rec.bonds : b.under = x.rec.pwd

\* The controller as the browser surface relies on it.
ControllerGood(x) == ControllerTyped(x) /\ TokensUnique(x) /\ Governed(x)

\* A login that opened a WTP session is bound to it.
Bound(x, opened) ==
    /\ opened \in [Wtp -> Nat]
    /\ \A w \in Wtp : opened[w] <= x.tokens
    /\ \A w \in Wtp, i \in 1..ApSlots : x.soft[i].live /\ x.soft[i].token = opened[w] => x.soft[i].wtp = w

\* What the surface sees of the job service.
JobTypes == [st : {"empty", "loaded", "armed"}, owner : Wtp \cup {"none"}, by : Nat]

\* Whoever armed the job still has a login that owns it.
Owns(x, k, i) ==
    /\ x.soft[i].live /\ x.soft[i].token = k.by /\ x.soft[i].wtp = k.owner
    /\ Ap!Healthy(x) /\ x.soft[i].epoch = x.rec.epoch

\* Unless whoever armed the job has asked for more than the grace.
JobHeld(x, k, late) ==
    /\ k \in JobTypes
    /\ k.st # "empty" => k.owner \in Wtp
    /\ k.st = "armed" /\ k.by \notin late => \E i \in 1..ApSlots : Owns(x, k, i)

\* A proof that was given and not used yet.
Unused(x) == IF x.proof.on /\ x.proof.pwd THEN 1 ELSE 0

\* Every operation that was done has used up a proof of its own.
ProofsCounted(x, given, used) == given \in Nat /\ used \in Nat /\ used + Unused(x) <= given

\* The challenge, and the reply it is sent with.
ChallengeGood ==
    /\ tx \in Nat /\ 0 \notin flight /\ flight \subseteq Nat
    /\ Ap!ChallengeReturned

\* A job is armed over the access point of a device that has a profile.
ArmedOffered ==
    /\ surface \in {"blank", "preclock", "normal"}
    /\ job.st = "armed" => surface # "blank"

\* The invariant of the logins, the job, the proofs and the challenge.
ApInv ==
    /\ ControllerGood(a) /\ Bound(a, hello) /\ JobHeld(a, job, over) /\ ProofsCounted(a, proved, done) /\ ChallengeGood
    /\ clk \in Nat

-----------------------------------------------------------------------------

\* Logins end, are used or are bound; nothing else changes but that a proof may be dropped.
Thinned(x, y) ==
    /\ ControllerTyped(y) /\ y.st = x.st /\ y.rec = x.rec /\ y.tokens = x.tokens
    /\ y.proof = x.proof \/ ~y.proof.on
    /\ \A i \in 1..ApSlots : y.soft[i].live =>
         /\ x.soft[i].live /\ y.soft[i].token = x.soft[i].token /\ y.soft[i].epoch = x.soft[i].epoch
         /\ y.soft[i].under = x.soft[i].under
         /\ x.soft[i].wtp = y.soft[i].wtp \/ x.soft[i].wtp = "none"

\* Nothing of the invariant depends on a login that has gone.
LEMMA ThinnedGood ==
    ASSUME NEW x, NEW y, NEW opened, ControllerGood(x), Bound(x, opened), Thinned(x, y)
    PROVE  ControllerGood(y) /\ Bound(y, opened) /\ Unused(y) <= Unused(x)
  <1>1. ControllerTyped(x) /\ ControllerTyped(y)
    BY DEF ControllerGood, Thinned
  <1>2. TokensUnique(y)
    BY DEF TokensUnique, Thinned, ControllerGood
  <1>3. Governed(y)
    BY DEF Governed, Thinned, ControllerGood, Ap!Healthy
  <1>4. Bound(y, opened)
    BY LoginsAssumption DEF Bound, Thinned
  <1>5. Unused(y) <= Unused(x)
    BY DEF Unused, Thinned
  <1> QED
    BY <1>1, <1>2, <1>3, <1>4, <1>5 DEF ControllerGood

\* An update of one login.
LEMMA LoginSet ==
    ASSUME NEW x, ControllerTyped(x), NEW i \in 1..ApSlots, NEW q \in LoginTypes
    PROVE  LET y == [x EXCEPT !.soft[i] = q]
           IN  /\ ControllerTyped(y) /\ y.st = x.st /\ y.rec = x.rec /\ y.tokens = x.tokens /\ y.proof = x.proof
               /\ y.soft[i] = q /\ \A j \in 1..ApSlots : j # i => y.soft[j] = x.soft[j]
  <1> DEFINE f == [x.soft EXCEPT ![i] = q]
             y == [x EXCEPT !.soft = f]
  <1>1. f \in [1..ApSlots -> LoginTypes] /\ f[i] = q /\ \A j \in 1..ApSlots : j # i => f[j] = x.soft[j]
    BY DEF ControllerTyped
  <1> HIDE DEF f
  <1>2. ControllerTyped(y) /\ y.st = x.st /\ y.rec = x.rec /\ y.tokens = x.tokens /\ y.proof = x.proof /\ y.soft = f
    BY <1>1 DEF ControllerTyped
  <1>3. y = [x EXCEPT !.soft[i] = q]
    BY DEF f
  <1> QED
    BY <1>1, <1>2, <1>3

\* A request of a login that is current, and not idle, is served.
LEMMA AuthorizeServes ==
    ASSUME NEW x, NEW i, NEW op, NEW w, NEW owns \in BOOLEAN, NEW now,
           Ap!Current(x, x.soft[i]), x.soft[i].wtp = w,
           ~Ap!Elapsed(now, x.soft[i].at, Absolute), ~Ap!Elapsed(now, x.soft[i].last, Inactivity)
    PROVE  Ap!Authorize(x, i, op, w, owns, now).a = [x EXCEPT !.soft[i].last = now]
  BY DEF Ap!Authorize, Ap!Then

\* A request is admitted only from a login that is current; one that owns the job keeps its login
\* unless it asks for more than the grace.
LEMMA AuthorizeThinned ==
    ASSUME NEW x, ControllerTyped(x), NEW i \in 1..ApSlots, NEW op, NEW w, NEW owns \in BOOLEAN, NEW now \in Nat
    PROVE  LET r == Ap!Authorize(x, i, op, w, owns, now)
           IN  /\ Thinned(x, r.a) /\ \A j \in 1..ApSlots : j # i => r.a.soft[j] = x.soft[j]
               /\ r.a.soft[i].live => r.a.soft[i].wtp = x.soft[i].wtp
               /\ r.ok => r.a.soft[i].live /\ Ap!Current(x, x.soft[i])
               /\ r.ok => x.soft[i].wtp = "none" \/ w = "none" \/ x.soft[i].wtp = w
               /\ x.soft[i].live /\ owns /\ (Ap!Elapsed(now, x.soft[i].at, Absolute) => Ap!GraceOperation(op))
                    => r.a.soft[i].live
  <1> DEFINE r == Ap!Authorize(x, i, op, w, owns, now)
             q == [x.soft[i] EXCEPT !.last = now]
             gone == [x EXCEPT !.soft[i] = Ap!NoSession]
             used == [x EXCEPT !.soft[i] = q]
  <1>1. x.soft[i] \in LoginTypes
    BY DEF ControllerTyped
  <1>2. q \in LoginTypes /\ q.live = x.soft[i].live /\ q.token = x.soft[i].token /\ q.epoch = x.soft[i].epoch
        /\ q.under = x.soft[i].under /\ q.wtp = x.soft[i].wtp
    BY <1>1 DEF LoginTypes
  <1>3. Ap!NoSession \in LoginTypes /\ ~Ap!NoSession.live
    BY DEF Ap!NoSession, LoginTypes
  <1>4. used = [x EXCEPT !.soft[i].last = now]
    OBVIOUS
  <1>5. r = IF ~Ap!Current(x, x.soft[i]) THEN [a |-> x, ok |-> FALSE]
            ELSE IF x.soft[i].wtp # "none" /\ w # "none" /\ x.soft[i].wtp # w THEN [a |-> x, ok |-> FALSE]
            ELSE IF Ap!Elapsed(now, x.soft[i].at, Absolute)
                 THEN IF owns /\ Ap!GraceOperation(op) THEN [a |-> x, ok |-> TRUE] ELSE [a |-> gone, ok |-> FALSE]
            ELSE IF ~owns /\ Ap!Elapsed(now, x.soft[i].last, Inactivity) THEN [a |-> gone, ok |-> FALSE]
            ELSE [a |-> used, ok |-> TRUE]
    BY <1>4 DEF Ap!Authorize, Ap!Then
  <1>6. /\ ControllerTyped(gone) /\ gone.st = x.st /\ gone.rec = x.rec /\ gone.tokens = x.tokens
        /\ gone.proof = x.proof /\ ~gone.soft[i].live /\ \A j \in 1..ApSlots : j # i => gone.soft[j] = x.soft[j]
    BY <1>3, LoginSet
  <1>7. /\ ControllerTyped(used) /\ used.st = x.st /\ used.rec = x.rec /\ used.tokens = x.tokens
        /\ used.proof = x.proof /\ used.soft[i] = q /\ \A j \in 1..ApSlots : j # i => used.soft[j] = x.soft[j]
    BY <1>2, LoginSet
  <1> HIDE DEF gone, used, q, r
  <1>8. Thinned(x, x) /\ Thinned(x, gone) /\ Thinned(x, used)
    BY <1>2, <1>6, <1>7 DEF Thinned
  <1>9. r.a \in {x, gone, used} /\ (r.ok => r.a \in {x, used} /\ Ap!Current(x, x.soft[i]))
    BY <1>5
  <1>10. Ap!Current(x, x.soft[i]) => x.soft[i].live
    BY DEF Ap!Current
  <1>11. x.soft[i].live /\ owns /\ (Ap!Elapsed(now, x.soft[i].at, Absolute) => Ap!GraceOperation(op))
           => r.a \in {x, used}
    BY <1>5
  <1>12. r.ok => x.soft[i].wtp = "none" \/ w = "none" \/ x.soft[i].wtp = w
    BY <1>5
  <1> QED
    BY <1>2, <1>6, <1>7, <1>8, <1>9, <1>10, <1>11, <1>12 DEF r

\* Everything the browser surface relies on but the challenge and the clock.
SurfaceGood(x, opened, k, late) == ControllerGood(x) /\ Bound(x, opened) /\ JobHeld(x, k, late)

\* A request leaves whoever armed the job the login for it.
LEMMA AdmitGood ==
    ASSUME SurfaceGood(a, hello, job, over), clk \in Nat, NEW i \in 1..ApSlots, NEW op, NEW w,
           Ap!Admit(i, op, w)
    PROVE  LET r == Ap!Authorize(a, i, op, w, Ap!OwnsActive(i), clk)
           IN  /\ SurfaceGood(r.a, hello, job, over') /\ Unused(r.a) <= Unused(a)
               /\ Thinned(a, r.a) /\ \A j \in 1..ApSlots : j # i => r.a.soft[j] = a.soft[j]
               /\ r.ok => r.a.soft[i].live /\ Ap!Current(a, a.soft[i])
  <1> DEFINE r == Ap!Authorize(a, i, op, w, Ap!OwnsActive(i), clk)
             y == r.a
  <1>1. ControllerTyped(a) /\ Ap!OwnsActive(i) \in BOOLEAN
    BY DEF SurfaceGood, ControllerGood, Ap!OwnsActive
  <1>2. /\ Thinned(a, y) /\ \A j \in 1..ApSlots : j # i => y.soft[j] = a.soft[j]
        /\ y.soft[i].live => y.soft[i].wtp = a.soft[i].wtp
        /\ r.ok => y.soft[i].live /\ Ap!Current(a, a.soft[i])
        /\ a.soft[i].live /\ Ap!OwnsActive(i)
             /\ (Ap!Elapsed(clk, a.soft[i].at, Absolute) => Ap!GraceOperation(op)) => y.soft[i].live
    BY <1>1, AuthorizeThinned
  <1> HIDE DEF r
  <1>3. ControllerGood(y) /\ Bound(y, hello) /\ Unused(y) <= Unused(a)
    BY <1>2, ThinnedGood DEF SurfaceGood
  <1>4. JobHeld(y, job, over')
    <2> SUFFICES ASSUME job.st = "armed", job.by \notin over'
                 PROVE  \E j \in 1..ApSlots : Owns(y, job, j)
      BY DEF JobHeld, SurfaceGood
    <2>1. job.by \notin over /\ job.owner \in Wtp /\ job.owner # "none"
      BY LoginsAssumption DEF Ap!Admit, JobHeld, SurfaceGood
    <2>2. PICK j \in 1..ApSlots : Owns(a, job, j)
      BY <2>1 DEF JobHeld, SurfaceGood
    <2>3. y.soft[j].live /\ y.soft[j].wtp = a.soft[j].wtp
      <3>1. CASE j # i
        BY <1>2, <2>2, <3>1 DEF Owns
      <3>2. CASE j = i
        <4>1. Ap!OwnsActive(i)
          BY <2>1, <2>2, <3>2 DEF Ap!OwnsActive, Owns
        <4>2. Ap!Elapsed(clk, a.soft[i].at, Absolute) => Ap!GraceOperation(op)
          BY <2>2, <3>2 DEF Ap!Admit, Owns
        <4> QED
          BY <1>2, <2>2, <3>2, <4>1, <4>2 DEF Owns
      <3> QED
        BY <3>1, <3>2
    <2>4. Owns(y, job, j)
      BY <1>2, <2>2, <2>3 DEF Owns, Thinned, Ap!Healthy
    <2> QED
      BY <2>4
  <1> QED
    BY <1>2, <1>3, <1>4 DEF r, SurfaceGood

\* A status request.
LEMMA StatusGood ==
    ASSUME ApInv, NEW i \in 1..ApSlots, Ap!StatusRequest(i)
    PROVE  ApInv'
  <1> DEFINE r == Ap!Authorize(a, i, "status", "none", Ap!OwnsActive(i), clk)
  <1>1. SurfaceGood(r.a, hello, job, over') /\ Unused(r.a) <= Unused(a)
    BY AdmitGood DEF ApInv, Ap!StatusRequest, SurfaceGood
  <1>2. a' = r.a /\ UNCHANGED <<job, hello, chal, pending, flight, tx, proved, done, clk>>
    BY DEF Ap!StatusRequest, Ap!Became
  <1> HIDE DEF r
  <1>3. ControllerGood(a') /\ Bound(a', hello') /\ JobHeld(a', job', over')
    BY <1>1, <1>2 DEF SurfaceGood
  <1>4. ProofsCounted(a', proved', done')
    BY <1>1, <1>2 DEF ApInv, ProofsCounted, Unused
  <1>5. ChallengeGood'
    BY <1>2 DEF ApInv, ChallengeGood, Ap!ChallengeReturned
  <1> QED
    BY <1>2, <1>3, <1>4, <1>5 DEF ApInv

\* What a request leaves of the proofs.
LEMMA CountKept ==
    ASSUME NEW x, NEW y, NEW given, NEW used, ProofsCounted(x, given, used), Unused(y) <= Unused(x)
    PROVE  ProofsCounted(y, given, used)
  <1>1. Unused(x) \in Nat /\ Unused(y) \in Nat
    BY DEF Unused
  <1> QED
    BY <1>1 DEF ProofsCounted

\* A client arms, loads or aborts the job with the login it holds.
LEMMA JobRequestGood ==
    ASSUME ApInv, NEW i \in 1..ApSlots, NEW op, NEW w \in Wtp, Ap!JobRequest(i, op, w)
    PROVE  ApInv'
  <1> DEFINE r == Ap!Authorize(a, i, op, w, Ap!OwnsActive(i), clk)
             known == r.ok /\ hello[w] = a.soft[i].token
  <1>1. Ap!Admit(i, op, w) /\ SurfaceGood(a, hello, job, over) /\ clk \in Nat
    BY DEF ApInv, Ap!JobRequest, SurfaceGood
  <1>2. /\ SurfaceGood(r.a, hello, job, over') /\ Unused(r.a) <= Unused(a) /\ Thinned(a, r.a)
        /\ r.ok => r.a.soft[i].live /\ Ap!Current(a, a.soft[i])
    BY <1>1, AdmitGood
  <1>3. a' = r.a /\ UNCHANGED <<hello, chal, pending, flight, tx, proved, done, clk>>
    BY DEF Ap!JobRequest, Ap!Became
  <1>4. \/ job' = job
        \/ job' = Ap!NoJob
        \/ job.st = "empty" /\ job' = [st |-> "loaded", owner |-> w, by |-> 0]
        \/ known /\ job.st = "loaded" /\ job.owner = w /\ job' = [job EXCEPT !.st = "armed", !.by = a.soft[i].token]
    BY DEF Ap!JobRequest
  <1> HIDE DEF r
  <1>5. JobHeld(r.a, job', over')
    <2>1. CASE job' = job
      BY <1>2, <2>1 DEF SurfaceGood
    <2>2. CASE job' = Ap!NoJob
      BY <2>2 DEF JobHeld, JobTypes, Ap!NoJob
    <2>3. CASE job' = [st |-> "loaded", owner |-> w, by |-> 0]
      BY <2>3 DEF JobHeld, JobTypes
    <2>4. CASE known /\ job.owner = w /\ job' = [job EXCEPT !.st = "armed", !.by = a.soft[i].token]
      <3>1. job \in JobTypes /\ a.soft[i] \in LoginTypes
        BY <1>1 DEF SurfaceGood, JobHeld, ControllerGood, ControllerTyped
      <3>2. job' \in JobTypes /\ job'.owner = w /\ job'.by = a.soft[i].token
        BY <2>4, <3>1 DEF JobTypes, LoginTypes
      <3>3. a.soft[i].wtp = w /\ a.soft[i].live /\ Ap!Healthy(a) /\ a.soft[i].epoch = a.rec.epoch
        BY <1>1, <1>2, <2>4 DEF Ap!Current, SurfaceGood, Bound
      <3>4. r.a.soft[i].live /\ r.a.soft[i].wtp = w /\ r.a.soft[i].token = a.soft[i].token
        BY <1>2, <2>4, <3>3, LoginsAssumption DEF Thinned
      <3>5. Owns(r.a, job', i)
        BY <1>2, <3>2, <3>3, <3>4 DEF Owns, Thinned, Ap!Healthy
      <3> QED
        BY <3>2, <3>5 DEF JobHeld
    <2> QED
      BY <1>4, <2>1, <2>2, <2>3, <2>4
  <1>6. ControllerGood(a') /\ Bound(a', hello') /\ JobHeld(a', job', over')
    BY <1>2, <1>3, <1>5 DEF SurfaceGood
  <1>7. ProofsCounted(a', proved', done')
    BY <1>2, <1>3, CountKept DEF ApInv
  <1>8. ChallengeGood'
    BY <1>3 DEF ApInv, ChallengeGood, Ap!ChallengeReturned
  <1> QED
    BY <1>3, <1>6, <1>7, <1>8 DEF ApInv

\* A challenge is asked for.
LEMMA ChallengeRequestGood ==
    ASSUME ApInv, NEW i \in 1..ApSlots, NEW w \in Wtp, Ap!ChallengeRequest(i, w)
    PROVE  ApInv'
  <1> DEFINE r == Ap!Authorize(a, i, "time", w, Ap!OwnsActive(i), clk)
  <1>1. SurfaceGood(r.a, hello, job, over') /\ Unused(r.a) <= Unused(a)
    BY AdmitGood DEF ApInv, Ap!ChallengeRequest, SurfaceGood
  <1>2. a' = r.a /\ tx' = tx + 1 /\ UNCHANGED <<job, hello, proved, done, clk>>
    BY DEF Ap!ChallengeRequest, Ap!Became
  <1>3. \/ /\ chal' = [token |-> a.soft[i].token, tx |-> tx + 1]
           /\ pending' = {[token |-> a.soft[i].token, tx |-> tx + 1]}
           /\ flight' = flight \cup {tx + 1}
        \/ UNCHANGED <<chal, pending, flight>>
    BY DEF Ap!ChallengeRequest, Ap!Taken
  <1> HIDE DEF r
  <1>4. ControllerGood(a') /\ Bound(a', hello') /\ JobHeld(a', job', over')
    BY <1>1, <1>2 DEF SurfaceGood
  <1>5. ProofsCounted(a', proved', done')
    BY <1>1, <1>2, CountKept DEF ApInv
  <1>6. ChallengeGood'
    <2>1. CASE UNCHANGED <<chal, pending, flight>>
      BY <1>2, <2>1 DEF ApInv, ChallengeGood, Ap!ChallengeReturned
    <2>2. CASE /\ chal' = [token |-> a.soft[i].token, tx |-> tx + 1]
               /\ pending' = {[token |-> a.soft[i].token, tx |-> tx + 1]}
               /\ flight' = flight \cup {tx + 1}
      <3>1. tx + 1 \in Nat /\ tx + 1 # 0 /\ tx' \in Nat
        BY <1>2 DEF ApInv, ChallengeGood
      <3>2. [token |-> chal'.token, tx |-> chal'.tx] \in pending'
        BY <2>2
      <3>3. 0 \notin flight' /\ flight' \subseteq Nat
        BY <2>2, <3>1 DEF ApInv, ChallengeGood
      <3> QED
        BY <3>1, <3>2, <3>3 DEF ChallengeGood, Ap!ChallengeReturned
    <2> QED
      BY <1>3, <2>1, <2>2
  <1> QED
    BY <1>2, <1>4, <1>5, <1>6 DEF ApInv

\* The sample for it.
LEMMA SubmitGood ==
    ASSUME ApInv, NEW i \in 1..ApSlots, NEW w \in Wtp, Ap!SubmitRequest(i, w)
    PROVE  ApInv'
  <1> DEFINE r == Ap!Authorize(a, i, "time", w, Ap!OwnsActive(i), clk)
  <1>1. SurfaceGood(r.a, hello, job, over') /\ Unused(r.a) <= Unused(a)
    BY AdmitGood DEF ApInv, Ap!SubmitRequest, SurfaceGood
  <1>2. a' = r.a /\ UNCHANGED <<job, hello, flight, tx, proved, done, clk>>
    BY DEF Ap!SubmitRequest, Ap!Became
  <1>3. chal' = Ap!NoChallenge \/ UNCHANGED <<chal, pending>>
    BY DEF Ap!SubmitRequest
  <1> HIDE DEF r
  <1>4. ControllerGood(a') /\ Bound(a', hello') /\ JobHeld(a', job', over')
    BY <1>1, <1>2 DEF SurfaceGood
  <1>5. ProofsCounted(a', proved', done')
    BY <1>1, <1>2, CountKept DEF ApInv
  <1>6. ChallengeGood'
    BY <1>2, <1>3 DEF ApInv, ChallengeGood, Ap!ChallengeReturned, Ap!NoChallenge
  <1> QED
    BY <1>2, <1>4, <1>5, <1>6 DEF ApInv

\* The reply was sent, or its connection was lost.
LEMMA FinishGood ==
    ASSUME ApInv, NEW k, NEW sent \in BOOLEAN, Ap!FinishRequest(k, sent)
    PROVE  ApInv'
  <1>1. UNCHANGED <<a, job, hello, tx, over, proved, done, clk>> /\ flight' = flight \ {k}
    BY DEF Ap!FinishRequest
  <1>2. ChallengeGood'
    <2>1. CASE sent
      BY <1>1, <2>1 DEF ApInv, ChallengeGood, Ap!ChallengeReturned, Ap!FinishRequest
    <2>2. CASE ~sent
      <3>1. chal' \in {chal, Ap!NoChallenge} /\ pending' = pending \ {p \in pending : p.tx = k}
        BY <2>2 DEF Ap!FinishRequest
      <3>2. tx' \in Nat /\ 0 \notin flight' /\ flight' \subseteq Nat
        BY <1>1 DEF ApInv, ChallengeGood
      <3>3. CASE chal' = Ap!NoChallenge
        BY <3>2, <3>3 DEF ChallengeGood, Ap!ChallengeReturned, Ap!NoChallenge
      <3>4. CASE chal' = chal /\ chal.tx \in flight'
        <4>1. [token |-> chal.token, tx |-> chal.tx] \in pending /\ chal.tx # k
          BY <1>1, <3>4 DEF ApInv, ChallengeGood, Ap!ChallengeReturned
        <4>2. [token |-> chal.token, tx |-> chal.tx] \in pending'
          BY <3>1, <4>1
        <4> QED
          BY <3>2, <3>4, <4>2 DEF ChallengeGood, Ap!ChallengeReturned
      <3>5. CASE chal' = chal /\ chal.tx \notin flight'
        BY <3>2, <3>5 DEF ChallengeGood, Ap!ChallengeReturned
      <3> QED
        BY <3>1, <3>3, <3>4, <3>5
    <2> QED
      BY <2>1, <2>2
  <1> QED
    BY <1>1, <1>2 DEF ApInv

\* A login has become bound to a session; nothing else has changed.
Greeted(y, i, w) ==
    /\ ControllerTyped(y) /\ y.st = a.st /\ y.rec = a.rec /\ y.proof = a.proof /\ y.tokens = a.tokens
    /\ a.soft[i].live /\ a.soft[i].wtp \in {"none", w}
    /\ y.soft[i].live /\ y.soft[i].token = a.soft[i].token /\ y.soft[i].epoch = a.soft[i].epoch
    /\ y.soft[i].under = a.soft[i].under /\ y.soft[i].wtp = w
    /\ \A j \in 1..ApSlots : j # i => y.soft[j] = a.soft[j]

\* HELLO leaves a login that is admitted bound to the session, and in use now.
LEMMA HelloBinds ==
    ASSUME SurfaceGood(a, hello, job, over), clk \in Nat, NEW i \in 1..ApSlots, NEW w \in Wtp,
           NEW r, r = Ap!Authorize(a, i, "hello", w, Ap!OwnsActive(i), clk), r.ok
    PROVE  LET b == Ap!Bind(r.a, i, w, clk)
               y == Ap!Authorize(b.a, i, "hello", w, Ap!OwnsActive(i), clk).a
           IN  b.ok /\ Greeted(y, i, w)
  <1> DEFINE q == [a.soft[i] EXCEPT !.last = clk]
             p == [q EXCEPT !.wtp = w, !.last = clk]
             u == [p EXCEPT !.last = clk]
             used == [a EXCEPT !.soft[i] = q]
             bound == [used EXCEPT !.soft[i] = p]
             b == Ap!Bind(r.a, i, w, clk)
             y == Ap!Authorize(b.a, i, "hello", w, Ap!OwnsActive(i), clk).a
             z == [bound EXCEPT !.soft[i] = u]
  <1>1. ControllerTyped(a) /\ a.soft[i] \in LoginTypes /\ w # "none"
    BY LoginsAssumption DEF SurfaceGood, ControllerGood, ControllerTyped
  <1>2. /\ Ap!Current(a, a.soft[i]) /\ a.soft[i].wtp \in {"none", w}
        /\ ~Ap!Elapsed(clk, a.soft[i].at, Absolute)
        /\ r.a = [a EXCEPT !.soft[i].last = clk]
    BY <1>1 DEF Ap!Authorize, Ap!Then, Ap!GraceOperation
  <1>3. r.a = used
    BY <1>2
  <1>4. q \in LoginTypes /\ q.live = a.soft[i].live /\ q.at = a.soft[i].at /\ q.epoch = a.soft[i].epoch
        /\ q.wtp = a.soft[i].wtp /\ q.last = clk /\ q.token = a.soft[i].token /\ q.under = a.soft[i].under
    BY <1>1 DEF LoginTypes
  <1>5. p \in LoginTypes /\ p.live = q.live /\ p.at = q.at /\ p.epoch = q.epoch /\ p.wtp = w /\ p.last = clk
        /\ p.token = q.token /\ p.under = q.under
    BY <1>4 DEF LoginTypes
  <1>6. u \in LoginTypes /\ u.live = p.live /\ u.epoch = p.epoch /\ u.wtp = w
        /\ u.token = p.token /\ u.under = p.under
    BY <1>5 DEF LoginTypes
  <1>7. ControllerTyped(used) /\ used.st = a.st /\ used.rec = a.rec /\ used.soft[i] = q
        /\ used.proof = a.proof /\ used.tokens = a.tokens /\ \A j \in 1..ApSlots : j # i => used.soft[j] = a.soft[j]
    BY <1>1, <1>4, LoginSet
  <1> HIDE DEF q, used
  <1>8. ControllerTyped(bound) /\ bound.st = used.st /\ bound.rec = used.rec /\ bound.soft[i] = p
        /\ bound.proof = used.proof /\ bound.tokens = used.tokens
        /\ \A j \in 1..ApSlots : j # i => bound.soft[j] = used.soft[j]
    BY <1>5, <1>7, LoginSet
  <1>9. ~Ap!Elapsed(clk, clk, Inactivity)
    BY LoginsAssumption DEF Ap!Elapsed
  <1>10. ~Ap!Lapsed(used, q, "none", clk)
    BY <1>2, <1>4, <1>7, <1>9 DEF Ap!Lapsed, Ap!Current, Ap!Healthy
  <1>11. b = [a |-> bound, ok |-> TRUE]
    <2>1. used.soft[i].live /\ used.soft[i].wtp \in {"none", w}
      BY <1>2, <1>4, <1>7 DEF Ap!Current
    <2>2. ~Ap!Lapsed(used, used.soft[i], "none", clk)
      BY <1>7, <1>10
    <2>3. Ap!Bind(used, i, w, clk) = [a |-> [used EXCEPT !.soft[i] = [@ EXCEPT !.wtp = w, !.last = clk]], ok |-> TRUE]
      BY <2>1, <2>2 DEF Ap!Bind, Ap!Then
    <2>4. b = Ap!Bind(used, i, w, clk)
      BY <1>3
    <2> QED
      BY <1>7, <2>3, <2>4
  <1> HIDE DEF p, bound
  <1>12. Ap!Current(bound, p) /\ ~Ap!Elapsed(clk, p.at, Absolute)
    BY <1>2, <1>4, <1>5, <1>7, <1>8 DEF Ap!Current, Ap!Healthy
  <1>13. ControllerTyped(z) /\ z.st = bound.st /\ z.rec = bound.rec /\ z.soft[i] = u
         /\ z.proof = bound.proof /\ z.tokens = bound.tokens
         /\ \A j \in 1..ApSlots : j # i => z.soft[j] = bound.soft[j]
    BY <1>6, <1>8, LoginSet
  <1>14. y = [bound EXCEPT !.soft[i].last = clk]
    <2>1. Ap!OwnsActive(i) \in BOOLEAN
      BY DEF Ap!OwnsActive
    <2>2. y = Ap!Authorize(bound, i, "hello", w, Ap!OwnsActive(i), clk).a
      BY <1>11
    <2> HIDE DEF y
    <2> QED
      <3>1. /\ Ap!Current(bound, bound.soft[i]) /\ bound.soft[i].wtp = w
            /\ ~Ap!Elapsed(clk, bound.soft[i].at, Absolute) /\ ~Ap!Elapsed(clk, bound.soft[i].last, Inactivity)
        BY <1>5, <1>8, <1>9, <1>12
      <3> QED
        BY <2>1, <2>2, <3>1, AuthorizeServes
  <1>15. y = z
    BY <1>8, <1>14
  <1>16. b.ok
    BY <1>11
  <1> HIDE DEF b, y, z, u
  <1>17. a.soft[i].live /\ a.soft[i].wtp \in {"none", w}
    BY <1>2 DEF Ap!Current
  <1>18. /\ ControllerTyped(y) /\ y.st = a.st /\ y.rec = a.rec /\ y.proof = a.proof /\ y.tokens = a.tokens
         /\ \A j \in 1..ApSlots : j # i => y.soft[j] = a.soft[j]
    BY <1>7, <1>8, <1>13, <1>15
  <1>19. /\ y.soft[i].live /\ y.soft[i].token = a.soft[i].token /\ y.soft[i].epoch = a.soft[i].epoch
         /\ y.soft[i].under = a.soft[i].under /\ y.soft[i].wtp = w
    BY <1>4, <1>5, <1>6, <1>13, <1>15, <1>17
  <1>20. Greeted(y, i, w)
    BY <1>17, <1>18, <1>19 DEF Greeted
  <1> QED
    BY <1>16, <1>20 DEF b, y

\* HELLO: the session is opened at the service, and the login bound to it.
LEMMA HelloGood ==
    ASSUME ApInv, NEW i \in 1..ApSlots, NEW w \in Wtp, Ap!HelloRequest(i, w)
    PROVE  ApInv'
  <1> DEFINE r == Ap!Authorize(a, i, "hello", w, Ap!OwnsActive(i), clk)
             b == Ap!Bind(r.a, i, w, clk)
             y == Ap!Authorize(b.a, i, "hello", w, Ap!OwnsActive(i), clk).a
  <1>1. Ap!Admit(i, "hello", w) /\ SurfaceGood(a, hello, job, over) /\ clk \in Nat
    BY DEF ApInv, Ap!HelloRequest, SurfaceGood
  <1>2. SurfaceGood(r.a, hello, job, over') /\ Unused(r.a) <= Unused(a)
    BY <1>1, AdmitGood
  <1>3. UNCHANGED <<job, chal, pending, flight, tx, proved, done, clk>>
    BY DEF Ap!HelloRequest
  <1>4. SurfaceGood(a', hello', job, over') /\ Unused(a') <= Unused(a)
    <2>1. CASE r.ok /\ Ap!Opens(w, a.soft[i].token)
      <3>1. hello' = [hello EXCEPT ![w] = a.soft[i].token]
        BY <2>1 DEF Ap!HelloRequest
      <3>0. b.ok /\ Greeted(y, i, w)
        BY <1>1, <2>1, HelloBinds
      <3>3. a' = y
        BY <2>1, <3>0 DEF Ap!HelloRequest, Ap!Became
      <3> HIDE DEF y
      <3>2. /\ ControllerTyped(y) /\ y.st = a.st /\ y.rec = a.rec /\ y.proof = a.proof /\ y.tokens = a.tokens
            /\ a.soft[i].live /\ a.soft[i].wtp \in {"none", w}
            /\ y.soft[i].live /\ y.soft[i].token = a.soft[i].token /\ y.soft[i].epoch = a.soft[i].epoch
            /\ y.soft[i].under = a.soft[i].under /\ y.soft[i].wtp = w
            /\ \A j \in 1..ApSlots : j # i => y.soft[j] = a.soft[j]
        BY <3>0 DEF Greeted
      <3>4. Thinned(a, y)
        BY <3>2 DEF Thinned
      <3>5. ControllerGood(y) /\ Bound(y, hello) /\ Unused(y) <= Unused(a)
        BY <1>1, <3>4, ThinnedGood DEF SurfaceGood
      <3>6. Bound(y, hello')
        <4>1. a.soft[i].token \in Nat /\ a.soft[i].token <= y.tokens /\ hello \in [Wtp -> Nat]
          BY <1>1, <3>2 DEF SurfaceGood, ControllerGood, TokensUnique, ControllerTyped, LoginTypes, Bound
        <4>2. hello' \in [Wtp -> Nat] /\ \A v \in Wtp : hello'[v] <= y.tokens
          BY <3>1, <3>5, <4>1 DEF Bound
        <4>3. ASSUME NEW v \in Wtp, NEW j \in 1..ApSlots, y.soft[j].live, y.soft[j].token = hello'[v]
              PROVE  y.soft[j].wtp = v
          <5>1. CASE v = w
            <6>1. j = i
              BY <3>1, <3>2, <3>5, <4>1, <4>3, <5>1 DEF ControllerGood, TokensUnique
            <6> QED
              BY <3>2, <5>1, <6>1
          <5>2. CASE v # w
            BY <3>1, <3>5, <4>1, <4>3, <5>2 DEF Bound
          <5> QED
            BY <5>1, <5>2
        <4> QED
          BY <4>2, <4>3 DEF Bound
      <3>7. JobHeld(y, job, over')
        <4> SUFFICES ASSUME job.st = "armed", job.by \notin over'
                     PROVE  \E j \in 1..ApSlots : Owns(y, job, j)
          BY <1>1 DEF JobHeld, SurfaceGood
        <4>1. job.by \notin over /\ job.owner \in Wtp /\ job.owner # "none"
          BY <1>1, LoginsAssumption DEF Ap!Admit, JobHeld, SurfaceGood
        <4>2. PICK j \in 1..ApSlots : Owns(a, job, j)
          BY <1>1, <4>1 DEF JobHeld, SurfaceGood
        <4>3. Owns(y, job, j)
          BY <3>2, <4>1, <4>2 DEF Owns, Ap!Healthy
        <4> QED
          BY <4>3
      <3> QED
        BY <3>3, <3>5, <3>6, <3>7 DEF SurfaceGood
    <2>2. CASE ~(r.ok /\ Ap!Opens(w, a.soft[i].token))
      BY <1>2, <2>2 DEF Ap!HelloRequest, Ap!Became
    <2> QED
      BY <2>1, <2>2
  <1>5. ProofsCounted(a', proved', done')
    BY <1>3, <1>4, CountKept DEF ApInv
  <1>6. ChallengeGood'
    BY <1>3 DEF ApInv, ChallengeGood, Ap!ChallengeReturned
  <1> QED
    BY <1>3, <1>4, <1>5, <1>6 DEF ApInv, SurfaceGood

-----------------------------------------------------------------------------

\* An update of the logins as a whole.
LEMMA LoginsSet ==
    ASSUME NEW x, ControllerTyped(x), NEW f \in [1..ApSlots -> LoginTypes]
    PROVE  LET y == [x EXCEPT !.soft = f]
           IN  /\ ControllerTyped(y) /\ y.st = x.st /\ y.rec = x.rec /\ y.tokens = x.tokens /\ y.proof = x.proof
               /\ y.soft = f
  BY DEF ControllerTyped

\* Logins that have run out are reclaimed, but for that of the job's owner.
LEMMA ReclaimGood ==
    ASSUME NEW x, NEW opened, NEW k, NEW late, SurfaceGood(x, opened, k, late), NEW now
    PROVE  LET y == Ap!Reclaim(x, k.owner, now)
           IN  SurfaceGood(y, opened, k, late) /\ Unused(y) <= Unused(x) /\ y.st = x.st /\ y.rec = x.rec
               /\ y.tokens = x.tokens /\ y.proof = x.proof
  <1> DEFINE f == [i \in 1..ApSlots |-> IF x.soft[i].live /\ Ap!Lapsed(x, x.soft[i], k.owner, now)
                                        THEN Ap!NoSession ELSE x.soft[i]]
             y == [x EXCEPT !.soft = f]
  <1>1. ControllerTyped(x)
    BY DEF SurfaceGood, ControllerGood
  <1>2. Ap!NoSession \in LoginTypes /\ ~Ap!NoSession.live
    BY DEF Ap!NoSession, LoginTypes
  <1>3. f \in [1..ApSlots -> LoginTypes]
    BY <1>1, <1>2 DEF ControllerTyped
  <1>4. \A i \in 1..ApSlots : f[i] = x.soft[i] \/ (f[i] = Ap!NoSession /\ Ap!Lapsed(x, x.soft[i], k.owner, now))
    OBVIOUS
  <1>5. y = Ap!Reclaim(x, k.owner, now)
    BY DEF Ap!Reclaim
  <1> HIDE DEF f
  <1>6. ControllerTyped(y) /\ y.st = x.st /\ y.rec = x.rec /\ y.tokens = x.tokens /\ y.proof = x.proof /\ y.soft = f
    BY <1>1, <1>3, LoginsSet
  <1> HIDE DEF y
  <1>7. Thinned(x, y)
    BY <1>2, <1>4, <1>6 DEF Thinned
  <1>8. ControllerGood(y) /\ Bound(y, opened) /\ Unused(y) <= Unused(x)
    BY <1>7, ThinnedGood DEF SurfaceGood
  <1>9. JobHeld(y, k, late)
    <2> SUFFICES ASSUME k.st = "armed", k.by \notin late
                 PROVE  \E i \in 1..ApSlots : Owns(y, k, i)
      BY DEF JobHeld, SurfaceGood
    <2>1. k.owner # "none"
      BY LoginsAssumption DEF JobHeld, SurfaceGood
    <2>2. PICK i \in 1..ApSlots : Owns(x, k, i)
      BY DEF JobHeld, SurfaceGood
    <2>3. ~Ap!Lapsed(x, x.soft[i], k.owner, now)
      BY <2>1, <2>2 DEF Ap!Lapsed, Owns, Ap!Healthy
    <2>4. y.soft[i] = x.soft[i]
      BY <1>4, <1>6, <2>3
    <2>5. Owns(y, k, i)
      BY <1>6, <2>2, <2>4 DEF Owns, Ap!Healthy
    <2> QED
      BY <2>5
  <1> QED
    BY <1>5, <1>6, <1>8, <1>9 DEF SurfaceGood

\* Among slots that are free there is a first one.
LEMMA FirstFree ==
    ASSUME NEW x, Ap!Free(x) # {}
    PROVE  (CHOOSE i \in Ap!Free(x) : \A j \in Ap!Free(x) : i <= j) \in Ap!Free(x)
  <1>1. Ap!Free(x) \subseteq Nat
    BY LoginsAssumption DEF Ap!Free
  <1> DEFINE Less == {ss \in Nat \X Nat : ss[1] < ss[2]}
  <1>2. IsWellFoundedOn(Less, Nat)
    BY NatLessThanWellFounded DEF OpToRel
  <1>3. \A i, j \in Nat : <<j, i>> \notin Less => i <= j
    OBVIOUS
  <1> HIDE DEF Less
  <1>4. PICK i \in Ap!Free(x) : \A j \in Ap!Free(x) : <<j, i>> \notin Less
    BY <1>1, <1>2, WFMin
  <1>5. \A j \in Ap!Free(x) : i <= j
    BY <1>1, <1>3, <1>4
  <1> QED
    BY <1>5

\* A login takes the first free slot, and a token of its own.
LEMMA LoginGood ==
    ASSUME ApInv, NEW pw \in Passwords, Ap!LoginRequest(pw)
    PROVE  ApInv'
  <1> DEFINE r == Ap!Reclaim(a, job.owner, clk)
             k == CHOOSE i \in Ap!Free(r) : \A j \in Ap!Free(r) : i <= j
             q == [live |-> TRUE, token |-> r.tokens + 1, wtp |-> "none", epoch |-> a.rec.epoch,
                   at |-> clk, last |-> clk, under |-> pw]
             u == [r EXCEPT !.tokens = @ + 1]
             y == [u EXCEPT !.soft[k] = q]
  <1>1. SurfaceGood(a, hello, job, over) /\ clk \in Nat
    BY DEF ApInv, SurfaceGood
  <1>2. SurfaceGood(r, hello, job, over) /\ Unused(r) <= Unused(a) /\ r.st = a.st /\ r.rec = a.rec
        /\ r.tokens = a.tokens /\ r.proof = a.proof
    BY <1>1, ReclaimGood
  <1>3. UNCHANGED <<job, hello, chal, pending, flight, tx, over, proved, done, clk>>
    BY DEF Ap!LoginRequest, Ap!Served
  <1>4. \/ a' = a
        \/ a' = r
        \/ Ap!PasswordMatches(a, pw) /\ Ap!Free(r) # {} /\ a' = [r EXCEPT !.tokens = @ + 1, !.soft[k] = q]
    BY DEF Ap!LoginRequest, Ap!Became, Ap!Login, Ap!Then
  <1>5. a.rec.epoch \in Nat /\ r.tokens \in Nat
    BY <1>1, <1>2 DEF SurfaceGood, ControllerGood, ControllerTyped
  <1>6. q \in LoginTypes
    BY <1>1, <1>5 DEF LoginTypes
  <1>7. q.live /\ q.token = r.tokens + 1 /\ q.wtp = "none" /\ q.epoch = a.rec.epoch /\ q.under = pw
    OBVIOUS
  <1>8. ControllerTyped(u) /\ u.st = r.st /\ u.rec = r.rec /\ u.proof = r.proof /\ u.soft = r.soft
        /\ u.tokens = r.tokens + 1
    BY <1>2, <1>5 DEF SurfaceGood, ControllerGood, ControllerTyped
  <1>9. [r EXCEPT !.tokens = @ + 1, !.soft[k] = q] = y
    OBVIOUS
  <1> HIDE DEF q, u, r
  <1>10. ASSUME Ap!PasswordMatches(a, pw), Ap!Free(r) # {}
         PROVE  SurfaceGood(y, hello, job, over) /\ Unused(y) <= Unused(a)
    <2>1. k \in 1..ApSlots /\ ~r.soft[k].live
      BY <1>10, FirstFree DEF Ap!Free
    <2> HIDE DEF k
    <2>2. ControllerTyped(y) /\ y.st = r.st /\ y.rec = r.rec /\ y.tokens = r.tokens + 1 /\ y.proof = r.proof
          /\ y.soft[k] = q /\ \A j \in 1..ApSlots : j # k => y.soft[j] = r.soft[j]
      <3>1. ControllerTyped(y) /\ y.st = u.st /\ y.rec = u.rec /\ y.tokens = u.tokens /\ y.proof = u.proof
            /\ y.soft[k] = q /\ \A j \in 1..ApSlots : j # k => y.soft[j] = u.soft[j]
        <4>1. ControllerTyped(u) /\ k \in 1..ApSlots /\ q \in LoginTypes
          BY <1>6, <1>8, <2>1
        <4> QED
          BY <4>1, LoginSet
      <3> HIDE DEF y
      <3> QED
        BY <1>8, <3>1
    <2> HIDE DEF y
    <2>3. TokensUnique(y)
      <3>1. \A j \in 1..ApSlots : y.soft[j].live => y.soft[j].token \in 1..y.tokens
        BY <1>2, <1>5, <1>7, <2>2 DEF SurfaceGood, ControllerGood, TokensUnique
      <3>2. \A j \in 1..ApSlots : j # k /\ y.soft[j].live => y.soft[j].token <= r.tokens
        BY <1>2, <2>2 DEF SurfaceGood, ControllerGood, TokensUnique
      <3>3. \A i, j \in 1..ApSlots : i # k /\ j # k /\ y.soft[i].live /\ y.soft[j].live
              /\ y.soft[i].token = y.soft[j].token => i = j
        BY <1>2, <2>2 DEF SurfaceGood, ControllerGood, TokensUnique
      <3>4. \A j \in 1..ApSlots : j # k /\ y.soft[j].live => y.soft[j].token # y.soft[k].token
        <4> SUFFICES ASSUME NEW j \in 1..ApSlots, j # k, y.soft[j].live
                     PROVE  y.soft[j].token # y.soft[k].token
          OBVIOUS
        <4>1. y.soft[j].token <= r.tokens /\ y.soft[k].token = r.tokens + 1 /\ y.soft[j].token \in 1..(r.tokens + 1)
          BY <1>7, <2>2, <3>1, <3>2
        <4> QED
          BY <1>5, <4>1
      <3> QED
        BY <3>1, <3>3, <3>4 DEF TokensUnique
    <2>4. Governed(y)
      BY <1>2, <1>7, <1>10, <2>2 DEF Governed, SurfaceGood, ControllerGood, Ap!PasswordMatches, Ap!Healthy
    <2>5. Bound(y, hello)
      <3>1. hello \in [Wtp -> Nat] /\ \A w \in Wtp : hello[w] <= r.tokens
        BY <1>2 DEF SurfaceGood, Bound
      <3>2. \A w \in Wtp : hello[w] <= y.tokens /\ hello[w] # r.tokens + 1
        BY <1>5, <2>2, <3>1
      <3> QED
        BY <1>2, <1>7, <2>2, <3>1, <3>2 DEF SurfaceGood, Bound
    <2>6. JobHeld(y, job, over)
      <3> SUFFICES ASSUME job.st = "armed", job.by \notin over
                   PROVE  \E j \in 1..ApSlots : Owns(y, job, j)
        BY <1>1 DEF JobHeld, SurfaceGood
      <3>1. PICK j \in 1..ApSlots : Owns(r, job, j)
        BY <1>2 DEF JobHeld, SurfaceGood
      <3>2. j # k
        BY <2>1, <3>1 DEF Owns
      <3>3. Owns(y, job, j)
        BY <2>2, <3>1, <3>2 DEF Owns, Ap!Healthy
      <3> QED
        BY <3>3
    <2>7. Unused(y) <= Unused(a)
      BY <1>2, <2>2 DEF Unused
    <2> QED
      BY <2>2, <2>3, <2>4, <2>5, <2>6, <2>7 DEF SurfaceGood, ControllerGood
  <1> HIDE DEF y
  <1>11. SurfaceGood(a', hello, job, over) /\ Unused(a') <= Unused(a)
    <2>1. Unused(a) <= Unused(a)
      BY DEF Unused
    <2> QED
      BY <1>1, <1>2, <1>4, <1>9, <1>10, <2>1
  <1>12. ProofsCounted(a', proved', done')
    BY <1>3, <1>11, CountKept DEF ApInv
  <1>13. ChallengeGood'
    BY <1>3 DEF ApInv, ChallengeGood, Ap!ChallengeReturned
  <1> QED
    BY <1>3, <1>11, <1>12, <1>13 DEF ApInv, SurfaceGood

\* A client logs out, unless its session owns the job.
LEMMA LogoutGood ==
    ASSUME ApInv, NEW i \in 1..ApSlots, NEW w \in Wtp, Ap!LogoutRequest(i, w)
    PROVE  ApInv'
  <1> DEFINE u == [a EXCEPT !.proof = Ap!NoProof]
             y == [a EXCEPT !.soft[i] = Ap!NoSession]
             z == [u EXCEPT !.soft[i] = Ap!NoSession]
  <1>1. SurfaceGood(a, hello, job, over) /\ clk \in Nat /\ ControllerTyped(a)
    BY DEF ApInv, SurfaceGood, ControllerGood
  <1>2. UNCHANGED <<job, hello, chal, pending, flight, tx, over, proved, done, clk>>
    BY DEF Ap!LogoutRequest, Ap!Served
  <1>3. a' = a \/ (a' \in {y, z} /\ ~(job.owner # "none" /\ a.soft[i].wtp = job.owner))
    BY DEF Ap!LogoutRequest, Ap!Became, Ap!Logout, Ap!Then
  <1>4. ControllerTyped(u) /\ u.st = a.st /\ u.rec = a.rec /\ u.tokens = a.tokens /\ u.soft = a.soft /\ ~u.proof.on
    BY <1>1 DEF ControllerTyped, Ap!NoProof
  <1>5. Ap!NoSession \in LoginTypes /\ ~Ap!NoSession.live
    BY DEF Ap!NoSession, LoginTypes
  <1> HIDE DEF u
  <1>6. /\ ControllerTyped(y) /\ y.st = a.st /\ y.rec = a.rec /\ y.tokens = a.tokens /\ y.proof = a.proof
        /\ ~y.soft[i].live /\ \A j \in 1..ApSlots : j # i => y.soft[j] = a.soft[j]
    BY <1>1, <1>5, LoginSet
  <1>7. /\ ControllerTyped(z) /\ z.st = a.st /\ z.rec = a.rec /\ z.tokens = a.tokens /\ ~z.proof.on
        /\ ~z.soft[i].live /\ \A j \in 1..ApSlots : j # i => z.soft[j] = a.soft[j]
    BY <1>4, <1>5, LoginSet
  <1> HIDE DEF y, z
  <1>8. ASSUME NEW v, v \in {y, z}, ~(job.owner # "none" /\ a.soft[i].wtp = job.owner)
        PROVE  SurfaceGood(v, hello, job, over) /\ Unused(v) <= Unused(a)
    <2>1. Thinned(a, v)
      BY <1>6, <1>7, <1>8 DEF Thinned
    <2>2. ControllerGood(v) /\ Bound(v, hello) /\ Unused(v) <= Unused(a)
      BY <1>1, <2>1, ThinnedGood DEF SurfaceGood
    <2>3. JobHeld(v, job, over)
      <3> SUFFICES ASSUME job.st = "armed", job.by \notin over
                   PROVE  \E j \in 1..ApSlots : Owns(v, job, j)
        BY <1>1 DEF JobHeld, SurfaceGood
      <3>1. PICK j \in 1..ApSlots : Owns(a, job, j)
        BY <1>1 DEF JobHeld, SurfaceGood
      <3>2. job.owner # "none" /\ j # i
        BY <1>1, <1>8, <3>1, LoginsAssumption DEF Owns, JobHeld, SurfaceGood
      <3>3. Owns(v, job, j)
        BY <1>6, <1>7, <1>8, <3>1, <3>2 DEF Owns, Ap!Healthy
      <3> QED
        BY <3>3
    <2> QED
      BY <2>2, <2>3 DEF SurfaceGood
  <1>9. SurfaceGood(a', hello, job, over) /\ Unused(a') <= Unused(a)
    <2>1. Unused(a) <= Unused(a)
      BY DEF Unused
    <2> QED
      BY <1>1, <1>3, <1>8, <2>1
  <1>10. ProofsCounted(a', proved', done')
    BY <1>2, <1>9, CountKept DEF ApInv
  <1>11. ChallengeGood'
    BY <1>2 DEF ApInv, ChallengeGood, Ap!ChallengeReturned
  <1> QED
    BY <1>2, <1>9, <1>10, <1>11 DEF ApInv, SurfaceGood

\* The main loop reclaims the logins that have run out.
LEMMA MainLoopGood ==
    ASSUME ApInv, Ap!MainLoop
    PROVE  ApInv'
  <1>1. SurfaceGood(a, hello, job, over)
    BY DEF ApInv, SurfaceGood
  <1>2. a' = Ap!Reclaim(a, job.owner, clk)
        /\ UNCHANGED <<job, hello, chal, pending, flight, tx, over, proved, done, clk>>
    BY DEF Ap!MainLoop
  <1>3. SurfaceGood(a', hello, job, over) /\ Unused(a') <= Unused(a)
    BY <1>1, <1>2, ReclaimGood
  <1>4. ProofsCounted(a', proved', done')
    BY <1>2, <1>3, CountKept DEF ApInv
  <1>5. ChallengeGood'
    BY <1>2 DEF ApInv, ChallengeGood, Ap!ChallengeReturned
  <1> QED
    BY <1>2, <1>3, <1>4, <1>5 DEF ApInv, SurfaceGood

\* The job ends by itself.
LEMMA JobEndsGood ==
    ASSUME ApInv, Ap!JobEnds
    PROVE  ApInv'
  <1>1. UNCHANGED <<a, hello, chal, pending, flight, tx, over, proved, done, clk>> /\ job' = Ap!NoJob
    BY DEF Ap!JobEnds
  <1>2. JobHeld(a, job', over)
    BY <1>1 DEF JobHeld, JobTypes, Ap!NoJob
  <1> QED
    BY <1>1, <1>2 DEF ApInv, ChallengeGood, Ap!ChallengeReturned

\* A challenge that was never answered is given up.
LEMMA ChallengeExpiresGood ==
    ASSUME ApInv, Ap!ChallengeExpires
    PROVE  ApInv'
  <1>1. UNCHANGED <<a, job, hello, pending, flight, tx, over, proved, done, clk>> /\ chal' = Ap!NoChallenge
    BY DEF Ap!ChallengeExpires
  <1>2. ChallengeGood'
    BY <1>1 DEF ApInv, ChallengeGood, Ap!ChallengeReturned, Ap!NoChallenge
  <1> QED
    BY <1>1, <1>2 DEF ApInv

\* Time passes.
LEMMA ApTickGood ==
    ASSUME ApInv, Ap!Tick
    PROVE  ApInv'
  <1>1. UNCHANGED <<a, job, hello, chal, pending, flight, tx, over, proved, done>> /\ clk' = clk + 1
    BY DEF Ap!Tick
  <1>2. ChallengeGood'
    BY <1>1 DEF ApInv, ChallengeGood, Ap!ChallengeReturned
  <1> QED
    BY <1>1, <1>2 DEF ApInv

-----------------------------------------------------------------------------

\* A controller that differs in its proof alone.
LEMMA ProofSet ==
    ASSUME NEW x, SurfaceGood(x, hello, job, over), NEW p,
           DOMAIN p = {"on", "bind", "at", "epoch", "pwd", "conf"}, p.on \in BOOLEAN, p.pwd \in BOOLEAN
    PROVE  LET y == [x EXCEPT !.proof = p]
           IN  /\ SurfaceGood(y, hello, job, over) /\ y.proof = p /\ y.st = x.st /\ y.rec = x.rec
               /\ y.soft = x.soft /\ y.tokens = x.tokens
  <1> DEFINE y == [x EXCEPT !.proof = p]
  <1>1. ControllerTyped(y) /\ y.st = x.st /\ y.rec = x.rec /\ y.tokens = x.tokens /\ y.soft = x.soft /\ y.proof = p
    BY DEF SurfaceGood, ControllerGood, ControllerTyped
  <1> HIDE DEF y
  <1>2. ControllerGood(y) /\ Bound(y, hello)
    BY <1>1 DEF SurfaceGood, ControllerGood, TokensUnique, Governed, Bound, Ap!Healthy
  <1>3. JobHeld(y, job, over)
    BY <1>1 DEF SurfaceGood, JobHeld, Owns, Ap!Healthy
  <1> QED
    BY <1>1, <1>2, <1>3 DEF y, SurfaceGood

\* The password is proved for one operation.
LEMMA ProveGood ==
    ASSUME ApInv, NEW i \in 1..ApSlots, NEW pw, NEW op, Ap!Prove(i, pw, op)
    PROVE  ApInv'
  <1> DEFINE p == [on |-> TRUE, bind |-> Ap!Binding(i, op), at |-> clk, epoch |-> a.rec.epoch,
                   pwd |-> TRUE, conf |-> FALSE]
  <1>1. UNCHANGED <<job, hello, chal, pending, flight, tx, over, done, clk>>
    BY DEF Ap!Prove
  <1>2. (a' = a /\ proved' = proved) \/ (a' = [a EXCEPT !.proof = p] /\ proved' = proved + 1)
    BY DEF Ap!Prove, Ap!Became, Ap!ProvePassword, Ap!Then
  <1>3. DOMAIN p = {"on", "bind", "at", "epoch", "pwd", "conf"} /\ p.on \in BOOLEAN /\ p.pwd \in BOOLEAN
    OBVIOUS
  <1> HIDE DEF p
  <1>4. SurfaceGood(a, hello, job, over)
    BY DEF ApInv, SurfaceGood
  <1>5. SurfaceGood([a EXCEPT !.proof = p], hello, job, over)
    BY <1>3, <1>4, ProofSet
  <1>6. SurfaceGood(a', hello, job, over)
    BY <1>2, <1>4, <1>5
  <1>7. ProofsCounted(a', proved', done')
    <2>1. CASE a' = a /\ proved' = proved
      BY <1>1, <2>1 DEF ApInv
    <2>2. CASE proved' = proved + 1
      <3>1. Unused(a') \in {0, 1} /\ Unused(a) \in {0, 1}
        BY DEF Unused
      <3> QED
        BY <1>1, <2>2, <3>1 DEF ApInv, ProofsCounted
    <2> QED
      BY <1>2, <2>1, <2>2
  <1>8. ChallengeGood'
    BY <1>1 DEF ApInv, ChallengeGood, Ap!ChallengeReturned
  <1> QED
    BY <1>1, <1>6, <1>7, <1>8 DEF ApInv, SurfaceGood

\* A confirmation at the device is no password.
LEMMA ConfirmGood ==
    ASSUME ApInv, NEW i \in 1..ApSlots, NEW op, Ap!Confirm(i, op)
    PROVE  ApInv'
  <1> DEFINE p == [on |-> TRUE, bind |-> Ap!Binding(i, op), at |-> clk, epoch |-> Ap!Record(a).epoch,
                   pwd |-> FALSE, conf |-> TRUE]
             q == [a.proof EXCEPT !.conf = TRUE]
  <1>1. UNCHANGED <<job, hello, chal, pending, flight, tx, over, proved, done, clk>>
    BY DEF Ap!Confirm, Ap!Served
  <1>2. a' = [a EXCEPT !.proof = q] \/ a' = [a EXCEPT !.proof = p]
    BY DEF Ap!Confirm, Ap!ConfirmLocal
  <1>3. DOMAIN p = {"on", "bind", "at", "epoch", "pwd", "conf"} /\ p.on \in BOOLEAN /\ p.pwd \in BOOLEAN /\ ~p.pwd
    OBVIOUS
  <1>4. SurfaceGood(a, hello, job, over) /\ ControllerTyped(a)
    BY DEF ApInv, SurfaceGood, ControllerGood
  <1>5. DOMAIN q = {"on", "bind", "at", "epoch", "pwd", "conf"} /\ q.on = a.proof.on /\ q.pwd = a.proof.pwd
    BY <1>4 DEF ControllerTyped
  <1>6. a.proof.on \in BOOLEAN /\ a.proof.pwd \in BOOLEAN
    BY <1>4 DEF ControllerTyped
  <1> HIDE DEF p, q
  <1>7. SurfaceGood(a', hello, job, over) /\ (a'.proof = p \/ a'.proof = q)
    <2>1. SurfaceGood([a EXCEPT !.proof = p], hello, job, over) /\ [a EXCEPT !.proof = p].proof = p
      BY <1>3, <1>4, ProofSet
    <2>2. SurfaceGood([a EXCEPT !.proof = q], hello, job, over) /\ [a EXCEPT !.proof = q].proof = q
      BY <1>4, <1>5, <1>6, ProofSet
    <2> QED
      BY <1>2, <2>1, <2>2
  <1>8. Unused(a') <= Unused(a)
    BY <1>3, <1>5, <1>7 DEF Unused
  <1>9. ProofsCounted(a', proved', done')
    BY <1>1, <1>8, CountKept DEF ApInv
  <1>10. ChallengeGood'
    BY <1>1 DEF ApInv, ChallengeGood, Ap!ChallengeReturned
  <1> QED
    BY <1>1, <1>7, <1>9, <1>10 DEF ApInv, SurfaceGood

-----------------------------------------------------------------------------

\* Changes of the record that give nobody authority: a fault, or bonds and flags.
Curbed(x, y) ==
    /\ ControllerTyped(y) /\ y.tokens = x.tokens /\ y.soft = x.soft /\ y.proof = x.proof
    /\ Ap!Healthy(y) => /\ Ap!Healthy(x) /\ y.rec.epoch = x.rec.epoch /\ y.rec.pwd = x.rec.pwd
                        /\ y.rec.bonds \subseteq x.rec.bonds

\* Such a change keeps the invariant.
LEMMA CurbedGood ==
    ASSUME NEW x, NEW y, ControllerGood(x), Curbed(x, y)
    PROVE  ControllerGood(y) /\ (Bound(x, hello) => Bound(y, hello)) /\ Unused(y) = Unused(x)
  <1>1. TokensUnique(y)
    BY DEF ControllerGood, Curbed, TokensUnique
  <1>2. Governed(y)
    BY DEF ControllerGood, Curbed, Governed
  <1> QED
    BY <1>1, <1>2 DEF ControllerGood, Curbed, Bound, Unused

\* Two such changes are one.
LEMMA CurbedTwice ==
    ASSUME NEW x, NEW y, NEW z, Curbed(x, y), Curbed(y, z)
    PROVE  Curbed(x, z)
  BY DEF Curbed

\* A write of the record succeeds, or leaves the store in fault.
LEMMA ReplaceTyped ==
    ASSUME NEW x, ControllerTyped(x), NEW q, NEW works \in BOOLEAN,
           DOMAIN q = {"epoch", "pwd", "dflt", "bonds", "bleOff", "field"}, q.epoch \in Nat
    PROVE  LET r == Ap!Replace(x, q, works)
           IN  /\ ControllerTyped(r.a) /\ r.a.tokens = x.tokens /\ r.a.soft = x.soft /\ r.a.proof = x.proof
               /\ Ap!Healthy(r.a) => Ap!Healthy(x) /\ r.a.rec = q
               /\ Ap!Healthy(x) /\ ~r.ok => ~Ap!Healthy(r.a)
  <1> DEFINE r == Ap!Replace(x, q, works)
             kept == [x EXCEPT !.rec = q]
             bad == [x EXCEPT !.st = "fault"]
  <1>1. ControllerTyped(kept) /\ kept.tokens = x.tokens /\ kept.soft = x.soft /\ kept.proof = x.proof
        /\ kept.st = x.st /\ kept.rec = q
    BY DEF ControllerTyped
  <1>2. ControllerTyped(bad) /\ bad.tokens = x.tokens /\ bad.soft = x.soft /\ bad.proof = x.proof
        /\ bad.st = "fault"
    BY DEF ControllerTyped
  <1>3. r = IF ~Ap!Healthy(x) THEN [a |-> x, ok |-> FALSE]
            ELSE IF q = x.rec THEN [a |-> x, ok |-> TRUE]
            ELSE IF works THEN [a |-> kept, ok |-> TRUE]
            ELSE [a |-> bad, ok |-> FALSE]
    BY DEF Ap!Replace, Ap!Then
  <1> HIDE DEF kept, bad, r
  <1> QED
    BY <1>1, <1>2, <1>3 DEF Ap!Healthy, r

\* A write that keeps epoch and password, and adds no bond.
LEMMA ReplaceCurbed ==
    ASSUME NEW x, ControllerTyped(x), NEW q, NEW works \in BOOLEAN,
           DOMAIN q = {"epoch", "pwd", "dflt", "bonds", "bleOff", "field"},
           q.epoch = x.rec.epoch, q.pwd = x.rec.pwd, q.bonds \subseteq x.rec.bonds
    PROVE  Curbed(x, Ap!Replace(x, q, works).a)
  <1>1. q.epoch \in Nat
    BY DEF ControllerTyped
  <1> QED
    BY <1>1, ReplaceTyped DEF Curbed

\* Bluetooth is marked as off.
LEMMA MarkCurbed ==
    ASSUME NEW x, ControllerTyped(x), NEW fails
    PROVE  Curbed(x, Ap!MarkBleDisabled(x, fails))
  <1> DEFINE q == [x.rec EXCEPT !.bleOff = TRUE]
  <1>1. DOMAIN q = {"epoch", "pwd", "dflt", "bonds", "bleOff", "field"}
        /\ q.epoch = x.rec.epoch /\ q.pwd = x.rec.pwd /\ q.bonds \subseteq x.rec.bonds
    BY DEF ControllerTyped
  <1> HIDE DEF q
  <1>2. Curbed(x, Ap!Replace(x, q, "mark" \notin fails).a)
    BY <1>1, ReplaceCurbed
  <1>3. Curbed(x, x)
    BY DEF Curbed
  <1> QED
    BY <1>2, <1>3 DEF Ap!MarkBleDisabled, q

\* A bond is erased from the stack, or Bluetooth marked as off.
LEMMA ForgetCurbed ==
    ASSUME NEW x, ControllerTyped(x), NEW peer, NEW fails
    PROVE  Curbed(x, Ap!Forget(x, peer, fails).a)
  <1> DEFINE y == [x EXCEPT !.stack = @ \ {peer}]
  <1>1. Curbed(x, y)
    BY DEF Curbed, ControllerTyped, Ap!Healthy
  <1>2. Ap!Forget(x, peer, fails).a \in {y, Ap!MarkBleDisabled(x, fails)}
    BY DEF Ap!Forget, Ap!Then
  <1> HIDE DEF y
  <1> QED
    BY <1>1, <1>2, MarkCurbed

\* A change is admitted with a proof of the password, that is used up; while a job is owned
\* nothing is.
LEMMA SensitiveConsumes ==
    ASSUME NEW x, ControllerGood(x), Bound(x, hello), NEW b, NEW idle \in BOOLEAN, NEW now
    PROVE  LET g == Ap!AuthorizeSensitive(x, b, idle, now)
           IN  /\ ~idle => g = [a |-> x, ok |-> FALSE]
               /\ ControllerGood(g.a) /\ Bound(g.a, hello) /\ Unused(g.a) <= Unused(x)
               /\ g.ok => Unused(g.a) = 0 /\ Unused(x) = 1 /\ Ap!Healthy(g.a)
  <1> DEFINE g == Ap!AuthorizeSensitive(x, b, idle, now)
             y == [x EXCEPT !.proof = Ap!NoProof]
  <1>1. ControllerTyped(y) /\ y.st = x.st /\ y.rec = x.rec /\ y.tokens = x.tokens /\ y.soft = x.soft /\ ~y.proof.on
    BY DEF ControllerGood, ControllerTyped, Ap!NoProof
  <1>2. g = [a |-> x, ok |-> FALSE] \/ (idle /\ Ap!Healthy(x) /\ g.a = y /\ (g.ok => x.proof.on /\ x.proof.pwd))
    BY DEF Ap!AuthorizeSensitive, Ap!Consume, Ap!ProofValid, Ap!Then
  <1> HIDE DEF g, y
  <1>3. Thinned(x, y)
    BY <1>1 DEF Thinned
  <1>4. ControllerGood(y) /\ Bound(y, hello) /\ Unused(y) <= Unused(x)
    BY <1>3, ThinnedGood
  <1>5. Unused(y) = 0 /\ Unused(x) <= Unused(x)
    BY <1>1 DEF Unused
  <1>6. x.proof.on /\ x.proof.pwd => Unused(x) = 1
    BY DEF Unused
  <1> QED
    BY <1>1, <1>2, <1>4, <1>5, <1>6 DEF g, Ap!Healthy

\* What an operation that needs a proof leaves: nothing while a job is owned, and a proof less
\* when it was done.
Settled(r, idle) ==
    /\ ~idle => r.a = a /\ ~r.ok
    /\ ControllerGood(r.a) /\ Bound(r.a, hello)
    /\ Unused(r.a) <= Unused(a) /\ (r.ok => Unused(r.a) = 0 /\ Unused(a) = 1)

\* The field mode is set.
LEMMA FieldModeSettled ==
    ASSUME ControllerGood(a), Bound(a, hello), NEW on, NEW b, NEW idle \in BOOLEAN, NEW f
    PROVE  Settled(Ap!SetFieldMode(a, on, b, idle, clk, f), idle)
  <1> DEFINE g == Ap!AuthorizeSensitive(a, b, idle, clk)
             q == [g.a.rec EXCEPT !.field = on]
             r == Ap!Replace(g.a, q, "store" \notin f)
  <1>1. /\ ~idle => g = [a |-> a, ok |-> FALSE]
        /\ ControllerGood(g.a) /\ Bound(g.a, hello) /\ Unused(g.a) <= Unused(a)
        /\ g.ok => Unused(g.a) = 0 /\ Unused(a) = 1 /\ Ap!Healthy(g.a)
    BY SensitiveConsumes
  <1>2. Ap!SetFieldMode(a, on, b, idle, clk, f) = IF ~g.ok THEN g ELSE r
    BY DEF Ap!SetFieldMode
  <1> HIDE DEF g
  <1>3. DOMAIN q = {"epoch", "pwd", "dflt", "bonds", "bleOff", "field"}
        /\ q.epoch = g.a.rec.epoch /\ q.pwd = g.a.rec.pwd /\ q.bonds \subseteq g.a.rec.bonds
    BY <1>1 DEF ControllerGood, ControllerTyped
  <1> HIDE DEF q
  <1>4. Curbed(g.a, r.a)
    BY <1>1, <1>3, ReplaceCurbed DEF ControllerGood
  <1> HIDE DEF r
  <1>5. ControllerGood(r.a) /\ Bound(r.a, hello) /\ Unused(r.a) = Unused(g.a)
    BY <1>1, <1>4, CurbedGood
  <1> QED
    BY <1>1, <1>2, <1>5 DEF Settled

\* A bond is removed.
LEMMA RemoveBondSettled ==
    ASSUME ControllerGood(a), Bound(a, hello), NEW peer, NEW b, NEW idle \in BOOLEAN, NEW f
    PROVE  Settled(Ap!RemoveBond(a, peer, b, idle, clk, f), idle)
  <1> DEFINE g == Ap!AuthorizeSensitive(a, b, idle, clk)
             q == [g.a.rec EXCEPT !.bonds = {x \in @ : x.peer # peer}]
             d == Ap!Replace(g.a, q, "store" \notin f)
             e == IF d.a.ble.peer = peer THEN [d.a EXCEPT !.ble = Ap!NoPeer] ELSE d.a
             r == Ap!Forget(e, peer, f)
             z == Ap!RemoveBond(a, peer, b, idle, clk, f)
  <1>1. /\ ~idle => g = [a |-> a, ok |-> FALSE]
        /\ ControllerGood(g.a) /\ Bound(g.a, hello) /\ Unused(g.a) <= Unused(a)
        /\ g.ok => Unused(g.a) = 0 /\ Unused(a) = 1 /\ Ap!Healthy(g.a)
    BY SensitiveConsumes
  <1>2. z = IF ~g.ok \/ ~Ap!Retained(a, peer) THEN [a |-> g.a, ok |-> FALSE]
            ELSE IF ~d.ok THEN d ELSE r
    BY DEF Ap!RemoveBond, Ap!Then
  <1> HIDE DEF g
  <1>3. DOMAIN q = {"epoch", "pwd", "dflt", "bonds", "bleOff", "field"}
        /\ q.epoch = g.a.rec.epoch /\ q.pwd = g.a.rec.pwd /\ q.bonds \subseteq g.a.rec.bonds
    BY <1>1 DEF ControllerGood, ControllerTyped
  <1> HIDE DEF q
  <1>4. Curbed(g.a, d.a)
    BY <1>1, <1>3, ReplaceCurbed DEF ControllerGood
  <1> HIDE DEF d
  <1>5. Curbed(d.a, e)
    BY <1>4 DEF Curbed, ControllerTyped, Ap!Healthy
  <1> HIDE DEF e
  <1>6. Curbed(e, r.a)
    BY <1>5, ForgetCurbed DEF Curbed
  <1> HIDE DEF r
  <1>7. Curbed(g.a, r.a)
    BY <1>4, <1>5, <1>6, CurbedTwice
  <1>8. ControllerGood(d.a) /\ Bound(d.a, hello) /\ Unused(d.a) = Unused(g.a)
    BY <1>1, <1>4, CurbedGood
  <1>9. ControllerGood(r.a) /\ Bound(r.a, hello) /\ Unused(r.a) = Unused(g.a)
    BY <1>1, <1>7, CurbedGood
  <1> HIDE DEF z
  <1> QED
    BY <1>1, <1>2, <1>8, <1>9 DEF Settled, z

\* A new password ends every login: none of them is of the new epoch.
LEMMA PasswordSettled ==
    ASSUME ControllerGood(a), Bound(a, hello), NEW pw, NEW b, NEW idle \in BOOLEAN, NEW f
    PROVE  Settled(Ap!ChangePassword(a, pw, b, idle, clk, f), idle)
  <1> DEFINE g == Ap!AuthorizeSensitive(a, b, idle, clk)
             q == Ap!Changed(g.a.rec, pw)
             d == Ap!Replace(g.a, q, "store" \notin f)
             e == Ap!InvalidateAllVolatile(d.a)
             v == [e EXCEPT !.stack = {}]
             u == Ap!MarkBleDisabled(e, f)
             z == Ap!ChangePassword(a, pw, b, idle, clk, f)
  <1>1. /\ ~idle => g = [a |-> a, ok |-> FALSE]
        /\ ControllerGood(g.a) /\ Bound(g.a, hello) /\ Unused(g.a) <= Unused(a)
        /\ g.ok => Unused(g.a) = 0 /\ Unused(a) = 1 /\ Ap!Healthy(g.a)
    BY SensitiveConsumes
  <1>2. z = IF ~g.ok THEN g ELSE IF ~d.ok THEN d
            ELSE IF "stack" \notin f THEN [a |-> v, ok |-> TRUE] ELSE [a |-> u, ok |-> FALSE]
    BY DEF Ap!ChangePassword, Ap!Then
  <1> HIDE DEF g
  <1>3. DOMAIN q = {"epoch", "pwd", "dflt", "bonds", "bleOff", "field"} /\ q.epoch \in Nat /\ q.bonds = {}
    BY <1>1 DEF ControllerGood, ControllerTyped, Ap!Changed
  <1> HIDE DEF q
  <1>4. /\ ControllerTyped(d.a) /\ d.a.tokens = g.a.tokens /\ d.a.soft = g.a.soft /\ d.a.proof = g.a.proof
        /\ Ap!Healthy(d.a) => d.a.rec = q
        /\ g.ok /\ ~d.ok => ~Ap!Healthy(d.a)
    <2>1. ControllerTyped(g.a) /\ (g.ok => Ap!Healthy(g.a))
      BY <1>1 DEF ControllerGood
    <2> QED
      BY <1>3, <2>1, ReplaceTyped
  <1> HIDE DEF d
  <1>5. ASSUME g.ok, ~d.ok
        PROVE  ControllerGood(d.a) /\ Bound(d.a, hello) /\ Unused(d.a) = 0
    BY <1>1, <1>4, <1>5 DEF ControllerGood, TokensUnique, Governed, Bound, Unused
  <1>6. ASSUME g.ok, d.ok
        PROVE  ControllerGood(e) /\ Bound(e, hello) /\ Unused(e) = 0
    <2>1. ControllerTyped(e) /\ e.tokens = d.a.tokens /\ e.rec = d.a.rec /\ e.st = d.a.st /\ ~e.proof.on
          /\ \A i \in 1..ApSlots : ~e.soft[i].live
      <3> DEFINE none == [i \in 1..ApSlots |-> Ap!NoSession]
      <3>1. none \in [1..ApSlots -> LoginTypes] /\ \A i \in 1..ApSlots : ~none[i].live
        BY DEF Ap!NoSession, LoginTypes
      <3>2. e = [d.a EXCEPT !.proof = Ap!NoProof, !.ble = Ap!NoPeer, !.soft = none, !.enr = -1]
        BY DEF Ap!InvalidateAllVolatile
      <3> HIDE DEF none, e
      <3> QED
        BY <1>4, <3>1, <3>2 DEF ControllerTyped, Ap!NoProof
    <2> HIDE DEF e
    <2>2. Governed(e)
      BY <1>3, <1>4, <1>6, <2>1 DEF Governed, Ap!Healthy
    <2> QED
      BY <1>1, <1>4, <2>1, <2>2 DEF ControllerGood, TokensUnique, Bound, Unused
  <1> HIDE DEF e
  <1>7. ASSUME g.ok, d.ok
        PROVE  Curbed(e, v) /\ Curbed(e, u)
    <2>1. ControllerTyped(e)
      BY <1>6, <1>7 DEF ControllerGood
    <2>2. Curbed(e, v)
      BY <2>1 DEF Curbed, ControllerTyped, Ap!Healthy
    <2> QED
      BY <2>1, <2>2, MarkCurbed
  <1> HIDE DEF v, u
  <1>8. ASSUME g.ok, d.ok
        PROVE  /\ ControllerGood(v) /\ Bound(v, hello) /\ Unused(v) = 0
               /\ ControllerGood(u) /\ Bound(u, hello) /\ Unused(u) = 0
    BY <1>6, <1>7, <1>8, CurbedGood
  <1>9. Unused(a) \in {0, 1}
    BY DEF Unused
  <1> HIDE DEF z
  <1>10. CASE ~g.ok
    BY <1>1, <1>2, <1>10 DEF Settled, z
  <1>11. CASE g.ok /\ ~d.ok
    BY <1>1, <1>2, <1>5, <1>9, <1>11 DEF Settled, z
  <1>12. CASE g.ok /\ d.ok
    <2>1. idle
      BY <1>1, <1>12
    <2> QED
      BY <1>1, <1>2, <1>8, <1>9, <1>12, <2>1 DEF Settled, z
  <1> QED
    BY <1>10, <1>11, <1>12

\* An operation that needs a proof of the password.
LEMMA SensitiveGood ==
    ASSUME ApInv, NEW i \in 1..ApSlots, NEW f, Ap!Sensitive(i, f)
    PROVE  ApInv'
  <1>1. ControllerGood(a) /\ Bound(a, hello) /\ Ap!Idle \in BOOLEAN
    BY DEF ApInv, Ap!Idle
  <1>2. UNCHANGED <<job, hello, chal, pending, flight, tx, over, proved, clk>>
    BY DEF Ap!Sensitive
  <1>3. PICK r : Settled(r, Ap!Idle) /\ Ap!Did(r)
    BY <1>1, PasswordSettled, FieldModeSettled, RemoveBondSettled DEF Ap!Sensitive
  <1>4. a' = r.a /\ done' = IF r.ok THEN done + 1 ELSE done
    BY <1>3 DEF Ap!Did, Ap!Became
  <1>5. ControllerGood(a') /\ Bound(a', hello')
    BY <1>2, <1>3, <1>4 DEF Settled
  <1>6. JobHeld(a', job', over')
    <2>1. CASE Ap!Idle
      BY <1>2, <2>1 DEF ApInv, JobHeld, Ap!Idle
    <2>2. CASE ~Ap!Idle
      BY <1>2, <1>3, <1>4, <2>2 DEF ApInv, Settled
    <2> QED
      BY <2>1, <2>2
  <1>7. ProofsCounted(a', proved', done')
    <2>1. CASE r.ok
      BY <1>2, <1>3, <1>4, <2>1 DEF ApInv, Settled, ProofsCounted
    <2>2. CASE ~r.ok
      BY <1>2, <1>3, <1>4, <2>2, CountKept DEF ApInv, Settled
    <2> QED
      BY <2>1, <2>2
  <1>8. ChallengeGood'
    BY <1>2 DEF ApInv, ChallengeGood, Ap!ChallengeReturned
  <1> QED
    BY <1>2, <1>5, <1>6, <1>7, <1>8 DEF ApInv

-----------------------------------------------------------------------------

\* The access point as it is set up: one bond, nobody logged in.
LEMMA ApInit ==
    ASSUME Ap!Init
    PROVE  ApInv
  <1>1. ControllerTyped(a) /\ a.tokens = 0 /\ ~a.proof.on /\ \A i \in 1..ApSlots : ~a.soft[i].live
    <2>1. Ap!NoSession \in LoginTypes /\ ~Ap!NoSession.live
      BY DEF Ap!NoSession, LoginTypes
    <2> QED
      BY <2>1 DEF Ap!Init, Ap!Started, Ap!NoProof, Ap!NoRecord, ControllerTyped
  <1>2. \A b \in a.rec.bonds : b.under = a.rec.pwd
    <2>1. a.rec = [Ap!NoRecord EXCEPT !.epoch = 1, !.bonds = {[peer |-> 1, under |-> 0]}]
      BY DEF Ap!Init, Ap!Started
    <2> QED
      BY <2>1 DEF Ap!NoRecord
  <1>3. ControllerGood(a)
    BY <1>1, <1>2 DEF ControllerGood, TokensUnique, Governed
  <1>4. Bound(a, hello)
    BY <1>1 DEF Ap!Init, Bound
  <1>5. JobHeld(a, job, over)
    BY DEF Ap!Init, Ap!NoJob, JobHeld, JobTypes
  <1>6. ProofsCounted(a, proved, done)
    BY <1>1 DEF Ap!Init, ProofsCounted, Unused
  <1> QED
    BY <1>3, <1>4, <1>5, <1>6 DEF ApInv, Ap!Init, ChallengeGood, Ap!ChallengeReturned

\* Every action of the browser surface keeps the invariant.
LEMMA ApStep ==
    ASSUME ApInv, Ap!Next
    PROVE  ApInv'
  BY LoginGood, LogoutGood, StatusGood, HelloGood, JobRequestGood, ChallengeRequestGood, SubmitGood, ProveGood,
     ConfirmGood, SensitiveGood, FinishGood, JobEndsGood, MainLoopGood, ChallengeExpiresGood, ApTickGood
  DEF Ap!Next

\* A job is armed by a request that was offered, and no later loop makes the device blank.
LEMMA ArmedStep ==
    ASSUME ArmedOffered, Ap!Next
    PROVE  ArmedOffered'
  <1>1. ASSUME UNCHANGED surface, job' = job \/ job' = Ap!NoJob
        PROVE  ArmedOffered'
    BY <1>1 DEF ArmedOffered, Ap!NoJob
  <1>2. ASSUME NEW i, NEW op, NEW w, Ap!JobRequest(i, op, w)
        PROVE  ArmedOffered'
    BY <1>2 DEF ArmedOffered, Ap!JobRequest, Ap!Admit, Ap!Offered
  <1>3. CASE Ap!MainLoop
    BY <1>3 DEF ArmedOffered, Ap!MainLoop, Ap!Surface
  <1>4. ASSUME NEW pw, Ap!LoginRequest(pw)
        PROVE  ArmedOffered'
    BY <1>1, <1>4 DEF Ap!LoginRequest, Ap!Served
  <1>5. ASSUME NEW i, NEW w, Ap!LogoutRequest(i, w)
        PROVE  ArmedOffered'
    BY <1>1, <1>5 DEF Ap!LogoutRequest, Ap!Served
  <1>6. ASSUME NEW i, Ap!StatusRequest(i)
        PROVE  ArmedOffered'
    BY <1>1, <1>6 DEF Ap!StatusRequest
  <1>7. ASSUME NEW i, NEW w, Ap!HelloRequest(i, w) \/ Ap!ChallengeRequest(i, w) \/ Ap!SubmitRequest(i, w)
        PROVE  ArmedOffered'
    BY <1>1, <1>7 DEF Ap!HelloRequest, Ap!ChallengeRequest, Ap!SubmitRequest
  <1>8. ASSUME NEW i, NEW op, (\E pw \in Passwords : Ap!Prove(i, pw, op)) \/ Ap!Confirm(i, op)
        PROVE  ArmedOffered'
    BY <1>1, <1>8 DEF Ap!Prove, Ap!Confirm, Ap!Served
  <1>9. ASSUME NEW i, NEW f, Ap!Sensitive(i, f)
        PROVE  ArmedOffered'
    BY <1>1, <1>9 DEF Ap!Sensitive
  <1>10. ASSUME NEW k, NEW sent, Ap!FinishRequest(k, sent)
         PROVE  ArmedOffered'
    BY <1>1, <1>10 DEF Ap!FinishRequest
  <1>11. CASE Ap!JobEnds \/ Ap!ChallengeExpires \/ Ap!Tick
    BY <1>1, <1>11 DEF Ap!JobEnds, Ap!ChallengeExpires, Ap!Tick
  <1> QED
    BY <1>2, <1>3, <1>4, <1>5, <1>6, <1>7, <1>8, <1>9, <1>10, <1>11 DEF Ap!Next

\* The invariants have what the browser surface promises: the login of whoever armed the job is
\* served, for the operation that its surface offers.
LEMMA ApInvSound ==
    ASSUME ApInv, ArmedOffered
    PROVE  Ap!OwnerCanAbort /\ Ap!PasswordGoverns /\ Ap!ChallengeReturned
  <1>1. Ap!OwnerCanAbort
    <2> DEFINE op == IF surface = "preclock" THEN "time" ELSE "abort"
    <2> SUFFICES ASSUME job.st = "armed", job.by \notin over
                 PROVE  \E i \in 1..ApSlots : a.soft[i].token = job.by /\ Ap!Serves(i, op)
      BY DEF Ap!OwnerCanAbort
    <2>1. job.owner # "none"
      BY LoginsAssumption DEF ApInv, JobHeld
    <2>2. PICK i \in 1..ApSlots : Owns(a, job, i)
      BY DEF ApInv, JobHeld
    <2>3. Ap!OwnsActive(i) /\ Ap!Current(a, a.soft[i])
      BY <2>1, <2>2 DEF Owns, Ap!OwnsActive, Ap!Current
    <2>4. Ap!Offered(op) /\ Ap!GraceOperation(op)
      BY DEF ArmedOffered, Ap!Offered, Ap!GraceOperation
    <2> HIDE DEF op
    <2>5. Ap!Authorize(a, i, op, job.owner, Ap!OwnsActive(i), clk).ok
      BY <2>2, <2>3, <2>4 DEF Ap!Authorize, Ap!Then, Owns
    <2> QED
      BY <2>2, <2>4, <2>5 DEF Owns, Ap!Serves
  <1>2. Ap!PasswordGoverns
    <2>1. \A i \in 1..ApSlots : Ap!Current(a, a.soft[i]) => a.soft[i].under = a.rec.pwd
      BY DEF ApInv, ControllerGood, Governed, Ap!Current
    <2>2. Ap!Healthy(a) => \A b \in a.rec.bonds : b.under = a.rec.pwd
      BY DEF ApInv, ControllerGood, Governed
    <2>3. done <= proved
      <3>1. Unused(a) \in {0, 1}
        BY DEF Unused
      <3> QED
        BY <3>1 DEF ApInv, ProofsCounted
    <2> QED
      BY <2>1, <2>2, <2>3 DEF Ap!PasswordGoverns
  <1> QED
    BY <1>1, <1>2 DEF ApInv, ChallengeGood

\* Whoever armed a job over the access point can abort it while it is armed, or submit the time when
\* the clock is lost and ABORT is not offered, no login, bond or proof of a former password has
\* authority, and a challenge whose reply is lost is withdrawn (local_access.cpp under
\* softap_api.cpp, and the surface of softap_http.cpp and field_runtime.cpp).
THEOREM BrowserHolds == Spec => []BrowserSound
  <1> DEFINE Inv == focus = "ap" => ApInv /\ ArmedOffered
  <1>1. Init => Inv
    <2>1. Ap!Init => ArmedOffered
      BY DEF Ap!Init, Ap!NoJob, ArmedOffered
    <2> QED
      BY <2>1, ApInit DEF Init
  <1>2. Inv /\ [Next]_vars => Inv'
    <2> SUFFICES ASSUME Inv, [Next]_vars PROVE Inv'
      OBVIOUS
    <2>1. CASE UNCHANGED vars
      BY <2>1 DEF vars, ApOnly, ApInv, ArmedOffered, ChallengeGood, Ap!ChallengeReturned
    <2>2. CASE Next
      <3>1. CASE focus = "ap"
        <4>1. Ap!Next /\ focus' = focus
          BY <2>2, <3>1 DEF Next
        <4> QED
          BY <3>1, <4>1, ApStep, ArmedStep
      <3>2. CASE focus # "ap"
        BY <2>2, <3>2 DEF Next
      <3> QED
        BY <3>1, <3>2
    <2> QED
      BY <2>1, <2>2
  <1>3. Inv => BrowserSound
    BY ApInvSound DEF BrowserSound
  <1> QED
    BY <1>1, <1>2, <1>3, PTL DEF Spec

=============================================================================
