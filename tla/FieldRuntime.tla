---------------------------- MODULE FieldRuntime ----------------------------
(***************************************************************************)
(* The access point's window (provisioning/field_runtime.cpp               *)
(* SoftApCoordinator) and the loop of standalone/pico/main.cpp that feeds  *)
(* it with the station, the clients, the sessions and the replies, and     *)
(* starts and stops the access point.  Times are whole units; elapsed() of *)
(* a clock that does not run backwards is a subtraction.                   *)
(***************************************************************************)
EXTENDS Integers

CONSTANTS Drain,     \* softap_reply_drain_ms (10 s)
          Stable,    \* softap_station_stable_ms (30 s)
          Fallback,  \* softap_fallback_ms (60 s)
          Grace,     \* softap_join_grace_ms (120 s)
          Reopen,    \* softap_reopen_ms (300 s)
          Manual,    \* softap_manual_setup_ms (600 s)
          MaxTime,   \* bound on the clock
          MaxAsked   \* bound on the setup and grace requests

VARIABLES s,         \* the coordinator, field mode, and the access point's radio
          h          \* history: the clock, the unattended window, the outage, the last request

vars == <<s, h>>

Elapsed(t, limit) == h.clk - t >= limit

-----------------------------------------------------------------------------

Gracing(x) == x.grace /\ (~x.act \/ ~Elapsed(x.graceAt, Grace))

ManualSetup(x) == x.man /\ ~x.exp /\ (~x.act \/ ~Elapsed(x.actAt, Manual))

JoinGrace(x) ==
    IF Gracing(x) THEN x
    ELSE LET y == IF x.exp \/ ~x.req THEN [x EXCEPT !.exp = FALSE, !.act = FALSE] ELSE x
         IN  [y EXCEPT !.graceAt = h.clk, !.grace = TRUE]

BugSetup(x, held) ==
    IF ManualSetup(x) \/ x.held THEN x
    ELSE [x EXCEPT !.exp = FALSE, !.act = FALSE, !.man = TRUE, !.held = held]

\* request_manual_setup(), its shutdown complete: it never renews a window that is open.
Setup(x, held) ==
    IF ManualSetup(x) \/ x.held THEN x
    ELSE LET y == IF ~x.req THEN [x EXCEPT !.exp = FALSE, !.act = FALSE] ELSE x
         IN  [y EXCEPT !.man = TRUE, !.held = held]

StationIs(x, usable) ==
    [x EXCEPT !.chg = IF ~x.seen \/ usable # x.st THEN h.clk ELSE @, !.seen = TRUE, !.st = usable]

\* client_connected(): association holds the window, the last disconnect starts it afresh.
ClientIs(x, present) ==
    LET value == present /\ x.act /\ x.req /\ ~x.exp
    IN  IF value \/ x.cl THEN [x EXCEPT !.actAt = h.clk, !.hold = TRUE, !.cl = value] ELSE x

Ready(x, value) ==
    LET y == [x EXCEPT !.rdy = value /\ x.req /\ ~x.exp]
    IN  IF y.rdy /\ ~x.act
        THEN [y EXCEPT !.act = TRUE, !.actAt = h.clk, !.graceAt = IF x.grace THEN h.clk ELSE @]
        ELSE y

-----------------------------------------------------------------------------
(* poll(), in its order.                                                   *)

Expire(x) ==
    LET y == IF x.field /\ x.exp THEN [x EXCEPT !.exp = FALSE, !.act = FALSE] ELSE x
    IN  IF ~y.field /\ ~y.exp /\ y.act /\ ~y.cl /\ Elapsed(y.actAt, Manual)
        THEN [y EXCEPT !.exp = TRUE, !.expAt = h.clk, !.man = FALSE, !.grace = FALSE,
                       !.drain = FALSE, !.rdy = FALSE, !.req = FALSE, !.hold = FALSE]
        ELSE y

StableStation(x) == x.seen /\ x.st /\ Elapsed(x.chg, Stable)

Leases(x) ==
    [x EXCEPT !.armed = @ \/ StableStation(x), !.grace = Gracing(x), !.man = ManualSetup(x)]

Outage(x) ==
    IF x.seen /\ ~x.st /\ x.armed /\ Elapsed(x.chg, Fallback)
    THEN [x EXCEPT !.armed = FALSE, !.fb = TRUE, !.exp = FALSE, !.act = @ /\ ~x.exp]
    ELSE x

BugReopened(x) == x

Reopened(x) ==
    IF x.exp /\ x.fb /\ ~x.st /\ Elapsed(x.expAt, Reopen)
    THEN [x EXCEPT !.exp = FALSE, !.act = FALSE, !.hold = FALSE]
    ELSE x

Retained(x) ==
    x.hold \/ (~x.temp /\ (x.tok \/ x.reply)) \/ Gracing(x) \/ ManualSetup(x)

BugRecovered(x) == IF x.fb /\ x.st THEN [x EXCEPT !.fb = FALSE] ELSE x

Recovered(x) ==
    IF x.fb /\ x.st /\ Elapsed(x.chg, Stable) /\ ~x.cl /\ (x.temp \/ ~Retained(x)) /\ ~x.field
    THEN [x EXCEPT !.fb = FALSE]
    ELSE x

Decide(x) ==
    LET want == ~x.exp /\ (x.blank \/ x.field \/ x.fb \/ Retained(x))
        start == ~want /\ ~x.exp /\ x.temp /\ x.req /\ x.reply /\ ~x.drain
        y == [x EXCEPT !.drain = ~want /\ (@ \/ start), !.drainAt = IF start THEN h.clk ELSE @]
        on == want \/ (~y.exp /\ y.drain /\ y.reply /\ ~Elapsed(y.drainAt, Drain))
    IN  [y EXCEPT !.req = on, !.rdy = @ /\ on]

\* A time that is not read again is 0.
Forget(x) ==
    [x EXCEPT !.graceAt = IF x.grace THEN @ ELSE 0, !.actAt = IF x.act THEN @ ELSE 0,
              !.expAt = IF x.exp THEN @ ELSE 0, !.drainAt = IF x.drain THEN @ ELSE 0]

Poll(x) == Forget(Decide(Recovered(Reopened(Outage(Leases(Expire(x)))))))

-----------------------------------------------------------------------------
(* The main loop.                                                          *)

\* remaining_ms == 0 withholds a client that only now associates.
Remaining(x) == x.cl \/ (x.act /\ ~x.exp /\ h.clk - x.actAt < Manual)

\* The radio follows the request, when the transmitter and the replies allow it (safe).
Radio(x, safe, starts) ==
    [x EXCEPT !.run = IF safe /\ x.req /\ ~@ THEN starts ELSE @ /\ (x.req \/ ~safe)]

\* The history: who keeps the window open, when the outage began, when access was last offered.
Observed(x) ==
    LET renewed == ~x.rdy \/ ~s.rdy \/ x.cl \/ s.cl \/ x.field \/ (s.armed /\ ~x.armed)
    IN  [h EXCEPT !.win = IF renewed THEN h.clk ELSE @,
                  !.down = IF StableStation(x) THEN -1 ELSE IF @ = -1 /\ ~x.st THEN x.chg ELSE @,
                  !.last = IF x.req THEN h.clk ELSE @]

Loop(usable, client, reply, safe, starts) ==
    /\ ~h.polled
    /\ starts => safe /\ ~s.run
    /\ client => s.run
    /\ reply => s.run
    /\ LET a == ClientIs(StationIs(s, usable), client /\ (Remaining(s) \/ s.cl))
           b == Poll([a EXCEPT !.reply = reply, !.tok = s.tok /\ s.run])
           c == Radio(b, safe, starts)
           d == Ready(c, c.run)
       IN  s' = d /\ h' = [Observed(d) EXCEPT !.polled = TRUE]

\* expire_ap_if_due(), alone while a reset is under way.
ResetLoop(client, safe) ==
    /\ ~h.polled
    /\ client => s.run
    /\ LET b == Poll(ClientIs(s, client /\ (Remaining(s) \/ s.cl)))
           c == [b EXCEPT !.run = @ /\ ~(b.exp /\ safe)]
       IN  s' = c /\ h' = [Observed(c) EXCEPT !.polled = TRUE]

Asks(x) ==
    /\ h.asked < MaxAsked
    /\ s' = x
    /\ h' = [h EXCEPT !.asked = @ + 1, !.polled = FALSE]

RequestJoinGrace == Asks(JoinGrace(s))

RequestManualSetup(held) == Asks(Setup(s, held))

ButtonReleased ==
    /\ s.held
    /\ s' = [s EXCEPT !.held = FALSE]
    /\ UNCHANGED h

\* The owner changes field mode, or a client takes or drops its session.
FieldMode == Asks([s EXCEPT !.field = ~@])

Session ==
    /\ s.run /\ ~s.temp
    /\ s' = [s EXCEPT !.tok = ~@]
    /\ UNCHANGED h

Tick ==
    /\ h.clk < MaxTime /\ h.polled
    /\ h' = [h EXCEPT !.clk = @ + 1, !.polled = FALSE]
    /\ UNCHANGED s

Init ==
    /\ \E blank, temp \in BOOLEAN :
        s = [blank |-> blank, temp |-> temp, field |-> FALSE, st |-> FALSE, seen |-> FALSE,
             chg |-> 0, fb |-> FALSE, req |-> FALSE, rdy |-> FALSE, reply |-> FALSE, tok |-> FALSE,
             grace |-> FALSE, graceAt |-> 0, man |-> FALSE, held |-> FALSE, drain |-> FALSE,
             drainAt |-> 0, act |-> FALSE, actAt |-> 0, exp |-> FALSE, expAt |-> 0,
             armed |-> TRUE, cl |-> FALSE, hold |-> FALSE, run |-> FALSE]
    /\ h = [clk |-> 0, polled |-> FALSE, asked |-> 0, win |-> 0, down |-> 0, last |-> 0]

Next ==
    \/ \E usable, client, reply, safe, starts \in BOOLEAN : Loop(usable, client, reply, safe, starts)
    \/ \E client, safe \in BOOLEAN : ResetLoop(client, safe)
    \/ RequestJoinGrace \/ \E held \in BOOLEAN : RequestManualSetup(held)
    \/ ButtonReleased \/ FieldMode \/ Session \/ Tick

Spec == Init /\ [][Next]_vars

-----------------------------------------------------------------------------

\* An access point nobody uses closes: outside field mode it is not offered longer than the
\* manual window after it was opened, its last client left, or a new outage was covered.
WindowBounded == h.polled /\ s.rdy /\ ~s.field => h.clk - h.win < Manual

\* A device that has lost its station stays reachable: after an outage long enough, access is
\* offered, or was offered less than the reopening time ago, however the station flaps.
OutageOpens ==
    h.polled /\ h.down >= 0 /\ ~s.st /\ s.seen /\ h.clk - h.down >= Fallback /\ h.clk - s.chg >= Fallback
        => s.req \/ h.clk - h.last <= Reopen

=============================================================================
