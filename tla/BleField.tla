------------------------------ MODULE BleField ------------------------------
(***************************************************************************)
(* Provisioning over Bluetooth: the command session (ble_session.cpp), the *)
(* profile manager with its replay cache (manager.cpp, command.cpp) and    *)
(* the activation of a committed profile (activation.cpp with              *)
(* activation_platform.cpp), over the access controller.  The USB console  *)
(* adopts the device, opens enrolment and confirms (main.cpp).  The link   *)
(* itself is the module GattLink.                                          *)
(***************************************************************************)
EXTENDS Access, Sequences, SequencesExt

CONSTANTS Peers,          \* Bluetooth peers
          Values,         \* profile contents a client writes, "bad" is not a profile
          Fragments,      \* fragment_capacity
          ReplayCap,      \* replay_capacity (8)
          Retention,      \* replay_retention_ms (5 min)
          SessionTimeout, \* session_timeout_ms (30 s)
          Delivery,       \* activation_delivery_timeout_ms (5 s)
          MaxCommands,    \* bound on the commands
          EnrollAfter,    \* bound: enrolment is only opened after this many commands
          MaxTime         \* bound on the clock

VARIABLES a,              \* the access controller
          s,              \* the command session of the link
          m,              \* the profile manager with the profile store
          c,              \* the activation coordinator and its platform
          busy,           \* a job is owned or the output is not known to be off
          n,              \* commands so far, the source of request ids
          proven,         \* (generation, content, principal) a password was given for (history)
          ran,            \* generation -> how often its activation was executed (history)
          clk

vars == <<a, s, m, c, busy, n, proven, ran, clk>>

NoStep == [on |-> FALSE, bind |-> NoBinding, ses |-> 0]

NoApply == [req |-> 0, gen |-> 0]

Fresh == [conn |-> FALSE, field |-> 0, step |-> NoStep, apply |-> NoApply, got |-> FALSE]

NoSes == [id |-> 0, who |-> NoOne, at |-> 0, data |-> <<>>, final |-> FALSE]

NoRequest == [id |-> 0, op |-> "none", ses |-> 0, off |-> 0, val |-> "none", final |-> FALSE,
              gen |-> 0, who |-> NoOne]

Faults == {{}, {"store"}, {"stack"}, {"stack", "mark"}}

-----------------------------------------------------------------------------
(* Activation.                                                             *)

Blocks(x) == x.st \in {"pending", "fault"}

\* fail_closed() of the platform: no admission, no server, a restart if one can be had.
RetryFailClosed(x, works) ==
    IF x.closed THEN x ELSE [x EXCEPT !.adm = FALSE, !.closed = works, !.restart = @ \/ works]

Latch(x, works) == RetryFailClosed([x EXCEPT !.st = "fault", !.val = "none"], works)

BugStage(x, req, val, gen, now) ==
    [x EXCEPT !.st = "pending", !.req = req, !.gen = gen, !.val = val, !.at = now, !.closed = FALSE]

\* stage(): admission closes before the reply is on its way.
Stage(x, req, val, gen, now) ==
    [x EXCEPT !.st = "pending", !.req = req, !.gen = gen, !.val = val, !.at = now, !.closed = FALSE,
              !.adm = FALSE]

\* execute(): prepare, the job must be idle, quiesce, install, restart; step fails, or "none".
Execute(x, step, works) ==
    IF step = "none" /\ ~busy
    THEN [x EXCEPT !.st = "complete", !.val = "none", !.run = x.gen, !.closed = FALSE, !.restart = TRUE]
    ELSE Latch(x, works)

\* release(): only the activation that is still waiting for its reply.
Releasable(x, req, gen) == gen # 0 /\ gen = x.gen /\ req = x.req /\ x.st = "pending"

Release(x, req, gen, step, works) ==
    IF Releasable(x, req, gen) THEN Execute(x, step, works)
    ELSE IF gen = x.gen /\ req = x.req /\ x.st = "fault" THEN RetryFailClosed(x, works)
    ELSE x

Due(x, now) == x.st = "pending" /\ Elapsed(now, x.at, Delivery)

PollActivation(x, now, step, works) ==
    CASE Due(x, now) -> Execute(x, step, works)
      [] x.st = "fault" -> RetryFailClosed(x, works)
      [] OTHER -> x

-----------------------------------------------------------------------------
(* The manager.  A world of a request is [m, c, code].                     *)

Terminate(x, st) == [x EXCEPT !.ses = NoSes, !.st = st]

Expire(x, now) ==
    LET y == [x EXCEPT !.cache = SelectSeq(@, LAMBDA e : ~Elapsed(now, e.at, Retention))]
    IN  IF y.ses.id # 0 /\ Elapsed(now, y.ses.at, SessionTimeout) THEN Terminate(y, "expired") ELSE y

Known(x, id) == {i \in DOMAIN x.cache : x.cache[i].req.id = id}

\* remember(): the oldest entry goes, but never the one an activation still answers for.
Evictable(x, y) ==
    {i \in DOMAIN x.cache : ~(Blocks(y) /\ x.cache[i].req.id = y.req /\ x.cache[i].gen = y.gen)}

Remember(w, req, now) ==
    LET x == w.m
        cut == IF Len(x.cache) < ReplayCap THEN x.cache
               ELSE LET i == CHOOSE i \in Evictable(x, w.c) : \A k \in Evictable(x, w.c) : i <= k
                    IN  RemoveAt(x.cache, i)
        entry == [req |-> req, code |-> w.code, gen |-> x.gen, at |-> now]
    IN  IF Len(x.cache) = ReplayCap /\ Evictable(x, w.c) = {} THEN w
        ELSE [w EXCEPT !.m.cache = Append(cut, entry)]

\* The outcome of a request that was not seen before.
Owned(x, req) == x.ses.id # 0 /\ x.ses.id = req.ses

Opened(x, y, req, now) ==
    IF ~x.ok THEN [m |-> x, c |-> y, code |-> "storage"]
    ELSE IF req.who = NoOne THEN [m |-> x, c |-> y, code |-> "auth"]
    ELSE IF Blocks(y) \/ x.ses.id # 0 THEN [m |-> x, c |-> y, code |-> "busy"]
    ELSE [m |-> [x EXCEPT !.ses = [NoSes EXCEPT !.id = req.ses, !.who = req.who, !.at = now],
                          !.st = "receiving"], c |-> y, code |-> "ok"]

Written(x, y, req, now) ==
    IF req.who = NoOne THEN [m |-> x, c |-> y, code |-> "auth"]
    ELSE IF ~Owned(x, req) THEN [m |-> x, c |-> y, code |-> "missing"]
    ELSE IF x.ses.who # req.who THEN [m |-> x, c |-> y, code |-> "auth"]
    ELSE IF x.ses.final \/ req.off # Len(x.ses.data) THEN [m |-> x, c |-> y, code |-> "order"]
    ELSE IF Len(x.ses.data) = Fragments THEN [m |-> Terminate(x, "failed"), c |-> y, code |-> "oversize"]
    ELSE [m |-> [x EXCEPT !.ses.data = Append(@, req.val), !.ses.at = now, !.ses.final = req.final,
                          !.st = IF req.final THEN "ready" ELSE "receiving"], c |-> y, code |-> "ok"]

\* apply(): a valid profile is stored and staged; one that is stored already changes nothing.
Applied(x, y, req, now, works) ==
    IF req.who = NoOne THEN [m |-> x, c |-> y, code |-> "auth"]
    ELSE IF ~Owned(x, req) THEN [m |-> x, c |-> y, code |-> "missing"]
    ELSE IF x.ses.who # req.who THEN [m |-> x, c |-> y, code |-> "auth"]
    ELSE IF ~x.ses.final THEN [m |-> x, c |-> y, code |-> "incomplete"]
    ELSE IF req.gen # x.gen THEN [m |-> x, c |-> y, code |-> "conflict"]
    ELSE IF busy THEN [m |-> x, c |-> y, code |-> "busy"]
    ELSE IF Len(x.ses.data) # 1 \/ x.ses.data[1] = "bad"
    THEN [m |-> Terminate(x, "failed"), c |-> y, code |-> "malformed"]
    ELSE IF x.ses.data[1] = x.val THEN [m |-> Terminate(x, "complete"), c |-> y, code |-> "ok"]
    ELSE IF ~works THEN [m |-> [Terminate(x, "failed") EXCEPT !.ok = FALSE], c |-> y, code |-> "storage"]
    ELSE IF Blocks(y)
    THEN [m |-> [Terminate(x, "failed") EXCEPT !.gen = @ + 1, !.val = x.ses.data[1]],
          c |-> Latch([y EXCEPT !.req = req.id, !.gen = x.gen + 1, !.at = 0], works), code |-> "fault"]
    ELSE [m |-> [Terminate(x, "complete") EXCEPT !.gen = @ + 1, !.val = x.ses.data[1]],
          c |-> Stage(y, req.id, x.ses.data[1], x.gen + 1, now), code |-> "ok"]

Cancelled(x, y, req) ==
    IF req.who = NoOne THEN [m |-> x, c |-> y, code |-> "auth"]
    ELSE IF ~Owned(x, req) THEN [m |-> x, c |-> y, code |-> "missing"]
    ELSE IF x.ses.who # req.who THEN [m |-> x, c |-> y, code |-> "auth"]
    ELSE [m |-> Terminate(x, "cancelled"), c |-> y, code |-> "ok"]

\* A request seen before gets its answer again; its id under another request ends the session.
Request(req, works) ==
    LET x == Expire(m, clk)
    IN  IF Known(x, req.id) # {}
        THEN LET e == x.cache[CHOOSE i \in Known(x, req.id) : TRUE]
             IN  IF e.req = req THEN [m |-> x, c |-> c, code |-> e.code]
                 ELSE [m |-> Terminate(x, "failed"), c |-> c, code |-> "replay"]
        ELSE Remember(CASE req.op = "open" -> Opened(x, c, req, clk)
                        [] req.op = "write" -> Written(x, c, req, clk)
                        [] req.op = "apply" -> Applied(x, c, req, clk, works)
                        [] OTHER -> Cancelled(x, c, req), req, clk)

\* staged_digest(): what is staged for the principal, if it is complete and current.
Staged(x, ses, who, gen) ==
    IF who # NoOne /\ x.ses.id # 0 /\ x.ses.final /\ x.ses.id = ses /\ x.ses.who = who /\ gen = x.gen
    THEN {x.ses.data} ELSE {}

-----------------------------------------------------------------------------
(* The command session.                                                    *)

\* clear_profile_step_up()
Unstep(x, y) ==
    IF x.step.on THEN InvalidateBinding(y, x.step.bind.who, x.step.bind.sid) ELSE y

BugStepMatches == TRUE

\* profile_step_up_matches(): what is staged now is what the password was given for.
StepMatches ==
    s.step.bind.par \in Staged(m, s.step.ses, BleAuthorization(a), s.step.bind.gen)

Connected(peer, isNew) ==
    /\ ~s.conn
    /\ isNew => EnrollmentOpen(a, clk) /\ peer \notin a.stack
    /\ ~isNew => peer \in a.stack
    /\ LET r == BleConnect([a EXCEPT !.stack = @ \cup {peer}], peer, isNew, 1, clk)
       IN  /\ s' = [s EXCEPT !.conn = r.ok]
           /\ a' = IF r.ok THEN r.a ELSE a
    /\ UNCHANGED <<m, c, busy, n, proven, ran, clk>>

Disconnected(f) ==
    /\ s.conn
    /\ a' = BleDisconnect(Unstep(s, a), f)
    /\ s' = Fresh
    /\ UNCHANGED <<m, c, busy, n, proven, ran, clk>>

AuthorizeCommand(pw, f) ==
    /\ s.conn /\ s.field = 0
    /\ LET r == IF BleAuthorization(a) # NoOne THEN Then(a, TRUE) ELSE BleAuthorize(a, pw, clk, f)
       IN  /\ a' = r.a
           /\ s' = IF r.ok THEN [s EXCEPT !.field = 1] ELSE s
    /\ UNCHANGED <<m, c, busy, n, proven, ran, clk>>

Held == s.conn /\ s.field # 0 /\ BleAuthorization(a) # NoOne

\* profile_step_up: the password for exactly what is staged, for one apply request.
StepUp(ses, pw) ==
    /\ Held /\ n < MaxCommands
    /\ n' = n + 1
    /\ IF Staged(m, ses, BleAuthorization(a), m.gen) = {} THEN UNCHANGED <<a, s, proven>>
       ELSE LET b == [who |-> BleAuthorization(a), sid |-> s.field, op |-> "apply", nonce |-> n + 1,
                      gen |-> m.gen, par |-> m.ses.data]
                r == ProvePassword(Unstep(s, a), pw, b, clk)
            IN  /\ a' = r.a
                /\ s' = [s EXCEPT !.step = IF r.ok THEN [on |-> TRUE, bind |-> b, ses |-> ses] ELSE NoStep]
                /\ proven' = IF r.ok THEN proven \cup {[gen |-> m.gen, data |-> m.ses.data,
                                                        who |-> BleAuthorization(a)]} ELSE proven
    /\ UNCHANGED <<m, c, busy, ran, clk>>

StepStatus ==
    /\ Held /\ s.step.on /\ ~StepMatches
    /\ a' = Unstep(s, a)
    /\ s' = [s EXCEPT !.step = NoStep]
    /\ UNCHANGED <<m, c, busy, n, proven, ran, clk>>

\* confirm_profile() of the USB console.
ConfirmProfile ==
    /\ s.conn /\ BleAuthorization(a) # NoOne /\ s.step.on
    /\ IF ~StepMatches THEN a' = Unstep(s, a) /\ s' = [s EXCEPT !.step = NoStep]
       ELSE /\ SensitiveReady(a, s.step.bind, ~busy, clk) = "confirm"
            /\ a' = ConfirmLocal(a, s.step.bind, clk)
            /\ UNCHANGED s
    /\ UNCHANGED <<m, c, busy, n, proven, ran, clk>>

\* A command for the manager; a successful cancel or apply ends the step-up.
Manage(req, works) ==
    LET w == Request(req, works)
    IN  /\ m' = w.m /\ c' = w.c
        /\ a' = IF w.code = "ok" /\ req.op = "cancel" THEN Unstep(s, a) ELSE a
        /\ s' = [s EXCEPT !.step = IF w.code = "ok" /\ req.op = "cancel" THEN NoStep ELSE @,
                          !.apply = IF w.code = "ok" /\ req.op = "apply"
                                    THEN [req |-> req.id, gen |-> w.m.gen] ELSE @]
       
        /\ UNCHANGED <<busy, proven, ran, clk>>

Command(req) ==
    /\ s.conn /\ n < MaxCommands
    /\ req.op # "apply"
    /\ n' = n + 1
    /\ Manage([req EXCEPT !.id = n + 1, !.who = BleAuthorization(a)], TRUE)

\* A repetition of a request, as a client does that missed the reply.
Repeat(i) ==
    /\ s.conn /\ n < MaxCommands
    /\ m.cache[i].req.op # "apply"
    /\ n' = n + 1
    /\ Manage([m.cache[i].req EXCEPT !.who = BleAuthorization(a)], TRUE)

\* apply: without a step-up for this request, or for something else than what is staged, nothing.
ApplyCommand(works) ==
    /\ s.conn /\ n < MaxCommands
    /\ n' = n + 1
    /\ IF ~s.step.on \/ ~StepMatches
       THEN /\ a' = Unstep(s, a)
            /\ s' = [s EXCEPT !.step = NoStep]
            /\ UNCHANGED <<m, c>>
       ELSE LET p == AuthorizeSensitive(a, s.step.bind, ~busy, clk)
                req == [NoRequest EXCEPT !.id = s.step.bind.nonce, !.op = "apply", !.ses = s.step.ses,
                                         !.gen = s.step.bind.gen, !.who = BleAuthorization(a)]
                w == Request(req, works)
            IN  /\ a' = p.a
                /\ IF ~p.ok THEN s' = [s EXCEPT !.step = NoStep] /\ UNCHANGED <<m, c>>
                   ELSE /\ m' = w.m /\ c' = w.c
                        /\ s' = [s EXCEPT !.step = NoStep,
                                          !.apply = IF w.code = "ok" THEN [req |-> req.id, gen |-> w.m.gen]
                                                    ELSE @]
    /\ UNCHANGED <<busy, proven, ran, clk>>

\* response_delivered()
Delivered ==
    /\ s.apply.req # 0 /\ ~s.got
    /\ s' = [s EXCEPT !.got = TRUE]
    /\ UNCHANGED <<a, m, c, busy, n, proven, ran, clk>>

\* How often execute() is called by a poll.
Executions(t, x) ==
    (IF t.got /\ Releasable(c, t.apply.req, t.apply.gen) THEN 1 ELSE 0) + (IF Due(x, clk) THEN 1 ELSE 0)

\* BleCommandSession::poll() with the manager's: expiry, the release of an activation, the activation.
Poll(f, step, works) ==
    LET gone == s.conn /\ ExpiredProvisional(a, clk)
        b == IF gone THEN BleDisconnect(Unstep(s, a), f) ELSE a
        t == IF gone THEN Fresh ELSE s
        x == IF t.got THEN Release(c, t.apply.req, t.apply.gen, step, works) ELSE c
        y == PollActivation(x, clk, step, works)
        k == IF y.st = "fault" THEN [Expire(m, clk) EXCEPT !.st = "failed"] ELSE Expire(m, clk)
        lost == t.step.on /\ k.st # "ready"
    IN  /\ c' = y /\ m' = k
        /\ a' = IF lost THEN Unstep(t, b) ELSE b
        /\ s' = [t EXCEPT !.got = FALSE, !.step = IF lost THEN NoStep ELSE @,
                          !.apply = IF y.st # "pending" THEN NoApply ELSE @]
        /\ ran' = [ran EXCEPT ![c.gen] = @ + Executions(t, x)]
        /\ UNCHANGED <<busy, n, proven, clk>>

-----------------------------------------------------------------------------
(* The USB console and the rest of the device.                             *)

UsbBinding(op) == [NoBinding EXCEPT !.who = Usb, !.sid = 1, !.op = op, !.nonce = clk]

Adopt(f) ==
    /\ a.st = "erased"
    /\ a' = InitializeDefault(ConfirmLocal(a, UsbBinding("adopt"), clk), UsbBinding("adopt"), ~busy, clk, f).a
    /\ UNCHANGED <<s, m, c, busy, n, proven, ran, clk>>

Enroll ==
    /\ n >= EnrollAfter /\ ~s.conn /\ ~EnrollmentOpen(a, clk) /\ Healthy(a)
    /\ a' = OpenEnrollment(ConfirmLocal(a, UsbBinding("enroll"), clk), UsbBinding("enroll"), ~busy, clk).a
    /\ UNCHANGED <<s, m, c, busy, n, proven, ran, clk>>

Activity ==
    /\ s.step.on \/ c.st = "pending"
    /\ busy' = ~busy
    /\ UNCHANGED <<a, s, m, c, n, proven, ran, clk>>

Tick ==
    /\ clk < MaxTime
    /\ s.conn \/ c.st = "pending" \/ EnrollmentOpen(a, clk)
    /\ clk' = clk + 1
    /\ UNCHANGED <<a, s, m, c, busy, n, proven, ran>>

Init ==
    /\ \/ a = Started /\ n = EnrollAfter
       \/ \E dflt \in BOOLEAN :
            /\ a = [Started EXCEPT !.st = "valid", !.stack = {1},
                                   !.rec = [NoRecord EXCEPT !.epoch = 1, !.dflt = dflt,
                                                            !.bonds = {[peer |-> 1, under |-> 0]}]]
            /\ n = IF dflt THEN 0 ELSE EnrollAfter
    /\ s = Fresh
    /\ m = [st |-> "idle", ses |-> NoSes, cache |-> <<>>, gen |-> 0, val |-> "none", ok |-> TRUE]
    /\ c = [st |-> "idle", req |-> 0, gen |-> 0, val |-> "none", at |-> 0, closed |-> FALSE,
            adm |-> TRUE, run |-> 0, restart |-> FALSE]
    /\ busy = FALSE /\ proven = {}
    /\ ran = [g \in 0..MaxCommands |-> 0] /\ clk = 0

Open == [NoRequest EXCEPT !.op = "open", !.ses = 1]

Write(v, k, fin) == [NoRequest EXCEPT !.op = "write", !.ses = 1, !.val = v, !.off = k, !.final = fin]

Writes == {Write(v, 0, TRUE) : v \in Values} \cup {Write("p", 0, FALSE), Write("p", 1, TRUE)}

PollModes == {<<{}, "none", TRUE>>, <<{}, "install", TRUE>>, <<{}, "install", FALSE>>,
              <<{"stack"}, "none", TRUE>>, <<{"stack", "mark"}, "none", TRUE>>}

Next ==
    \/ \E p \in Peers, isNew \in BOOLEAN : Connected(p, isNew)
    \/ \E f \in Faults : Disconnected(f) \/ Adopt(f) \/ \E pw \in {0, 1} : AuthorizeCommand(pw, f)
    \/ \E pw \in {0, 1} : StepUp(1, pw)
    \/ StepStatus \/ ConfirmProfile \/ Delivered
    \/ \E i \in DOMAIN m.cache : Repeat(i)
    \/ Command(Open) \/ Command([Open EXCEPT !.op = "cancel"])
    \/ \E r \in Writes : Command(r)
    \/ \E works \in BOOLEAN : ApplyCommand(works)
    \/ \E q \in PollModes : Poll(q[1], q[2], q[3])
    \/ Enroll \/ Activity \/ Tick

Spec == Init /\ [][Next]_vars

-----------------------------------------------------------------------------

\* What is committed is exactly what the password was given for, by whom and over which
\* generation (profile_step_up_matches, authorize_sensitive).
CommitStep ==
    m'.gen # m.gen => [gen |-> m.gen, data |-> <<m'.val>>, who |-> BleAuthorization(a)] \in proven

\* From the commit of a profile on nothing is admitted under its predecessor, whether its
\* activation waits, succeeds or fails; and no activation is executed twice (stage, latch, release).
OldTrustEnds == (c.adm => c.run = m.gen) /\ \A g \in DOMAIN ran : ran[g] <= 1

\* The Bluetooth stack knows no bond the record does not, but for the peer that is being enrolled
\* (ble_disconnect, ble_authorize), unless erasing failed and Bluetooth is off for it.
BondsAccounted ==
    Healthy(a) /\ ~a.rec.bleOff =>
        \A p \in a.stack : Retained(a, p) \/ a.ble.peer = p

=============================================================================
