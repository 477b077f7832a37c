------------------------------- MODULE SoftAp -------------------------------
(***************************************************************************)
(* The browser surface of the setup access point (network/softap_api.cpp,  *)
(* provisioning/softap_http.cpp) over the access controller: logins, the   *)
(* WTP session a login is bound to, the job it owns, the time challenge it *)
(* has asked for, the operations that need a fresh proof, and what of it   *)
(* the device offers at the moment (its surface). The job service and the  *)
(* time arbiter are what the requests see of JobService and Clock.         *)
(***************************************************************************)
EXTENDS Access

CONSTANTS Passwords,    \* passwords a client may try, 0 is the default one
          Wtp,          \* WTP session ids
          MaxTokens,    \* bound on the logins
          MaxProofs,    \* bound on the proofs and the time challenges
          MaxTime       \* bound on the clock

VARIABLES a,            \* the access controller
          surface,      \* what the device offers here: "blank", "preclock" or "normal"
          job,          \* the job service: [st, owner, by], by the token that armed it
          hello,        \* WTP session -> the token that opened it at the service, or 0
          chal,         \* the time challenge that is outstanding: [token, tx]
          pending,      \* pending_time_
          flight,       \* replies that are being sent: set of transactions
          tx,           \* the last transaction
          over,         \* tokens that asked for more than the grace allows (history)
          proved, done, \* proofs given, operations they have authorised (history)
          clk

vars == <<a, surface, job, hello, chal, pending, flight, tx, over, proved, done, clk>>

NoJob == [st |-> "empty", owner |-> "none", by |-> 0]

NoChallenge == [token |-> 0, tx |-> 0]

Faults == {{}, {"store"}, {"stack"}, {"stack", "mark"}}

Idle == job.st = "empty" /\ job.owner = "none"

OwnsActive(i) ==
    job.st = "armed" /\ job.owner # "none" /\ a.soft[i].wtp # "none" /\ a.soft[i].wtp = job.owner

Live(i) == a.soft[i].live

Became(r) == a' = r.a

Served == UNCHANGED <<surface, job, hello, chal, pending, flight, tx, over, proved, done, clk>>

\* SoftApCoordinator::surface(), and the operations a surface has (softap_http.cpp, authorize()).
Surface(usable) ==
    IF surface = "blank" THEN "blank" ELSE IF usable THEN "normal" ELSE "preclock"

Offered(op) == surface = "normal" \/ (surface = "preclock" /\ op \in {"hello", "status", "time"})

-----------------------------------------------------------------------------
(* Sessions.                                                               *)

LoginRequest(pw) ==
    /\ surface # "blank" /\ a.tokens < MaxTokens
    /\ Became(Login(a, pw, job.owner, clk))
    /\ Served

LogoutRequest(i, w) ==
    /\ surface # "blank" /\ Live(i)
    /\ Became(Logout(a, i, w, job.owner # "none" /\ a.soft[i].wtp = job.owner))
    /\ Served

\* authorize() of a request: what the surface does not offer is refused before the login is looked
\* at, and changes nothing. A request past the limits is remembered in over.
Admit(i, op, w) ==
    /\ Offered(op) /\ Live(i)
    /\ over' = IF Elapsed(clk, a.soft[i].at, Absolute) /\ ~GraceOperation(op)
               THEN over \cup {a.soft[i].token} ELSE over

StatusRequest(i) ==
    /\ Admit(i, "status", "none")
    /\ Became(Authorize(a, i, "status", "none", OwnsActive(i), clk))
    /\ UNCHANGED <<surface, job, hello, chal, pending, flight, tx, proved, done, clk>>

Opens(w, token) == hello[w] \in {0, token}

\* HELLO: the service first, then the binding of the login to the session.
HelloRequest(i, w) ==
    /\ Admit(i, "hello", w)
    /\ LET r == Authorize(a, i, "hello", w, OwnsActive(i), clk)
       IN  IF r.ok /\ Opens(w, a.soft[i].token)
           THEN /\ hello' = [hello EXCEPT ![w] = a.soft[i].token]
                /\ LET b == Bind(r.a, i, w, clk)
                   IN  Became(IF b.ok THEN Authorize(b.a, i, "hello", w, OwnsActive(i), clk) ELSE b)
           ELSE Became(r) /\ UNCHANGED hello
    /\ UNCHANGED <<surface, job, chal, pending, flight, tx, proved, done, clk>>

\* LOAD, ARM and ABORT go to the service, which knows the session by its principal.
JobRequest(i, op, w) ==
    /\ Admit(i, op, w)
    /\ LET r == Authorize(a, i, op, w, OwnsActive(i), clk)
           known == r.ok /\ hello[w] = a.soft[i].token
       IN  /\ Became(r)
           /\ job' = CASE known /\ op = "load" /\ job.st = "empty" ->
                              [st |-> "loaded", owner |-> w, by |-> 0]
                       [] known /\ op = "arm" /\ job.st = "loaded" /\ job.owner = w ->
                              [job EXCEPT !.st = "armed", !.by = a.soft[i].token]
                       [] known /\ op = "abort" /\ job.owner = w -> NoJob
                       [] OTHER -> job
    /\ UNCHANGED <<surface, hello, chal, pending, flight, tx, proved, done, clk>>

\* The job ends by itself: it completes, or its owner's lease runs out before it is armed.
JobEnds ==
    /\ job.st # "empty"
    /\ job' = NoJob
    /\ UNCHANGED <<a, surface, hello, chal, pending, flight, tx, over, proved, done, clk>>

\* The main loop: live_softap_sessions(), then the surface by the clock of the moment, which may be
\* lost, or found again, between any two loops.
MainLoop ==
    /\ a' = Reclaim(a, job.owner, clk)
    /\ \E usable \in BOOLEAN : surface' = Surface(usable)
    /\ UNCHANGED <<job, hello, chal, pending, flight, tx, over, proved, done, clk>>

-----------------------------------------------------------------------------
(* Time from the client: a challenge, its reply and the sample.            *)

BugTaken(token, n) == {}

\* The bookkeeping of the reply replaces that of any earlier challenge.
Taken(token, n) == {[token |-> token, tx |-> n]}

ChallengeRequest(i, w) ==
    /\ tx + proved < MaxProofs
    /\ Admit(i, "time", w)
    /\ LET r == Authorize(a, i, "time", w, OwnsActive(i), clk)
       IN  /\ Became(r)
           /\ tx' = tx + 1
           /\ IF r.ok /\ chal = NoChallenge
              THEN /\ chal' = [token |-> a.soft[i].token, tx |-> tx + 1]
                   /\ pending' = Taken(a.soft[i].token, tx + 1)
                   /\ flight' = flight \cup {tx + 1}
              ELSE UNCHANGED <<chal, pending, flight>>
    /\ UNCHANGED <<surface, job, hello, proved, done, clk>>

SubmitRequest(i, w) ==
    /\ Admit(i, "time", w)
    /\ chal.token = a.soft[i].token /\ chal.tx \notin flight
    /\ LET r == Authorize(a, i, "time", w, OwnsActive(i), clk)
       IN  /\ Became(r)
           /\ IF r.ok
              THEN /\ chal' = NoChallenge
                   /\ pending' = {p \in pending : p.token # a.soft[i].token}
              ELSE UNCHANGED <<chal, pending>>
    /\ UNCHANGED <<surface, job, hello, flight, tx, proved, done, clk>>

\* The arbiter gives up a challenge that was never answered.
ChallengeExpires ==
    /\ chal # NoChallenge
    /\ chal' = NoChallenge
    /\ UNCHANGED <<a, surface, job, hello, pending, flight, tx, over, proved, done, clk>>

\* finish_request(): the reply was sent, or the connection was lost under it.
FinishRequest(n, sent) ==
    /\ n \in flight
    /\ flight' = flight \ {n}
    /\ IF sent THEN UNCHANGED <<chal, pending>>
       ELSE LET gone == {p \in pending : p.tx = n}
            IN  /\ pending' = pending \ gone
                /\ chal' = IF \E p \in gone : p.token = chal.token THEN NoChallenge ELSE chal
    /\ UNCHANGED <<a, surface, job, hello, tx, over, proved, done, clk>>

-----------------------------------------------------------------------------
(* Operations that need a proof.                                           *)

Binding(i, op) == [NoBinding EXCEPT !.who = [via |-> "softap", id |-> a.soft[i].token, epoch |-> 0],
                                    !.sid = 1, !.op = op, !.nonce = 1]

Prove(i, pw, op) ==
    /\ tx + proved < MaxProofs
    /\ Live(i)
    /\ LET r == ProvePassword(a, pw, Binding(i, op), clk)
       IN  Became(r) /\ proved' = IF r.ok THEN proved + 1 ELSE proved
    /\ UNCHANGED <<surface, job, hello, chal, pending, flight, tx, over, done, clk>>

Confirm(i, op) ==
    /\ Live(i)
    /\ a' = ConfirmLocal(a, Binding(i, op), clk)
    /\ Served

Did(r) == Became(r) /\ done' = IF r.ok THEN done + 1 ELSE done

Sensitive(i, f) ==
    /\ Live(i)
    /\ \/ \E pw \in Passwords \ {0} : Did(ChangePassword(a, pw, Binding(i, "password"), Idle, clk, f))
       \/ \E on \in BOOLEAN : Did(SetFieldMode(a, on, Binding(i, "field"), Idle, clk, f))
       \/ Did(RemoveBond(a, 1, Binding(i, "bond"), Idle, clk, f))
    /\ UNCHANGED <<surface, job, hello, chal, pending, flight, tx, over, proved, clk>>

Tick ==
    /\ clk < MaxTime
    /\ \E i \in 1..Slots : Live(i)
    /\ clk' = clk + 1
    /\ UNCHANGED <<a, surface, job, hello, chal, pending, flight, tx, over, proved, done>>

Ops == {"password", "field", "bond"}

Init ==
    /\ a = [Started EXCEPT !.st = "valid", !.stack = {1},
                           !.rec = [NoRecord EXCEPT !.epoch = 1, !.bonds = {[peer |-> 1, under |-> 0]}]]
    /\ surface \in {"blank", "preclock", "normal"}
    /\ job = NoJob /\ hello = [w \in Wtp |-> 0]
    /\ chal = NoChallenge /\ pending = {} /\ flight = {} /\ tx = 0
    /\ over = {} /\ proved = 0 /\ done = 0 /\ clk = 0

Next ==
    \/ \E pw \in Passwords : LoginRequest(pw)
    \/ \E i \in 1..Slots :
        \/ StatusRequest(i)
        \/ \E w \in Wtp :
            \/ LogoutRequest(i, w)
            \/ HelloRequest(i, w)
            \/ \E op \in {"load", "arm", "abort"} : JobRequest(i, op, w)
            \/ ChallengeRequest(i, w)
            \/ SubmitRequest(i, w)
        \/ \E op \in Ops : \/ \E pw \in Passwords : Prove(i, pw, op)
                           \/ Confirm(i, op)
        \/ \E f \in Faults : Sensitive(i, f)
    \/ \E n \in flight, sent \in BOOLEAN : FinishRequest(n, sent)
    \/ JobEnds \/ MainLoop \/ ChallengeExpires \/ Tick

Spec == Init /\ [][Next]_vars

-----------------------------------------------------------------------------

\* A request that is offered and admitted.
Serves(i, op) == Offered(op) /\ Authorize(a, i, op, job.owner, OwnsActive(i), clk).ok

\* Whoever armed a job keeps its login for as long as it is armed, however long it has been logged
\* in, unless it has asked for more than the grace after its login ended: the device lets it abort
\* the job, or, when it has lost its clock meanwhile and offers no ABORT, submit the time.
OwnerCanAbort ==
    job.st = "armed" /\ job.by \notin over =>
        \E i \in 1..Slots : /\ a.soft[i].token = job.by
                            /\ Serves(i, IF surface = "preclock" THEN "time" ELSE "abort")

\* No login, bond or proof of a former password has any authority (change_password), and every
\* operation that changes the record has used up a password proof of its own (consume).
PasswordGoverns ==
    /\ \A i \in 1..Slots : Current(a, a.soft[i]) => a.soft[i].under = a.rec.pwd
    /\ Healthy(a) => \A x \in a.rec.bonds : x.under = a.rec.pwd
    /\ done <= proved

\* A challenge whose reply never reaches the client is withdrawn, so that it cannot keep the
\* arbiter busy (finish_request).
ChallengeReturned == chal.tx \in flight => [token |-> chal.token, tx |-> chal.tx] \in pending

=============================================================================
