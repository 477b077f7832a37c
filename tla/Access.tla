------------------------------- MODULE Access -------------------------------
(***************************************************************************)
(* The local access controller (provisioning/local_access.cpp) as          *)
(* operators on its state a: the access record, the one outstanding proof, *)
(* the BLE peer, the SoftAP sessions, the enrolment window and the bonds   *)
(* of the Bluetooth stack.  An operator returns [a, ok].  fails is the set *)
(* of writes that fail: "store", "stack" and "mark".                       *)
(***************************************************************************)
EXTENDS Integers, FiniteSets

CONSTANTS BondCap,      \* authorized_bond_capacity (4)
          Slots,        \* softap_session_capacity (4)
          ProofLife,    \* proof_lifetime_ms (2 min)
          Window,       \* enrollment_window_ms (2 min)
          Inactivity,   \* softap_inactivity_ms (15 min)
          Absolute      \* softap_absolute_ms (12 h)

Elapsed(now, since, limit) == now < since \/ now - since >= limit

NoOne == [via |-> "none", id |-> 0, epoch |-> 0]

Usb == [via |-> "usb", id |-> 0, epoch |-> 0]

\* RequestBinding: who asks, in which session, for what, with which nonce and parameters.
NoBinding == [who |-> NoOne, sid |-> 0, op |-> "none", nonce |-> 0, gen |-> 0, par |-> <<>>]

NoProof == [on |-> FALSE, bind |-> NoBinding, at |-> 0, epoch |-> 0, pwd |-> FALSE, conf |-> FALSE]

NoPeer == [peer |-> 0, sid |-> 0, prov |-> FALSE, auth |-> FALSE]

\* under is the password the session was opened with (history).
NoSession == [live |-> FALSE, token |-> 0, wtp |-> "none", epoch |-> 0, at |-> 0, last |-> 0, under |-> 0]

NoRecord == [epoch |-> 0, pwd |-> 0, dflt |-> TRUE, bonds |-> {}, bleOff |-> FALSE, field |-> FALSE]

Started == [st |-> "erased", rec |-> NoRecord, proof |-> NoProof, ble |-> NoPeer,
            soft |-> [i \in 1..Slots |-> NoSession], enr |-> -1, stack |-> {}, tokens |-> 0]

Then(a, good) == [a |-> a, ok |-> good]

Healthy(a) == a.st = "valid"

Record(a) == IF Healthy(a) THEN a.rec ELSE NoRecord

\* AccessStore::replace() and commit(): a failed write leaves the store in fault.
Replace(a, r, works) ==
    CASE ~Healthy(a) -> Then(a, FALSE)
      [] Healthy(a) /\ r = a.rec -> Then(a, TRUE)
      [] Healthy(a) /\ r # a.rec /\ works -> Then([a EXCEPT !.rec = r], TRUE)
      [] OTHER -> Then([a EXCEPT !.st = "fault"], FALSE)

MarkBleDisabled(a, fails) ==
    IF Healthy(a) THEN Replace(a, [a.rec EXCEPT !.bleOff = TRUE], "mark" \notin fails).a ELSE a

\* bonds_.erase() with mark_ble_disabled() when it fails.
Forget(a, peer, fails) ==
    IF "stack" \notin fails /\ peer \in a.stack
    THEN Then([a EXCEPT !.stack = @ \ {peer}], TRUE)
    ELSE Then(MarkBleDisabled(a, fails), FALSE)

-----------------------------------------------------------------------------
(* Proofs: one at a time, for one binding, used at most once.              *)

PasswordMatches(a, pw) == Healthy(a) /\ pw = a.rec.pwd

ProvePassword(a, pw, b, now) ==
    IF PasswordMatches(a, pw)
    THEN Then([a EXCEPT !.proof = [on |-> TRUE, bind |-> b, at |-> now, epoch |-> a.rec.epoch,
                                   pwd |-> TRUE, conf |-> FALSE]], TRUE)
    ELSE Then(a, FALSE)

ConfirmLocal(a, b, now) ==
    IF a.proof.on /\ a.proof.bind = b /\ ~Elapsed(now, a.proof.at, ProofLife)
    THEN [a EXCEPT !.proof.conf = TRUE]
    ELSE [a EXCEPT !.proof = [on |-> TRUE, bind |-> b, at |-> now, epoch |-> Record(a).epoch,
                              pwd |-> FALSE, conf |-> TRUE]]

ProofValid(a, b, now) ==
    /\ a.proof.on /\ a.proof.bind = b
    /\ ~Elapsed(now, a.proof.at, ProofLife)
    /\ Healthy(a) => a.proof.epoch = a.rec.epoch

BugConsume(a, b, needPassword, needConfirmation, now) ==
    LET good == /\ ProofValid(a, b, now)
                /\ needPassword => a.proof.pwd
                /\ needConfirmation => a.proof.conf
    IN  Then(IF good THEN a ELSE [a EXCEPT !.proof = NoProof], good)

\* consume(): the proof is gone whatever the answer.
Consume(a, b, needPassword, needConfirmation, now) ==
    Then([a EXCEPT !.proof = NoProof],
         /\ ProofValid(a, b, now)
         /\ needPassword => a.proof.pwd
         /\ needConfirmation => a.proof.conf)

ConsumeEither(a, b, now) ==
    Then([a EXCEPT !.proof = NoProof], ProofValid(a, b, now) /\ (a.proof.pwd \/ a.proof.conf))

InvalidateBinding(a, who, sid) ==
    IF a.proof.on /\ a.proof.bind.who = who /\ a.proof.bind.sid = sid
    THEN [a EXCEPT !.proof = NoProof] ELSE a

\* The guard of every operation that changes the record: healthy, idle, a fresh proof.
AuthorizeSensitive(a, b, idle, now) ==
    IF ~Healthy(a) \/ ~idle THEN Then(a, FALSE) ELSE Consume(a, b, TRUE, a.rec.dflt, now)

SensitiveReady(a, b, idle, now) ==
    CASE ~Healthy(a) \/ ~idle -> "refused"
      [] ~(ProofValid(a, b, now) /\ a.proof.pwd) -> "unproved"
      [] a.rec.dflt /\ ~a.proof.conf -> "confirm"
      [] OTHER -> "ready"

-----------------------------------------------------------------------------

InitializeDefault(a, b, idle, now, fails) ==
    IF a.st # "erased" \/ ~idle THEN Then(a, FALSE)
    ELSE LET c == Consume(a, b, FALSE, TRUE, now)
         IN  CASE ~c.ok -> c
               [] c.ok /\ "store" \in fails -> Then([c.a EXCEPT !.st = "fault"], FALSE)
               [] OTHER -> Then([c.a EXCEPT !.st = "valid", !.rec = [NoRecord EXCEPT !.epoch = 1]], TRUE)

EnrollmentOpen(a, now) == a.enr >= 0 /\ ~Elapsed(now, a.enr, Window)

OpenEnrollment(a, b, idle, now) ==
    IF ~Healthy(a) \/ ~idle \/ a.ble.peer # 0 \/ EnrollmentOpen(a, now) THEN Then(a, FALSE)
    ELSE LET c == IF a.rec.dflt THEN Consume(a, b, FALSE, TRUE, now) ELSE ConsumeEither(a, b, now)
         IN  IF c.ok THEN Then([c.a EXCEPT !.enr = now], TRUE) ELSE c

\* A bond remembers under which password it was authorised (history).
Retained(a, peer) == Healthy(a) /\ \E x \in a.rec.bonds : x.peer = peer

Principal(a, peer) == [via |-> "ble", id |-> peer, epoch |-> Record(a).epoch]

BleConnect(a, peer, isNew, sid, now) ==
    IF /\ Healthy(a) /\ peer # 0 /\ ~a.rec.bleOff /\ a.ble.peer = 0
       /\ IF isNew THEN EnrollmentOpen(a, now) /\ ~Retained(a, peer) ELSE Retained(a, peer)
    THEN Then([a EXCEPT !.ble = [peer |-> peer, sid |-> sid, prov |-> isNew,
                                 auth |-> Retained(a, peer)]], TRUE)
    ELSE Then(a, FALSE)

\* A wrong password, a full record or a failed write costs the provisional bond.
BleAuthorize(a, pw, now, fails) ==
    IF a.ble.peer = 0 \/ ~a.ble.prov \/ ~EnrollmentOpen(a, now) THEN Then(a, FALSE)
    ELSE IF ~PasswordMatches(a, pw) \/ Cardinality(a.rec.bonds) >= BondCap
    THEN Then(Forget([a EXCEPT !.ble = NoPeer], a.ble.peer, fails).a, FALSE)
    ELSE LET bond == [peer |-> a.ble.peer, under |-> a.rec.pwd]
             c == Replace(a, [a.rec EXCEPT !.bonds = @ \cup {bond}], "store" \notin fails)
         IN  IF c.ok
             THEN Then([c.a EXCEPT !.ble.prov = FALSE, !.ble.auth = TRUE, !.enr = -1], TRUE)
             ELSE Then(Forget([c.a EXCEPT !.ble = NoPeer], a.ble.peer, fails).a, FALSE)

BugBleDisconnect(a, fails) ==
    [InvalidateBinding(a, IF a.ble.auth THEN Principal(a, a.ble.peer) ELSE NoOne, a.ble.sid)
        EXCEPT !.ble = NoPeer]

\* ble_disconnect(): a bond that was never authorised is erased.
BleDisconnect(a, fails) ==
    LET gone == [InvalidateBinding(a, IF a.ble.auth THEN Principal(a, a.ble.peer) ELSE NoOne, a.ble.sid)
                    EXCEPT !.ble = NoPeer]
    IN  IF a.ble.prov THEN Forget(gone, a.ble.peer, fails).a ELSE gone

ExpiredProvisional(a, now) == a.ble.peer # 0 /\ a.ble.prov /\ ~EnrollmentOpen(a, now)

\* ble_authorization(): the authenticated principal, or no one.
BleAuthorization(a) ==
    IF a.ble.auth /\ Retained(a, a.ble.peer) /\ ~a.rec.bleOff THEN Principal(a, a.ble.peer) ELSE NoOne

\* remove_bond(): the record first, then the stack.
RemoveBond(a, peer, b, idle, now, fails) ==
    LET c == AuthorizeSensitive(a, b, idle, now)
    IN  IF ~c.ok \/ ~Retained(a, peer) THEN Then(c.a, FALSE)
        ELSE LET d == Replace(c.a, [c.a.rec EXCEPT !.bonds = {x \in @ : x.peer # peer}],
                              "store" \notin fails)
             IN  IF ~d.ok THEN d
                 ELSE Forget(IF d.a.ble.peer = peer THEN [d.a EXCEPT !.ble = NoPeer] ELSE d.a, peer, fails)

InvalidateAllVolatile(a) ==
    [a EXCEPT !.proof = NoProof, !.ble = NoPeer, !.soft = [i \in 1..Slots |-> NoSession], !.enr = -1]

BugChanged(r, pw) == [r EXCEPT !.epoch = @ + 1, !.pwd = pw, !.dflt = FALSE, !.bleOff = FALSE]

\* The record after a change of the password: a new epoch, no bonds.
Changed(r, pw) == [r EXCEPT !.epoch = @ + 1, !.pwd = pw, !.dflt = FALSE, !.bonds = {}, !.bleOff = FALSE]

ChangePassword(a, pw, b, idle, now, fails) ==
    LET c == AuthorizeSensitive(a, b, idle, now)
    IN  IF ~c.ok THEN c
        ELSE LET d == Replace(c.a, Changed(c.a.rec, pw), "store" \notin fails)
                 e == InvalidateAllVolatile(d.a)
             IN  CASE ~d.ok -> d
                   [] d.ok /\ "stack" \notin fails -> Then([e EXCEPT !.stack = {}], TRUE)
                   [] OTHER -> Then(MarkBleDisabled(e, fails), FALSE)

SetFieldMode(a, on, b, idle, now, fails) ==
    LET c == AuthorizeSensitive(a, b, idle, now)
    IN  IF ~c.ok THEN c ELSE Replace(c.a, [c.a.rec EXCEPT !.field = on], "store" \notin fails)

-----------------------------------------------------------------------------
(* SoftAP sessions.                                                        *)

BugLapsed(a, s, protected, now) ==
    \/ ~Healthy(a) \/ s.epoch # a.rec.epoch
    \/ Elapsed(now, s.at, Absolute) \/ Elapsed(now, s.last, Inactivity)

\* The session that owns the job is only lost with the password.
Lapsed(a, s, protected, now) ==
    \/ ~Healthy(a) \/ s.epoch # a.rec.epoch
    \/ /\ protected = "none" \/ s.wtp # protected
       /\ Elapsed(now, s.at, Absolute) \/ Elapsed(now, s.last, Inactivity)

Reclaim(a, protected, now) ==
    [a EXCEPT !.soft = [i \in 1..Slots |-> IF @[i].live /\ Lapsed(a, @[i], protected, now)
                                           THEN NoSession ELSE @[i]]]

Free(a) == {i \in 1..Slots : ~a.soft[i].live}

Login(a, pw, protected, now) ==
    IF ~PasswordMatches(a, pw) THEN Then(a, FALSE)
    ELSE LET r == Reclaim(a, protected, now)
         IN  IF Free(r) = {} THEN Then(r, FALSE)
             ELSE Then([r EXCEPT !.tokens = @ + 1,
                                 !.soft[CHOOSE i \in Free(r) : \A j \in Free(r) : i <= j] =
                                     [live |-> TRUE, token |-> r.tokens + 1, wtp |-> "none",
                                      epoch |-> a.rec.epoch, at |-> now, last |-> now, under |-> pw]], TRUE)

Current(a, s) == s.live /\ Healthy(a) /\ s.epoch = a.rec.epoch

\* bind_softap_session()
Bind(a, i, wtp, now) ==
    LET s == a.soft[i]
    IN  CASE ~s.live -> Then(a, FALSE)
          [] s.live /\ Lapsed(a, s, "none", now) -> Then([a EXCEPT !.soft[i] = NoSession], FALSE)
          [] s.live /\ ~Lapsed(a, s, "none", now) /\ s.wtp \notin {"none", wtp} -> Then(a, FALSE)
          [] OTHER -> Then([a EXCEPT !.soft[i] = [@ EXCEPT !.wtp = wtp, !.last = now]], TRUE)

GraceOperation(op) == op \in {"status", "abort", "time"}

\* softap_authorize(): past the absolute limit only the owner of a live job, and only to end it.
Authorize(a, i, op, wtp, ownsActive, now) ==
    LET s == a.soft[i]
    IN  CASE ~Current(a, s) -> Then(a, FALSE)
          [] Current(a, s) /\ s.wtp # "none" /\ wtp # "none" /\ s.wtp # wtp -> Then(a, FALSE)
          [] OTHER ->
               IF Elapsed(now, s.at, Absolute)
               THEN IF ownsActive /\ GraceOperation(op) THEN Then(a, TRUE)
                    ELSE Then([a EXCEPT !.soft[i] = NoSession], FALSE)
               ELSE IF ~ownsActive /\ Elapsed(now, s.last, Inactivity)
               THEN Then([a EXCEPT !.soft[i] = NoSession], FALSE)
               ELSE Then([a EXCEPT !.soft[i].last = now], TRUE)

Logout(a, i, wtp, owns) ==
    LET s == a.soft[i]
        who == [via |-> "softap", id |-> s.token, epoch |-> 0]
    IN  IF ~s.live \/ s.wtp \notin {"none", wtp} \/ owns THEN Then(a, FALSE)
        ELSE Then([(IF a.proof.on /\ a.proof.bind.who = who THEN [a EXCEPT !.proof = NoProof] ELSE a)
                      EXCEPT !.soft[i] = NoSession], TRUE)

=============================================================================
