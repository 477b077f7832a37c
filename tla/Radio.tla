------------------------------- MODULE Radio -------------------------------
(***************************************************************************)
(* The browser sessions of the radio surface (network/consumer_radio.cpp): *)
(* login, sealed requests, recovery of a forgotten session, and the        *)
(* reasons a session ends.  The browser API, the setup authority and the   *)
(* time arbiter are what a request leaves pending there; the profile and   *)
(* access stores are their sequences and the password they hold.           *)
(***************************************************************************)
EXTENDS Integers, FiniteSets

CONSTANTS Slots,                             \* session_capacity
          Login, Idle, Absolute, Proof,      \* limits on a session, in ticks
          Kinds,                             \* requests a browser may seal
          Places,                            \* "ap", and the station's "ip" and "name"
          LastSequence,                      \* UINT64_MAX
          MaxSteps                           \* bound on logins, requests and changes around it

VARIABLES d,        \* the radio API and what it keeps pending elsewhere
          e,        \* stores and listeners
          h         \* transport: requests made, replies in flight or sent; requests served unfit

vars == <<d, e, h>>

\* A session: its ages are what is left of its timestamps, pw the password it proved and used the
\* packets it opened (both history), target what a recovery asks to retire.
NoSession == [st |-> "none", sid |-> 0, gen |-> 0, age |-> 0, quiet |-> 0, next |-> 1, pend |-> 0,
              place |-> "none", pw |-> -1, used |-> {}, target |-> 0]

Init ==
    /\ d = [ss |-> [i \in 1..Slots |-> NoSession], rec |-> NoSession, serial |-> 0,
            limited |-> {}, cred |-> 0, credAge |-> 0, seen |-> 0, digest |-> 0,
            api |-> 0, setup |-> 0, slot |-> 0, chal |-> 0, applied |-> {}]
    /\ e = [admit |-> TRUE, healthy |-> TRUE, access |-> "ok", gen |-> 0, pw |-> 0, seq |-> 0,
            ap |-> TRUE, sta |-> 1, idle |-> TRUE, changes |-> 0]
    /\ h = [flight |-> {}, sent |-> {}, tx |-> 0, unfit |-> FALSE]

Spent == d.serial + h.tx + e.changes

-----------------------------------------------------------------------------
(* Availability and the end of a session.                                  *)

\* authentication_password() and available(): no password while storage is in doubt.
Available == e.admit /\ e.healthy /\ e.access = "ok"

Reachable(place) == IF place = "ap" THEN e.ap ELSE e.sta # 0

PageAdmitted(place) == Available /\ Reachable(place)

BugFinishRequest(w, tx, apply) ==
    IF tx # 0 /\ \E i \in DOMAIN w.ss : w.ss[i].pend = tx
    THEN [w EXCEPT !.ss = [i \in DOMAIN w.ss |-> IF w.ss[i].pend = tx
                                                 THEN [w.ss[i] EXCEPT !.pend = 0] ELSE w.ss[i]]]
    ELSE w

\* The pending reply of a session is over: the API and the setup authority hear of it.
FinishRequest(w, tx, apply) ==
    IF tx # 0 /\ \E i \in DOMAIN w.ss : w.ss[i].pend = tx
    THEN [w EXCEPT !.ss = [i \in DOMAIN w.ss |-> IF w.ss[i].pend = tx
                                                 THEN [w.ss[i] EXCEPT !.pend = 0] ELSE w.ss[i]],
                   !.api = IF @ = tx THEN 0 ELSE @,
                   !.setup = IF @ = tx THEN 0 ELSE @,
                   !.applied = @ \cup (IF apply /\ e.idle /\ tx \in {w.api, w.setup} THEN {tx} ELSE {})]
    ELSE w

\* What the end of a session leaves of the challenge and of the setup slot it holds.
Forgotten(w, sid) ==
    [w EXCEPT !.chal = IF @ = sid THEN 0 ELSE @, !.slot = IF @ = sid THEN 0 ELSE @]

CloseSession(w, i) ==
    [Forgotten(FinishRequest(w, w.ss[i].pend, FALSE), w.ss[i].sid) EXCEPT !.ss[i] = NoSession]

CloseRecovery(w) == [w EXCEPT !.rec = NoSession]

\* Closing several sessions: each settles its own pending reply.
CloseThose(w, gone) ==
    LET pend == {w.ss[i].pend : i \in gone} \ {0}
        sids == {w.ss[i].sid : i \in gone}
    IN  [w EXCEPT !.ss = [i \in DOMAIN w.ss |-> IF i \in gone THEN NoSession ELSE w.ss[i]],
                  !.api = IF @ \in pend THEN 0 ELSE @,
                  !.setup = IF @ \in pend THEN 0 ELSE @,
                  !.chal = IF @ \in sids THEN 0 ELSE @,
                  !.slot = IF @ \in sids THEN 0 ELSE @]

CloseAll(w) == CloseRecovery(CloseThose(w, DOMAIN w.ss))

Expired(s) ==
    \/ ~Available
    \/ s.gen # e.gen
    \/ s.age >= (IF s.st = "pending" THEN Login ELSE Absolute)
    \/ s.st = "active" /\ s.quiet >= Idle

\* The credential window and the saved password, when the access store has moved.
BugPollPassword(w) ==
    [w EXCEPT !.cred = IF w.credAge >= 1 THEN 0 ELSE @, !.credAge = 0, !.digest = e.pw, !.seen = e.seq]

PollPassword(w) ==
    LET u == [w EXCEPT !.cred = IF w.credAge >= 1 THEN 0 ELSE @, !.credAge = 0,
                       !.digest = e.pw, !.seen = e.seq]
    IN  IF e.seq # w.seen /\ e.pw # w.digest THEN CloseAll(u) ELSE u

PollSessions(w) ==
    CloseThose(IF /\ w.rec.st # "none"
                  /\ (~Available \/ w.rec.gen # e.gen \/ w.rec.age >= Proof)
               THEN CloseRecovery(w) ELSE w,
               {i \in DOMAIN w.ss : w.ss[i].st # "none" /\ Expired(w.ss[i])})

Poll(w) == PollSessions(PollPassword(w))

-----------------------------------------------------------------------------
(* The world around it.                                                    *)

Became(w) == d' = w

\* active() of the main loop, or any public page, read or status request.
MainLoop == Became(Poll(d)) /\ UNCHANGED <<e, h>>

Least(a, b) == IF a <= b THEN a ELSE b

Older(s) ==
    IF s.st = "none" THEN s
    ELSE [s EXCEPT !.age = Least(@ + 1, Absolute), !.quiet = Least(@ + 1, Idle)]

\* Time passes: a rate limit of one second is over, ages stop mattering at their limits.
Tick ==
    /\ d' = [d EXCEPT !.ss = [i \in 1..Slots |-> Older(d.ss[i])], !.rec = Older(@), !.limited = {},
                      !.credAge = IF d.cred = 0 THEN 0 ELSE 1]
    /\ UNCHANGED <<e, h>>

Changed(f) == Spent < MaxSteps /\ e' = [f EXCEPT !.changes = @ + 1]

\* admission(): closing it ends every session.
Admission(open) ==
    /\ open # e.admit
    /\ Changed([e EXCEPT !.admit = open])
    /\ Became(IF open THEN d ELSE CloseAll(d))
    /\ UNCHANGED <<h>>

\* Sessions of an access point that is gone, or of a station that changed address or name.
Listeners(ap, sta) ==
    {i \in DOMAIN d.ss : \/ d.ss[i].place = "ap" /\ ~ap
                         \/ d.ss[i].place \in {"ip", "name"} /\ sta # e.sta}

ListenersChange(ap, sta) ==
    /\ <<ap, sta>> # <<e.ap, e.sta>>
    /\ Changed([e EXCEPT !.ap = ap, !.sta = sta])
    /\ LET w == CloseThose(d, Listeners(ap, sta))
       IN  Became(IF \/ w.rec.place = "ap" /\ ~ap
                     \/ w.rec.place \in {"ip", "name"} /\ sta # e.sta
                  THEN CloseRecovery(w) ELSE w)
    /\ UNCHANGED <<h>>

\* A profile is committed, a store fails, the access record is changed over Bluetooth, a job runs.
StoresChange ==
    /\ \/ Changed([e EXCEPT !.gen = @ + 1])
       \/ Changed([e EXCEPT !.healthy = ~@])
       \/ e.access = "ok" /\ Changed([e EXCEPT !.access = "reset", !.seq = @ + 1])
       \/ e.access = "ok" /\ \E pw \in {0, 1} : Changed([e EXCEPT !.pw = pw, !.seq = @ + 1])
       \/ Changed([e EXCEPT !.idle = ~@])
    /\ UNCHANGED <<d, h>>

\* The setup slot or the challenge is given up by its own authority.
ElsewhereEnds ==
    /\ \/ d.slot # 0 /\ d.setup = 0 /\ Became([d EXCEPT !.slot = 0])
       \/ d.chal # 0 /\ Became([d EXCEPT !.chal = 0])
    /\ UNCHANGED <<e, h>>

-----------------------------------------------------------------------------
(* Login.                                                                  *)

\* start(): one login at a time, at most one a second; a failed key exchange leaves no session.
Start(place, works) ==
    /\ PageAdmitted(place)
    /\ Spent < MaxSteps
    /\ LET w == Poll(d)
           free == {i \in 1..Slots : w.ss[i].st = "none"}
       IN  /\ \A i \in 1..Slots : w.ss[i].st # "pending"
           /\ free # {}
           /\ "start" \notin w.limited
           /\ \E i \in free :
                /\ \A j \in free : i <= j
                /\ Became(IF works
                          THEN [w EXCEPT !.serial = @ + 1, !.limited = @ \cup {"start"},
                                         !.ss[i] = [NoSession EXCEPT !.st = "pending",
                                            !.sid = w.serial + 1, !.gen = e.gen, !.place = place]]
                          ELSE CloseSession(w, i))
    /\ UNCHANGED <<e, h>>

\* finish(): a complete proof uses up the pending login, right or wrong.
Finish(i, good, seals) ==
    /\ PageAdmitted(d.ss[i].place)
    /\ LET w == Poll(d)
       IN  /\ w.ss[i].st = "pending"
           /\ Became(IF good /\ seals
                     THEN [w EXCEPT !.ss[i].st = "active", !.ss[i].age = 0, !.ss[i].quiet = 0,
                                    !.ss[i].pw = e.pw]
                     ELSE CloseSession(w, i))
    /\ UNCHANGED <<e, h>>

-----------------------------------------------------------------------------
(* Recovery: a proof of the password retires one session it names.         *)

Selected(w, target) == {i \in DOMAIN w.ss : w.ss[i].st # "none" /\ w.ss[i].sid = target}

\* The rate limit counts every attempt that reached the key exchange.
RecoveryStart(place, target, works) ==
    /\ PageAdmitted(place)
    /\ Spent < MaxSteps
    /\ LET w == Poll(d)
       IN  /\ w.rec.st = "none"
           /\ "recovery" \notin w.limited
           /\ \A i \in Selected(w, target) : w.ss[i].place = place
           /\ Became(IF works
                     THEN [w EXCEPT !.serial = @ + 1, !.limited = @ \cup {"recovery"},
                                    !.rec = [NoSession EXCEPT !.st = "pending", !.sid = w.serial + 1,
                                               !.gen = e.gen, !.place = place,
                                               !.target = target]]
                     ELSE CloseRecovery([w EXCEPT !.limited = @ \cup {"recovery"}]))
    /\ UNCHANGED <<e, h>>

BugVictims(w) == {i \in DOMAIN w.ss : w.ss[i].st # "none" /\ w.ss[i].place = w.rec.place}

Victims(w) == {i \in Selected(w, w.rec.target) : w.ss[i].place = w.rec.place}

RecoveryFinish(good, seals) ==
    /\ PageAdmitted(d.rec.place)
    /\ LET w == Poll(d)
       IN  /\ w.rec.st = "pending"
           /\ Became(CloseRecovery(IF good /\ seals THEN CloseThose(w, Victims(w)) ELSE w))
    /\ UNCHANGED <<e, h>>

-----------------------------------------------------------------------------
(* Sealed requests.                                                        *)

AccessChangeReady(w) == e.idle /\ w.api = 0

SetupBusy(w) == w.setup # 0 \/ w.slot # 0

\* What the request leaves behind before its reply is sealed; w.ss[i] has consumed the packet.
Served(w, i, k, tx) ==
    CASE k = "time" /\ w.ss[i].place = "ap" /\ w.chal = 0 -> [w EXCEPT !.chal = w.ss[i].sid]
      [] k = "field" /\ AccessChangeReady(w) /\ ~SetupBusy(w) -> [w EXCEPT !.cred = tx, !.credAge = 0]
      [] k = "password" /\ AccessChangeReady(w) /\ ~SetupBusy(w) -> [w EXCEPT !.cred = tx, !.credAge = 0]
      [] k = "setup" /\ ~SetupBusy(w) -> [w EXCEPT !.setup = tx, !.slot = w.ss[i].sid]
      [] k = "write" /\ AccessChangeReady(w) /\ ~SetupBusy(w) -> [w EXCEPT !.api = tx]
      [] OTHER -> w

PasswordSaved(w, k) == k = "password" /\ AccessChangeReady(w) /\ ~SetupBusy(w)

FieldSaved(w, k) == k = "field" /\ AccessChangeReady(w) /\ ~SetupBusy(w)

\* The reply is sealed, or the session ends without one; a saved password ends all of them.
Reply(w, i, saved, tx, seals) ==
    IF saved
    THEN CloseAll([(IF seals THEN w ELSE FinishRequest(w, tx, FALSE))
                     EXCEPT !.digest = e'.pw, !.seen = e'.seq])
    ELSE IF seals THEN w ELSE CloseSession(FinishRequest(w, tx, FALSE), i)

BugConsumed(w, i) == [w EXCEPT !.ss[i].used = @ \cup {w.ss[i].next}]

\* The packet's sequence number is used up before the packet is opened.
Consumed(w, i) == [w EXCEPT !.ss[i].next = @ + 1, !.ss[i].used = @ \cup {w.ss[i].next}]

\* exchange() of an authentic packet <<sid, seq>> that holds a request of kind k.
Exchange(i, seq, k, seals) ==
    /\ Spent < MaxSteps
    /\ PageAdmitted(d.ss[i].place)
    /\ LET w == Poll(d)
           s == w.ss[i]
           tx == h.tx + 1
           u == Consumed(w, i)
           v == [Served(u, i, k, tx) EXCEPT !.ss[i].pend = tx,
                                            !.ss[i].quiet = IF k = "time" THEN @ ELSE 0]
           saved == PasswordSaved(w, k)
       IN  /\ s.st = "active" /\ s.pend = 0 /\ s.next = seq
           /\ e' = IF saved THEN [e EXCEPT !.pw = 1 - @, !.seq = @ + 1]
                   ELSE IF FieldSaved(w, k) THEN [e EXCEPT !.seq = @ + 1] ELSE e
           /\ h' = [h EXCEPT !.tx = tx,
                             !.flight = @ \cup (IF seals /\ k \notin {"logout", "badcontrol"}
                                                THEN {tx} ELSE {}),
                             !.unfit = @ \/ seq \in s.used
                                         \/ s.gen # e.gen \/ s.pw # e.pw
                                         \/ s.age >= Absolute \/ s.quiet >= Idle
                                         \/ ~Reachable(s.place)]
           /\ Became(CASE k \in {"forged", "badcontrol", "logout"} -> CloseSession(u, i)
                       [] k = "malformed" -> IF seals THEN u ELSE CloseSession(u, i)
                       [] OTHER -> Reply(v, i, saved, tx, seals))

\* The last sequence number is never used: the session ends instead.
Exhausted(i) ==
    /\ PageAdmitted(d.ss[i].place)
    /\ LET w == Poll(d)
       IN  w.ss[i].st = "active" /\ w.ss[i].next = LastSequence /\ Became(CloseSession(w, i))
    /\ UNCHANGED <<e, h>>

\* The transport reports a reply: delivered, or its connection was lost.
Delivered(tx, sent) ==
    /\ tx \in h.flight
    /\ Became(FinishRequest(d, tx, sent))
    /\ h' = [h EXCEPT !.flight = @ \ {tx}, !.sent = IF sent THEN @ \cup {tx} ELSE @]
    /\ UNCHANGED <<e>>

Next ==
    \/ MainLoop
    \/ Tick
    \/ \E open \in BOOLEAN : Admission(open)
    \/ \E ap \in BOOLEAN, sta \in 0..2 : ListenersChange(ap, sta)
    \/ StoresChange
    \/ ElsewhereEnds
    \/ \E p \in Places, works \in BOOLEAN : Start(p, works)
    \/ \E i \in 1..Slots, good \in BOOLEAN, seals \in BOOLEAN : Finish(i, good, seals)
    \/ \E p \in Places, t \in 1..MaxSteps, works \in BOOLEAN : RecoveryStart(p, t, works)
    \/ \E good \in BOOLEAN, seals \in BOOLEAN : RecoveryFinish(good, seals)
    \/ \E i \in 1..Slots, seq \in 0..LastSequence, k \in Kinds, seals \in BOOLEAN : Exchange(i, seq, k, seals)
    \/ \E i \in 1..Slots : Exhausted(i)
    \/ \E tx \in 1..MaxSteps, sent \in BOOLEAN : Delivered(tx, sent)

Spec == Init /\ [][Next]_vars

-----------------------------------------------------------------------------

\* No request is served twice, nor for a session whose password, profile, address or age has
\* passed: every packet is used up before it is opened, and every request polls first.
RequestsAuthorised == ~h.unfit

\* Whatever is pending at the API, the setup authority or the time arbiter belongs to a session
\* that is still there: a closed session, a lost reply or an unsealable one never leaves the
\* device refusing every later change.  What was applied had its reply delivered.
DeferredOwned ==
    /\ d.api # 0 => \E i \in 1..Slots : d.ss[i].pend = d.api
    /\ d.setup # 0 => \E i \in 1..Slots : d.ss[i].pend = d.setup
    /\ d.slot # 0 => \E i \in 1..Slots : d.ss[i].sid = d.slot
    /\ d.chal # 0 => \E i \in 1..Slots : d.ss[i].sid = d.chal
    /\ d.applied \subseteq h.sent

\* A recovery proof ends no session but the one it named, at the address it was made for.
RecoveryStep ==
    d.rec.st = "pending" /\ d'.rec.st = "none" /\ UNCHANGED <<e, h>> =>
        \A i \in 1..Slots : d.ss[i].st = "active" /\ d'.ss[i].st = "none" =>
            d.ss[i].sid = d.rec.target \/ Expired(d.ss[i]) \/ Poll(d).rec.st = "none"

RecoveryPrecise == [][RecoveryStep]_vars

=============================================================================
