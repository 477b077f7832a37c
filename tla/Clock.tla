-------------------------------- MODULE Clock --------------------------------
(***************************************************************************)
(* UTC on the device: the UtcDiscipline that every reader samples           *)
(* (time/utc_discipline.cpp) and the ControllerTimeArbiter in front of it    *)
(* (time/controller_time.cpp), which decides between NTP, GPS, a paired      *)
(* controller and a browser and holds the one challenge a controller answers.*)
(*                                                                         *)
(* Raw time is the timer's; an observation's UTC is its phase, the UTC it    *)
(* gives minus the raw time it was sampled at.  `truth' is the phase of true *)
(* UTC, which moves by at most one for each tick of the local oscillator;    *)
(* uncertainty grows by one with each tick of age.  Within one tick, the age *)
(* of an answered challenge is one of: 0 a browser may still answer, 1 a     *)
(* controller may, 2 too uncertain; a tick takes a challenge past its life.   *)
(* Generations only grow, and are left out of the frequency reference.        *)
(***************************************************************************)
EXTENDS Naturals, Integers, FiniteSets

CONSTANTS Who,         \* principals with their sessions
          Phases,      \* phases a source that is wrong may claim
          MaxNow,      \* ticks of raw time
          MaxSteps,    \* calls between ticks, in all
          Synced,      \* synchronized_for_ns
          SourceLife,  \* controller_source_lifetime_ns, non_ntp_holdover_for_ns
          BrowserLife, \* browser_holdover_for_ns, gps_holdover_for_ns
          Holdover,    \* holdover_for_ns
          Horizon      \* raw time at which utc_valid_until() of a GPS epoch has come

VARIABLES clock, arb, pend, est, now, h

vars == <<clock, arb, pend, est, now, h>>

NoObs == [source |-> "none", phase |-> 0, raw |-> 0, unc |-> 0, who |-> "", gen |-> 0,
          valid |-> FALSE]
NoChallenge == [live |-> FALSE, who |-> "", late |-> FALSE, begun |-> FALSE, delivered |-> FALSE]
NoReference == [raw |-> -1, until |-> -1, fine |-> FALSE]

Init ==
    /\ clock = [valid |-> FALSE, imported |-> FALSE, model |-> FALSE, source |-> "sntp",
                phase |-> 0, raw |-> 0, src |-> 0, unc |-> 0, gen |-> 0]
    /\ arb = [source |-> "none", cur |-> NoObs, rec |-> NoObs, imported |-> FALSE,
              conflict |-> FALSE, ref |-> NoReference, selected |-> FALSE,
              mark |-> -1]
    /\ pend = NoChallenge
    /\ est = NoObs
    /\ now = 1
    /\ \E honest, unlimited \in BOOLEAN :
           h = [honest |-> honest, unlimited |-> unlimited, truth |-> 0, steps |-> 0,
                since |-> {}, epoch |-> 0]

-----------------------------------------------------------------------------
(* UtcDiscipline.                                                            *)

Least(a, b) == IF a < b THEN a ELSE b

(* snapshot(): the age is that of the original source when the model was      *)
(* imported or re-anchored, else of the anchor.                              *)
Age(k) == now - (IF k.imported \/ k.model THEN k.src ELSE k.raw)

MaximumAge(k) ==
    CASE k.source \in {"gps", "browser"} -> BrowserLife
      [] k.source = "controller"         -> SourceLife
      [] OTHER                           -> Holdover

State(k) ==
    IF ~k.valid \/ now < k.raw \/ (k.source = "gps" /\ now >= Horizon) THEN "unsynchronized"
    ELSE IF Age(k) <= Least(Synced, MaximumAge(k)) THEN "synchronized"
    ELSE IF Age(k) <= MaximumAge(k) \/ (h.unlimited /\ k.source = "sntp") THEN "holdover"
    ELSE "unsynchronized"

Usable(k) == State(k) # "unsynchronized"

Uncertainty(k) == k.unc + (now - k.raw)

Invalidated(k) == [k EXCEPT !.valid = FALSE]

(* accept() by observe(): a new anchor must be newer than the one in force.   *)
Anchors(k, o) == o.raw <= now /\ ~(k.valid /\ o.raw <= k.raw)

Anchored(k, o) ==
    [k EXCEPT !.valid = TRUE, !.imported = FALSE, !.model = FALSE, !.source = o.source,
              !.phase = o.phase, !.raw = o.raw, !.src = o.raw, !.unc = o.unc]

\* A better rate is taken for a fresh observation.
BugAdjusted(k) ==
    IF ~k.valid \/ k.source # "browser" \/ ~Usable(k) THEN k
    ELSE [k EXCEPT !.unc = Uncertainty(k), !.raw = now, !.src = now, !.model = TRUE]

(* adjust_browser_rate(): the epoch is carried on, with the uncertainty it    *)
(* has gathered and the age of its own observation.                          *)
Adjusted(k) ==
    IF ~k.valid \/ k.source # "browser" \/ ~Usable(k) THEN k
    ELSE [k EXCEPT !.unc = Uncertainty(k), !.raw = now, !.model = TRUE]

Adjusts(k) == k.valid /\ k.source = "browser" /\ Usable(k)

(* import_model(): the estimator's model as it is now, with the age of the    *)
(* sample behind it.                                                         *)
Imports(k, o) ==
    /\ o.source = "gps" => now < Horizon
    /\ ~(k.imported /\ o.gen < k.gen)
    /\ ~(k.imported /\ o.gen = k.gen /\ o.raw # k.src)

Imported(k, o) ==
    [k EXCEPT !.valid = TRUE, !.imported = TRUE, !.model = FALSE, !.source = o.source,
              !.phase = o.phase, !.raw = now, !.src = o.raw, !.unc = o.unc + (now - o.raw),
              !.gen = o.gen]

-----------------------------------------------------------------------------
(* ControllerTimeArbiter: what an observation says now.                      *)

Lives(o) == now - o.raw <= (IF o.source = "browser" THEN BrowserLife ELSE SourceLife)

(* interval(): the current browser epoch is read from the clock itself.       *)
Speaks(o) ==
    /\ o.valid /\ now >= o.raw
    /\ IF o = arb.cur /\ o.source = "browser" THEN Usable(clock) /\ Age(clock) <= BrowserLife
       ELSE Lives(o)

PhaseOf(o) == IF o = arb.cur /\ o.source = "browser" THEN clock.phase ELSE o.phase

Radius(o) == IF o = arb.cur /\ o.source = "browser" THEN Uncertainty(clock)
             ELSE o.unc + (now - o.raw)

Apart(p, q) == IF p < q THEN q - p ELSE p - q

Overlaps(o, p) ==
    Speaks(o) /\ Speaks(p) /\ Apart(PhaseOf(o), PhaseOf(p)) <= Radius(o) + Radius(p)

CurrentValid ==
    IF arb.imported
    THEN Usable(clock) /\ (arb.cur.source = "gps" \/ Age(clock) <= SourceLife)
    ELSE Speaks(arb.cur)

-----------------------------------------------------------------------------
(* The outcomes of an observation.                                           *)

Tick(g) == [g EXCEPT !.steps = @ + 1]
Offered(o) == [Tick(h) EXCEPT
                 !.since = IF arb.source = "disagreement"
                           THEN @ \union {<<o.source, o.who, o.raw>>} ELSE {}]

Keep(o) == UNCHANGED <<clock, arb>> /\ h' = Offered(o)

(* The candidate contradicts a source in force: neither is believed.          *)
Disagree(o) ==
    /\ clock' = Invalidated(clock)
    /\ arb' = [arb EXCEPT !.imported = FALSE, !.cur = NoObs, !.rec = NoObs,
                          !.source = "disagreement"]
    /\ h' = [Tick(h) EXCEPT !.since = {}]

Recover(o) ==
    /\ arb' = [arb EXCEPT !.rec = o] /\ h' = Offered(o)
    /\ UNCHANGED clock

FineReference == arb.ref.until > now /\ arb.ref.fine /\ ~arb.conflict

\* The arbiter names the source whether or not the clock took it.
BugAccept(base, o) ==
    IF ~Anchors(clock, o)
    THEN arb' = [base EXCEPT !.source = o.source] /\ UNCHANGED clock /\ h' = Offered(o)
    ELSE /\ clock' = Anchored(clock, o)
         /\ arb' = [base EXCEPT !.cur = o, !.selected = FALSE,
                                !.imported = FALSE, !.rec = NoObs, !.source = o.source]
         /\ h' = [Offered(o) EXCEPT !.epoch = o.raw]

(* accept(): `base' is the arbiter after what the caller cleared.  A browser  *)
(* epoch takes the local frequency reference at once.                         *)
Accept(base, o) ==
    IF ~Anchors(clock, o)
    THEN arb' = base /\ UNCHANGED clock /\ h' = Offered(o)
    ELSE /\ clock' = IF o.source = "browser" /\ FineReference
                     THEN [Anchored(clock, o) EXCEPT !.model = TRUE] ELSE Anchored(clock, o)
         /\ arb' = [base EXCEPT !.cur = o, !.selected = o.source = "browser" /\ FineReference,
                                !.imported = FALSE, !.rec = NoObs, !.source = o.source]
         /\ h' = [Offered(o) EXCEPT !.epoch = o.raw]

(* Leaving a disagreement takes a second, later observation of the same       *)
(* source and principal that agrees with the first.                          *)
Recovers(o) == arb.rec.valid /\ arb.rec.source = o.source /\ arb.rec.who = o.who
               /\ Overlaps(arb.rec, o)

Cleared(a) == [a EXCEPT !.cur = NoObs, !.source = "none", !.imported = FALSE]

(* A browser is heard only while no other source is in force, or to renew its *)
(* own epoch.                                                                *)
BrowserBarred(o) ==
    \/ arb.source # "disagreement" /\ arb.cur.source # "browser" /\ Usable(clock)
    \/ CurrentValid /\ arb.cur.source = "browser" /\ arb.cur.who # o.who

Outranked(o) ==
    \/ arb.cur.source \in {"sntp", "gps"} /\ o.source = "controller"
    \/ arb.cur.source = "controller" /\ o.source = "controller" /\ arb.cur.who # o.who

Rests(o) ==
    IF o.source = "browser" /\ arb.source # "disagreement" /\ arb.cur.source # "browser"
    THEN Cleared(arb) ELSE arb

(* observe_model(): CurrentValid is read after a browser has cleared what no  *)
(* longer serves.                                                            *)
ObserveModel(o) ==
    IF arb.conflict \/ (o.source = "browser" /\ BrowserBarred(o)) THEN Keep(o)
    ELSE IF arb.source = "disagreement"
    THEN IF ~Recovers(o) THEN Recover(o)
         ELSE IF o.raw <= arb.rec.raw THEN Keep(o)
         ELSE Accept(arb, o)
    ELSE IF ~CurrentValid \/ Rests(o) # arb THEN Accept(Cleared(arb), o)
    ELSE IF arb.cur.source # "browser" /\ Outranked(o) THEN Keep(o)
    ELSE IF ~Overlaps(arb.cur, o) THEN Disagree(o)
    ELSE Accept(arb, o)

\* The first agreeing model ends a disagreement.
BugImportModel(o) ==
    IF arb.conflict \/ ~Lives(o) THEN Keep(o)
    ELSE IF arb.source # "disagreement" /\ CurrentValid
            /\ arb.cur.source \in {"controller", "browser"} /\ ~Overlaps(arb.cur, o)
    THEN Disagree(o)
    ELSE IF ~Imports(clock, o) THEN Keep(o)
    ELSE /\ clock' = Imported(clock, o)
         /\ arb' = [arb EXCEPT !.cur = o, !.rec = NoObs, !.source = o.source, !.imported = TRUE]
         /\ h' = [Offered(o) EXCEPT !.epoch = o.raw]

(* import_model(): the same sample, projected again, is no second witness.    *)
ImportModel(o) ==
    IF arb.conflict \/ ~Lives(o) THEN Keep(o)
    ELSE IF arb.source = "disagreement" /\ ~Recovers(o) THEN Recover(o)
    ELSE IF arb.source = "disagreement" /\ (o.raw <= arb.rec.raw \/ o.gen <= arb.rec.gen)
    THEN Keep(o)
    ELSE IF arb.source # "disagreement" /\ CurrentValid
            /\ arb.cur.source \in {"controller", "browser"} /\ ~Overlaps(arb.cur, o)
    THEN Disagree(o)
    ELSE IF ~Imports(clock, o) THEN Keep(o)
    ELSE /\ clock' = Imported(clock, o)
         /\ arb' = [arb EXCEPT !.cur = o, !.rec = NoObs, !.source = o.source, !.imported = TRUE]
         /\ h' = [Offered(o) EXCEPT !.epoch = o.raw]

-----------------------------------------------------------------------------
(* The calls.                                                                *)

Calls == h.steps < MaxSteps

(* A source's claim: within its uncertainty of the truth, or anything.        *)
Claims(low, high) == IF h.honest THEN (h.truth - low) .. (h.truth + high) ELSE Phases

(* challenge(): one at a time; a live one gives way only after its lifetime.  *)
Challenge(w) ==
    /\ Calls /\ ~arb.conflict
    /\ ~pend.live \/ pend.late
    /\ pend' = [NoChallenge EXCEPT !.live = TRUE, !.who = w]
    /\ h' = Tick(h) /\ UNCHANGED <<clock, arb, est, now>>

(* challenge_response_started(), challenge_response_delivered(): each moves   *)
(* the time from which the answer is charged, once.                          *)
ResponseStarted ==
    /\ Calls /\ pend.live /\ ~pend.begun /\ ~pend.delivered
    /\ pend' = [pend EXCEPT !.begun = TRUE, !.late = FALSE]
    /\ h' = Tick(h) /\ UNCHANGED <<clock, arb, est, now>>

ResponseDelivered ==
    /\ Calls /\ pend.live /\ pend.begun /\ ~pend.delivered
    /\ pend' = [pend EXCEPT !.delivered = TRUE, !.late = FALSE]
    /\ h' = Tick(h) /\ UNCHANGED <<clock, arb, est, now>>

CancelChallenge ==
    /\ Calls /\ pend.live
    /\ pend' = NoChallenge
    /\ h' = Tick(h) /\ UNCHANGED <<clock, arb, est, now>>

\* The answer is believed as if it had been given at once.
BugSubmit(w, right, browser, age) ==
    /\ Calls /\ pend.live /\ ~arb.conflict
    /\ pend' = NoChallenge
    /\ IF w # pend.who \/ ~right \/ pend.late \/ age > (IF browser THEN 0 ELSE 1)
       THEN UNCHANGED <<clock, arb>> /\ h' = Tick(h)
       ELSE \E p \in Claims(age, 0) :
                ObserveModel([source |-> IF browser THEN "browser" ELSE "controller",
                              phase |-> p, raw |-> now, unc |-> 0, who |-> w,
                              gen |-> 0, valid |-> TRUE])
    /\ UNCHANGED <<est, now>>

(* submit(): the answer consumes the challenge, right or wrong; what it says  *)
(* was sampled at some time since the challenge, which its uncertainty covers.*)
Submit(w, right, browser, age) ==
    /\ Calls /\ pend.live /\ ~arb.conflict
    /\ pend' = NoChallenge
    /\ IF w # pend.who \/ ~right \/ pend.late \/ age > (IF browser THEN 0 ELSE 1)
       THEN UNCHANGED <<clock, arb>> /\ h' = Tick(h)
       ELSE \E p \in Claims(age, 0) :
                ObserveModel([source |-> IF browser THEN "browser" ELSE "controller",
                              phase |-> p, raw |-> now, unc |-> age, who |-> w,
                              gen |-> 0, valid |-> TRUE])
    /\ UNCHANGED <<est, now>>

(* usb/time_exchange.cpp: the USB host's observation, as a controller.        *)
UsbExchange ==
    /\ Calls
    /\ \E p \in Claims(0, 0) :
           ObserveModel([source |-> "controller", phase |-> p, raw |-> now, unc |-> 0,
                         who |-> "usb", gen |-> 0, valid |-> TRUE])
    /\ UNCHANGED <<pend, est, now>>

(* NtpClient::receive(), reference_observation(): the estimator takes a new    *)
(* NTP or GPS sample, and its model is imported.                             *)
Sampled(kind) ==
    /\ Calls
    /\ \E p \in Claims(0, 0) :
         \E o \in {[source |-> kind, phase |-> p, raw |-> now, unc |-> 0, who |-> "",
                    gen |-> est.gen + 1, valid |-> TRUE]} :
             ImportModel(o) /\ est' = o
    /\ UNCHANGED <<pend, now>>

(* NtpClient::apply() of the sample in force.                                *)
Apply ==
    /\ Calls /\ est.valid
    /\ ImportModel(est)
    /\ UNCHANGED <<pend, now, est>>

(* invalidate(): NtpClient::reset_peer() and reference_clock(FALSE).          *)
Invalidate(kind) ==
    /\ Calls /\ arb.source \in {kind, "disagreement"}
    /\ clock' = Invalidated(clock)
    /\ arb' = [Cleared(arb) EXCEPT !.rec = NoObs]
    /\ h' = [Tick(h) EXCEPT !.since = {}]
    /\ UNCHANGED <<pend, est, now>>

\* The conflict is noted, the epoch stays in force.
BugConflict(on) ==
    /\ Calls /\ arb.conflict # on
    /\ UNCHANGED clock
    /\ arb' = [arb EXCEPT !.conflict = on]
    /\ h' = Tick(h) /\ UNCHANGED <<pend, est, now>>

(* frequency_reference_conflict().                                           *)
Conflict(on) ==
    /\ Calls /\ arb.conflict # on
    /\ clock' = IF on THEN Invalidated(clock) ELSE clock
    /\ arb' = [arb EXCEPT !.conflict = on]
    /\ h' = Tick(h) /\ UNCHANGED <<pend, est, now>>

(* observe_frequency_reference(): it serves a browser epoch and no other.     *)
Reference(fine) ==
    /\ Calls /\ arb.mark < now
    /\ \E r \in {[raw |-> now, until |-> now + 1, fine |-> fine]} :
           IF arb.conflict \/ arb.source # "browser" \/ ~fine
           THEN /\ arb' = [arb EXCEPT !.ref = r, !.mark = now,
                               !.selected = @ /\ (arb.conflict \/ arb.source # "browser")]
                /\ UNCHANGED clock
           ELSE /\ arb' = [arb EXCEPT !.ref = r, !.mark = now, !.selected = Adjusts(clock)]
                /\ clock' = Adjusted(clock)
    /\ h' = Tick(h) /\ UNCHANGED <<pend, est, now>>

(* retire_frequency_reference(): loss ends the reference now; removal of the  *)
(* policy also re-anchors a browser epoch without it.                         *)
Retire(removed) ==
    /\ Calls /\ arb.ref # NoReference
    /\ IF removed
       THEN arb' = [arb EXCEPT !.ref = NoReference, !.selected = FALSE] /\ clock' = Adjusted(clock)
       ELSE arb' = [arb EXCEPT !.ref.until = Least(@, now)] /\ UNCHANGED clock
    /\ h' = Tick(h) /\ UNCHANGED <<pend, est, now>>

(* A tick of raw time, during which true UTC may gain one on it.              *)
TickOn(d) ==
    /\ now < MaxNow /\ (d = 0 \/ h.honest)
    /\ now' = now + 1
    /\ pend' = IF pend.live THEN [pend EXCEPT !.late = TRUE] ELSE pend
    /\ h' = [h EXCEPT !.truth = @ + d]
    /\ UNCHANGED <<clock, arb, est>>

Next ==
    \/ \E w \in Who : Challenge(w)
    \/ ResponseStarted \/ ResponseDelivered \/ CancelChallenge
    \/ \E w \in Who, right, browser \in BOOLEAN, age \in 0 .. 2 :
           Submit(w, right, browser, age)
    \/ UsbExchange \/ Apply
    \/ \E kind \in {"sntp", "gps"} : Sampled(kind) \/ Invalidate(kind)
    \/ \E on \in BOOLEAN : Conflict(on) \/ Retire(on)
    \/ \E fine \in BOOLEAN : Reference(fine)
    \/ \E d \in {0, 1} : TickOn(d)

Spec == Init /\ [][Next]_vars

-----------------------------------------------------------------------------
(* Properties.                                                               *)

(* While every source is honest about its uncertainty, so is the clock:       *)
(* through late answers, re-anchoring, imports and holdover, true UTC lies    *)
(* within the uncertainty a reader is given.                                 *)
Truthful ==
    (h.honest /\ Usable(clock)) => Apart(clock.phase, h.truth) <= Uncertainty(clock)

(* No UTC is given out while two sources contradict each other or the         *)
(* frequency reference contradicts the epoch.                                *)
StopsOnConflict == (arb.source = "disagreement" \/ arb.conflict) => ~Usable(clock)

(* The age a reader is given is never less than that of the observation       *)
(* behind the epoch: rates and projections refresh nothing.                  *)
AgeHonest == Usable(clock) => Age(clock) >= now - h.epoch

(* A disagreement is left for a source only after two samples of that source  *)
(* and principal, taken at different times since it began.                    *)
RecoveryStep ==
    (arb.source = "disagreement" /\ arb'.source \notin {"disagreement", "none"})
        => \E e, f \in h'.since : /\ e[3] # f[3]
                                  /\ e[1] = arb'.source /\ f[1] = arb'.source /\ e[2] = f[2]
RecoveryIndependent == [][RecoveryStep]_vars

(* The source the arbiter names is the one whose epoch runs.                  *)
LabelsAgree ==
    (Usable(clock) /\ arb.source # "none") => arb.source = clock.source

(* What a reader is told about UTC is true, or nothing is told.               *)
ClockHonest == Truthful /\ StopsOnConflict /\ AgeHonest /\ LabelsAgree
=============================================================================
