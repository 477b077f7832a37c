------------------------------- MODULE Si5351 -------------------------------
(***************************************************************************)
(* The Si5351 engine (rf/si5351_engine.cpp), its I2C device                *)
(* (rf/si5351_device.cpp), the execution platform with the output gate and *)
(* its cutoff alarm, and the reference monitor that shares the chip.       *)
(*                                                                         *)
(* A method is an operator on w = [c, v, g, e, m, amp, fil, at, applied,   *)
(* dead, ok]: the chip's registers, the device's belief about them, the    *)
(* gate, the engine, the monitor. at counts the I2C transactions until one *)
(* fails, with or without having reached the chip, and dead tells whether  *)
(* the bus answers afterwards. ok is the result of the last operation.     *)
(***************************************************************************)
EXTENDS Integers, Sequences, FiniteSets

CONSTANTS
    Jobs,               \* [band: "hf" or "vhf", tone: a sequence of tones and Off]
    SiChains,           \* [amp, fil, gate, ref]: what is fitted
    AmpLead, AmpTail,   \* of the amplifier, in ticks
    Release, Settle,    \* of the filter relays
    Step, Budget,       \* length of an event, time allowed for a transition
    Window,             \* from the start to its deadline
    MaxTransactions, MaxTime, MaxFaults   \* bounds

VARIABLES fit, now, c, v, g, e, m, amp, fil, faults

vars == <<fit, now, c, v, g, e, m, amp, fil, faults>>

None == -1

NoPlan == [band |-> "none", tone |-> <<>>]

NoTone == "none"

Off == "off"

Fine == [at |-> None, applied |-> FALSE, dead |-> FALSE, f |-> "none", lock |-> TRUE]

\* What fails in a call: an I2C transaction, f, or the lock of the PLLs.
Failures ==
    {[Fine EXCEPT !.at = n, !.applied = a, !.dead = d] :
        n \in 0..MaxTransactions, a \in BOOLEAN, d \in BOOLEAN}
    \cup {[Fine EXCEPT !.f = x] : x \in {"gate", "alarm", "amp", "fil", "capture", "measure", "open"}}
    \cup {[Fine EXCEPT !.lock = FALSE]}

World(q) ==
    [c |-> c, v |-> v, g |-> g, e |-> e, m |-> m, amp |-> amp, fil |-> fil,
     at |-> q.at, applied |-> q.applied, dead |-> q.dead, f |-> q.f, lock |-> q.lock, ok |-> TRUE]

Became(ws) ==
    \E w \in ws : c' = w.c /\ v' = w.v /\ g' = w.g /\ e' = w.e /\ m' = w.m
                   /\ amp' = w.amp /\ fil' = w.fil

-------------------------------------------------------------------------------
(* The plan *)

Tones(job) == {job.tone[i] : i \in DOMAIN job.tone} \ {Off}

\* The first keyed tone is the first of the plan.
FirstTone(job) ==
    job.tone[CHOOSE i \in DOMAIN job.tone :
                job.tone[i] # Off /\ \A j \in 1..(i - 1) : job.tone[j] = Off]

\* plan: the tones of a VHF job share the integer MultiSynth and tune PLLA, the
\* tones of any other share PLLA and tune the MultiSynth.
TonePll(job, t) == IF job.band = "vhf" THEN t ELSE "base"

ToneMs(job, t) == IF job.band = "vhf" THEN "integer" ELSE t

-------------------------------------------------------------------------------
(* The device *)

\* fault: nothing that was believed of the registers holds.
Faulted(d) ==
    [d EXCEPT !.tx = "unknown", !.ref = "unknown", !.conf = FALSE, !.pll = NoTone, !.ms = NoTone,
              !.txLock = FALSE, !.refLock = FALSE, !.txConf = FALSE, !.primed = FALSE,
              !.pending = "none", !.mask = FALSE]

\* A transaction that sets the registers of u.
Put(w, u) ==
    LET chip == [r \in DOMAIN w.c |-> IF r \in DOMAIN u THEN u[r] ELSE w.c[r]] IN
    IF ~w.ok THEN w
    ELSE IF w.at = 0
         THEN [w EXCEPT !.c = IF w.applied THEN chip ELSE @, !.at = IF w.dead THEN 0 ELSE None,
                        !.applied = FALSE, !.v = Faulted(@), !.ok = FALSE]
    ELSE [w EXCEPT !.c = chip, !.at = IF @ = None THEN None ELSE @ - 1]

Get(w) == Put(w, <<>>)

Again(w) == [w EXCEPT !.ok = TRUE]

\* a; b, as an early return or unconditionally.
Then(w, Op(_)) == IF w.ok THEN Op(w) ELSE w

After(w, Op(_)) == Op(w)

Refused(w) == [w EXCEPT !.ok = FALSE]

BugQuiesce(w) ==
    After(Put([w EXCEPT !.v = Faulted(@), !.ok = TRUE], [maskT |-> TRUE, maskR |-> TRUE]),
        LAMBDA x : After(Put(Again(x), [downT |-> TRUE, downR |-> TRUE]),
            LAMBDA y : [y EXCEPT !.v.tx = "disabled", !.v.ref = "disabled", !.v.mask = TRUE]))

\* quiesce: both shutdown mechanisms, the second even if the first fails.
Quiesce(w) ==
    After(Put([w EXCEPT !.v = Faulted(@), !.ok = TRUE], [maskT |-> TRUE, maskR |-> TRUE]),
        LAMBDA x : After(Put(Again(x), [downT |-> TRUE, downR |-> TRUE]),
            LAMBDA y : IF x.ok /\ y.ok
                       THEN [y EXCEPT !.v.tx = "disabled", !.v.ref = "disabled", !.v.mask = TRUE]
                       ELSE [y EXCEPT !.ok = FALSE, !.v = Faulted(@)]))

\* locked, with the chip's answer for PLLA and PLLB.
Locked(w) ==
    IF ~w.v.conf THEN Refused(w)
    ELSE Then(Get(w), LAMBDA x : [x EXCEPT !.v.txLock = x.v.txConf /\ w.lock,
                                           !.v.refLock = fit.ref /\ w.lock,
                                           !.ok = x.v.txConf /\ w.lock])

Tune(w, job, t) ==
    IF job.band # "vhf" \/ w.v.pll = TonePll(job, t) THEN w
    ELSE Then(Put(w, [pll |-> TonePll(job, t)]),
            LAMBDA x : After(Locked(x),
                LAMBDA y : IF y.ok THEN [y EXCEPT !.v.pll = TonePll(job, t)]
                           ELSE [y EXCEPT !.v = Faulted(@)]))

\* transmit_tone: PLLA of a VHF tone with its lock, then the MultiSynth unless
\* it is unchanged.
TransmitTone(w, job, t) ==
    IF ~w.ok \/ ~w.v.conf \/ ~w.v.txConf \/ w.v.pending # "none" THEN Refused(w)
    ELSE Then(Tune(w, job, t),
            LAMBDA x : IF job.band = "vhf" /\ x.v.ms = ToneMs(job, t) THEN x
                       ELSE Then(Put([x EXCEPT !.v.primed = FALSE],
                                     [ms |-> ToneMs(job, t), downT |-> w.v.tx # "enabled"]),
                                 LAMBDA y : [y EXCEPT !.v.ms = ToneMs(job, t)]))

ConfigurePlan(w, job) ==
    Then(Put(Put(w, [downT |-> TRUE]), [pll |-> TonePll(job, FirstTone(job))]),
        LAMBDA x : Get(TransmitTone(
            [x EXCEPT !.v.conf = TRUE, !.v.txConf = TRUE, !.v.txLock = FALSE, !.v.primed = FALSE,
                      !.v.refLock = @ /\ w.v.conf, !.v.pll = TonePll(job, FirstTone(job))],
            job, FirstTone(job))))

BugConfigure(w, job) ==
    IF w.v.conf /\ w.v.txConf THEN TransmitTone(w, job, FirstTone(job))
    ELSE IF w.v.conf THEN ConfigurePlan(w, job)
    ELSE Then(Quiesce(w), LAMBDA x : ConfigurePlan(x, job))

\* configure: the whole transmit plan once per job; PLLB is left alone when it
\* is already set up.
Configure(w, job) ==
    IF w.v.conf
    THEN IF w.v.pending # "none" \/ w.v.tx # "disabled" THEN Refused(w)
         ELSE ConfigurePlan(w, job)
    ELSE Then(Quiesce(w), LAMBDA x : ConfigurePlan(x, job))

\* configure_reference
ConfigureReference(w) ==
    Then(Get(Put(Quiesce(w), [downR |-> TRUE])), LAMBDA x : [x EXCEPT !.v.conf = TRUE])

\* enabled, of the transmit (maskT, downT) or the reference output.
EnableTx(w, on) ==
    IF ~w.v.conf \/ (on /\ (w.v.pending # "none" \/ ~w.v.txLock)) THEN Refused(w)
    ELSE After(Put([w EXCEPT !.v.tx = "unknown"],
                   IF on THEN [downT |-> FALSE] ELSE [maskT |-> TRUE]),
            LAMBDA x : After(Put(IF on THEN x ELSE Again(x), [maskT |-> ~on, downT |-> ~on]),
                LAMBDA y : IF ~x.ok \/ ~y.ok THEN Refused(y)
                           ELSE [y EXCEPT !.v.tx = IF on THEN "enabled" ELSE "disabled",
                                          !.v.pending = "none", !.v.primed = FALSE]))

EnableRef(w, on) ==
    IF ~w.v.conf \/ (on /\ (w.v.pending # "none" \/ ~w.v.refLock)) THEN Refused(w)
    ELSE After(Put([w EXCEPT !.v.ref = "unknown"],
                   IF on THEN [downR |-> FALSE] ELSE [maskR |-> TRUE]),
            LAMBDA x : After(Put(IF on THEN x ELSE Again(x), [maskR |-> ~on, downR |-> ~on]),
                LAMBDA y : IF ~x.ok \/ ~y.ok THEN Refused(y)
                           ELSE [y EXCEPT !.v.ref = IF on THEN "enabled" ELSE "disabled"]))

ReferenceEnabled(w, on) == IF fit.ref THEN EnableRef(w, on) ELSE [w EXCEPT !.ok = ~on]

TxOn(w) == ~w.c.maskT /\ ~w.c.downT

\* verify_transmit: what the registers say.
VerifyTransmit(w) ==
    IF ~w.ok \/ ~w.v.conf \/ ~w.v.mask THEN Refused(w)
    ELSE Then(Get(Get(w)),
            LAMBDA x : IF x.v.pending # "none" /\ (x.v.pending = "enable") # TxOn(x)
                       THEN [x EXCEPT !.v = Faulted(@), !.ok = FALSE]
                       ELSE [x EXCEPT !.v.tx = IF TxOn(x) THEN "enabled" ELSE "disabled",
                                      !.v.pending = "none",
                                      !.v.primed = x.v.txConf /\ ~TxOn(x) /\ ~x.c.downT])

\* prime_transmit: powered up behind the mask.
PrimeTransmit(w) ==
    IF \/ ~w.ok \/ ~w.v.conf \/ ~w.v.txConf \/ ~w.v.txLock \/ w.v.pending # "none"
       \/ w.v.tx # "disabled" \/ ~w.v.mask
    THEN Refused(w)
    ELSE IF w.v.primed THEN w
    ELSE Then(Put(VerifyTransmit(w), [downT |-> FALSE]), LAMBDA x : [x EXCEPT !.v.primed = TRUE])

\* request_transmit_enabled: one write, verified later.
Request(w, on) ==
    IF \/ ~w.ok \/ ~w.v.conf \/ ~w.v.mask
       \/ on /\ (~w.v.txConf \/ ~w.v.primed \/ ~w.v.txLock \/ w.v.pending # "none"
                 \/ w.v.tx # "disabled")
    THEN Refused(w)
    ELSE Then(Put([w EXCEPT !.v.tx = "unknown"], [maskT |-> ~on]),
              LAMBDA x : [x EXCEPT !.v.pending = IF on THEN "enable" ELSE "disable"])

-------------------------------------------------------------------------------
(* The gate and its cutoff; the amplifier and the filters *)

\* set_gate; w.f = "gate" is a pad that does not follow.
SetGate(w, on) ==
    IF ~w.ok \/ (on /\ w.g.expired) THEN [w EXCEPT !.ok = FALSE]
    ELSE IF ~fit.gate THEN w
    ELSE IF w.f = "gate" THEN [w EXCEPT !.g.unknown = TRUE, !.ok = FALSE]
    ELSE [w EXCEPT !.g.pad = on, !.g.active = on, !.g.unknown = FALSE]

CancelCutoff(w) == [w EXCEPT !.g.cutoff = None, !.g.expired = FALSE]

ArmCutoff(w, at) ==
    IF ~w.ok \/ at <= now \/ w.f = "alarm" THEN [w EXCEPT !.ok = FALSE, !.g.expired = at <= now /\ @]
    ELSE [w EXCEPT !.g.cutoff = at, !.g.expired = FALSE]

Raise(o, ok) == [o EXCEPT !.pad = TRUE, !.off = FALSE, !.on = ok, !.since = now]

Drop(o, ok) == IF ok THEN [o EXCEPT !.pad = FALSE, !.off = TRUE, !.on = FALSE, !.since = 0]
               ELSE [o EXCEPT !.off = FALSE]

AmpDrop(w) == IF fit.amp THEN [w EXCEPT !.amp = Drop(@, w.f # "amp")] ELSE w

FilDrop(w) == IF fit.fil THEN [w EXCEPT !.fil = Drop(@, w.f # "fil")] ELSE w

LeadOf == IF fit.amp THEN AmpLead ELSE 0

TailOf == IF fit.amp THEN AmpTail ELSE 0

\* chain_service_margin is a tick.
Preparation == 1 + (IF fit.fil THEN Release + Settle ELSE 0)

-------------------------------------------------------------------------------
(* The reference monitor *)

Idled(x) == [x EXCEPT !.measuring = FALSE, !.started = 0]

\* pause: an interrupted window is never published.
Pause(w) ==
    IF w.v.ref = "disabled" THEN [w EXCEPT !.m = Idled(@), !.ok = TRUE]
    ELSE After(IF w.v.conf THEN ReferenceEnabled([w EXCEPT !.m = Idled(@), !.ok = TRUE], FALSE)
               ELSE Quiesce([w EXCEPT !.m = Idled(@)]),
            LAMBDA x : IF x.ok THEN x ELSE [x EXCEPT !.m.latest = None, !.m.faulted = TRUE])

MonitorFault(w) ==
    [ReferenceEnabled([w EXCEPT !.m = [Idled(@) EXCEPT !.latest = None, !.faulted = TRUE],
                                !.ok = TRUE], FALSE)
        EXCEPT !.m.retry = now + 1]

ServiceWindow(w) ==
    IF ~w.v.conf \/ w.f = "capture" THEN MonitorFault(w)
    ELSE IF now - w.m.started < 1 THEN w
    ELSE After(ReferenceEnabled([w EXCEPT !.m = Idled(@), !.ok = TRUE], FALSE),
            LAMBDA x : IF ~x.ok \/ w.f = "measure" THEN MonitorFault(x)
                       ELSE [x EXCEPT !.m.latest = x.m.gen, !.m.faulted = FALSE])

BugServiceStart(w) ==
    After(Locked(IF w.v.conf THEN w ELSE ConfigureReference([w EXCEPT !.m.gen = 3 - @])),
        LAMBDA x : IF ~x.v.conf THEN MonitorFault(x)
                   ELSE IF ~x.v.refLock THEN [x EXCEPT !.m.retry = now + 1]
                   ELSE After(EnableRef(Again(x), TRUE),
                            LAMBDA y : IF ~y.ok \/ w.f = "capture" THEN MonitorFault(y)
                                       ELSE [y EXCEPT !.m.measuring = TRUE, !.m.started = now]))

ServiceStart(w) ==
    After(Locked(IF w.v.conf THEN w
                 ELSE ConfigureReference([w EXCEPT !.m.gen = 3 - @, !.m.latest = None])),
        LAMBDA x : IF ~x.v.conf THEN MonitorFault(x)
                   ELSE IF ~x.v.refLock THEN [x EXCEPT !.m.retry = now + 1]
                   ELSE After(EnableRef(Again(x), TRUE),
                            LAMBDA y : IF ~y.ok \/ w.f = "capture" THEN MonitorFault(y)
                                       ELSE [y EXCEPT !.m.measuring = TRUE, !.m.started = now]))

\* service: finish a window, or configure, enable and begin one.
Service(w) ==
    IF w.m.inhibited \/ ~fit.ref \/ now < w.m.retry THEN w
    ELSE IF w.m.measuring THEN ServiceWindow(w)
    ELSE IF w.v.tx # "disabled" THEN w
    ELSE ServiceStart(w)

-------------------------------------------------------------------------------
(* The engine *)

OutputActive(w) ==
    \/ w.v.tx # "disabled"
    \/ fit.gate /\ (w.g.unknown \/ w.g.active)
    \/ fit.amp /\ ~w.amp.off
    \/ fit.fil /\ ~w.fil.off

\* The engine without a job; what only begin() sets again is cleared as well.
Cleared(x) ==
    [x EXCEPT !.st = "Idle", !.phase = "Inactive", !.plan = NoPlan, !.primed = NoTone, !.start = 0,
              !.end = 0, !.deadline = 0, !.release = None, !.selection = None, !.enable = None,
              !.tail = None, !.launch = None, !.event = 1]

\* disable: every step is tried, the filters only behind quiet clocks.
Clocks(w) ==
    IF w.f = "open" THEN Refused(w)
    ELSE IF ~w.v.conf THEN Quiesce(w)
    ELSE After(EnableTx(Again(w), FALSE),
            LAMBDA x : After(ReferenceEnabled(Again(x), FALSE),
                LAMBDA y : IF x.ok /\ y.ok THEN y
                           ELSE IF y.v.conf THEN Refused(y) ELSE Quiesce(y)))

Disable(w) ==
    After(SetGate(CancelCutoff(Again(w)), FALSE),
        LAMBDA x : After(Pause(AmpDrop(Again(x))),
            LAMBDA y : After(Then(Clocks(y), LAMBDA z : FilDrop(z)),
                LAMBDA z : IF x.ok /\ y.ok /\ z.ok /\ ~OutputActive(z)
                           THEN [z EXCEPT !.e = [Cleared(@) EXCEPT !.req = FALSE, !.ack = FALSE]]
                           ELSE [z EXCEPT !.e.st = "Failed", !.e.phase = "Fault", !.ok = FALSE])))

\* fail
Fail(w, outcome) ==
    After(Disable(w),
        LAMBDA x : [x EXCEPT !.e.st = IF x.ok THEN outcome ELSE "Failed", !.e.phase = "Fault",
                             !.ok = FALSE])

OrFail(w) == IF w.ok THEN w ELSE Fail(w, "Failed")

\* prepare: the whole transmit plan is set up, locked and primed behind the mask.
PrepareOf(w, job) ==
    OrFail(Then(SetGate(Pause(w), FALSE),
        LAMBDA x : Then(IF x.v.conf THEN EnableTx(x, FALSE) ELSE Quiesce(x),
            LAMBDA y : Then(Configure(y, job),
                LAMBDA z : Then(PrimeTransmit(Locked(z)),
                    LAMBDA p : [p EXCEPT !.e.plan = job, !.e.primed = FirstTone(job),
                                         !.e.launch = None])))))

\* begin
BeginOf(w, start) ==
    OrFail(Then(Pause(w),
        LAMBDA x : [x EXCEPT !.e = [Cleared(@) EXCEPT !.st = "Armed", !.phase = "Waiting",
                        !.plan = w.e.plan, !.primed = w.e.primed, !.start = start,
                        !.deadline = start + Window]]))

EventEnd(w) == w.e.start + Step * w.e.event

\* launch
Launched(w, keyed, end) ==
    Then(ArmCutoff(SetGate(IF keyed THEN Request(w, TRUE) ELSE w, keyed), end),
        LAMBDA x : [x EXCEPT !.e.st = "Running", !.e.phase = "Rf", !.e.launch = now,
                             !.e.start = now, !.e.end = end])

Launch(w) ==
    IF ~w.e.ack THEN [w EXCEPT !.e.req = TRUE]
    ELSE OrFail(IF (fit.fil /\ (~w.fil.on \/ w.f = "fil")) \/ (fit.amp /\ (~w.amp.on \/ w.f = "amp"))
                THEN Refused(w)
                ELSE Then(Launched(w, w.e.plan.tone[1] # Off,
                                   now + Step * Len(w.e.plan.tone)),
                          LAMBDA x : IF w.e.plan.tone[1] # Off THEN VerifyTransmit(x) ELSE x))

\* The tone that is keyed next, primed while the output is masked.
Following(job, i) ==
    LET later == {j \in (i + 1)..Len(job.tone) : job.tone[j] # Off}
    IN IF later = {} THEN NoTone ELSE job.tone[CHOOSE j \in later : \A k \in later : j <= k]

\* transition
KeyUp(w, i) ==
    Then(VerifyTransmit(Request(SetGate(w, FALSE), FALSE)),
        LAMBDA x : IF Following(w.e.plan, i) = NoTone THEN x
                   ELSE [PrimeTransmit(TransmitTone(x, w.e.plan, Following(w.e.plan, i)))
                            EXCEPT !.e.primed = Following(w.e.plan, i)])

KeyDown(w, i) ==
    Then(IF w.e.plan.tone[i - 1] # Off \/ w.e.primed # w.e.plan.tone[i]
         THEN TransmitTone(w, w.e.plan, w.e.plan.tone[i]) ELSE w,
        LAMBDA x : [IF w.e.plan.tone[i - 1] = Off
                    THEN VerifyTransmit(SetGate(Request(PrimeTransmit(x), TRUE), TRUE))
                    ELSE x EXCEPT !.e.primed = w.e.plan.tone[i]])

Transition(w, i) ==
    IF w.e.plan.tone[i] = w.e.plan.tone[i - 1] THEN w
    ELSE IF w.e.plan.tone[i] = Off THEN KeyUp(w, i)
    ELSE KeyDown(w, i)

\* finish_rf
FinishRf(w) ==
    OrFail(Then(After(SetGate(w, FALSE),
                    LAMBDA x : IF w.v.tx = "disabled" THEN x ELSE Request(x, FALSE)),
        LAMBDA y : IF now > w.e.end + Budget THEN Refused(y)
                   ELSE IF TailOf = 0 THEN [y EXCEPT !.e.st = "Complete"]
                   ELSE Then(VerifyTransmit(y),
                            LAMBDA z : [z EXCEPT !.e.tail = now + TailOf, !.e.phase = "Tail"])))

\* The filters, then the amplifier, then the launch, each when it is due.
Lit(w) == [w EXCEPT !.amp = Raise(@, w.f # "amp"), !.e.enable = now, !.e.phase = "Lead",
                       !.ok = w.amp.off /\ w.f # "amp"]

Amplify(w) ==
    After(IF fit.amp /\ w.e.enable = None /\ now >= w.e.start - LeadOf - 1 THEN Lit(w) ELSE w,
        LAMBDA x :
            IF ~x.ok THEN Fail(x, "Failed")
            ELSE IF fit.amp /\ (x.e.enable = None \/ x.e.enable + LeadOf > x.e.start)
                 THEN IF now >= x.e.start THEN Fail(x, "Missed") ELSE x
            ELSE IF now >= x.e.start THEN Launch(x) ELSE x)

Released(w) ==
    IF w.e.release = None /\ now >= w.e.start - LeadOf - Preparation
    THEN [FilDrop(w) EXCEPT !.e.release = now, !.e.phase = "Selecting", !.ok = w.f # "fil"]
    ELSE w

Selected(w) ==
    IF w.e.release # None /\ w.e.selection = None /\ now >= w.e.release + Release
    THEN [w EXCEPT !.fil = Raise(@, w.f # "fil"), !.e.selection = now, !.ok = w.f # "fil"]
    ELSE w

BugFilters(w) ==
    IF ~fit.fil THEN Amplify(w)
    ELSE After(Selected(Released(w)), LAMBDA x : IF x.ok THEN Amplify(x)
                                                       ELSE Fail(x, "Failed"))

Filters(w) ==
    IF ~fit.fil THEN Amplify(w)
    ELSE After(Then(Released(w), LAMBDA y : Selected(y)),
            LAMBDA x : IF ~x.ok THEN Fail(x, "Failed")
                       ELSE IF x.e.selection = None \/ now < x.e.selection + Settle THEN x
                       ELSE Amplify(x))

\* poll. clock = FALSE: project_start refuses the present clock.
PollRunning(w) ==
    IF w.e.phase = "Tail"
    THEN IF now < w.e.tail THEN w
         ELSE OrFail([FilDrop(AmpDrop(w)) EXCEPT !.e.st = "Complete",
                                                       !.ok = w.f \notin {"amp", "fil"}])
    ELSE IF now >= w.e.end THEN FinishRf(w)
    ELSE IF now < EventEnd(w) THEN w
    ELSE OrFail(IF now > EventEnd(w) + Budget THEN Refused(w)
                ELSE Then(Transition(w, w.e.event + 1),
                          LAMBDA x : [x EXCEPT !.e.event = @ + 1]))

PollOf(w, clock, target) ==
    CASE w.e.st = "Idle" ->
            IF w.e.plan = NoPlan /\ ~w.e.inhibited /\ ~w.e.suspended THEN Service(w) ELSE w
      [] w.e.st = "Armed" ->
            IF ~clock \/ target >= w.e.deadline THEN Fail(w, "Missed")
            ELSE Filters([w EXCEPT !.e.start = target])
      [] w.e.st = "Running" -> PollRunning(w)
      [] OTHER -> w

\* suspend_background
SuspendOf(w) ==
    After(Pause(w), LAMBDA x : [x EXCEPT !.e.suspended = x.ok /\ ~OutputActive(x)])

-------------------------------------------------------------------------------
(* The actions *)

Init ==
    /\ fit \in SiChains /\ now = 0 /\ faults = 0
    /\ c = [maskT |-> TRUE, downT |-> FALSE, maskR |-> TRUE, downR |-> FALSE,
            pll |-> NoTone, ms |-> NoTone]
    /\ v = Faulted([tx |-> None, ref |-> None, conf |-> None, pll |-> None, ms |-> None,
                    txLock |-> None, refLock |-> None, txConf |-> None, primed |-> None,
                    pending |-> None, mask |-> None])
    /\ g = [pad |-> FALSE, active |-> FALSE, unknown |-> FALSE, cutoff |-> None, expired |-> FALSE]
    /\ e = Cleared([st |-> 0, phase |-> 0, plan |-> 0, primed |-> 0, start |-> 0, end |-> 0,
                    deadline |-> 0, release |-> 0, selection |-> 0, enable |-> 0, tail |-> 0,
                    launch |-> 0, event |-> 0, inhibited |-> FALSE, suspended |-> FALSE,
                    req |-> FALSE, ack |-> FALSE])
    /\ m = [measuring |-> FALSE, faulted |-> FALSE, inhibited |-> FALSE, latest |-> None,
            gen |-> 1, started |-> 0, retry |-> 0]
    /\ amp = [pad |-> FALSE, off |-> TRUE, on |-> FALSE, since |-> 0]
    /\ fil = [pad |-> FALSE, off |-> TRUE, on |-> FALSE, since |-> 0]

Disturbed(b) == faults' = faults + (IF b THEN 1 ELSE 0) /\ faults' <= MaxFaults

\* One call of the engine, with at most one failure in it.
Modes == {Fine} \cup (IF faults < MaxFaults THEN Failures ELSE {})

Call(w, q) == Became({w}) /\ Disturbed(q # Fine) /\ UNCHANGED <<fit, now>>

Prepare ==
    /\ e.st = "Idle" /\ ~e.inhibited /\ ~e.suspended
    /\ \E job \in Jobs, q \in Modes : Call(PrepareOf(World(q), job), q)

Begin ==
    /\ e.st = "Idle" /\ e.plan # NoPlan /\ ~e.inhibited /\ ~e.suspended
    /\ ~OutputActive(World(Fine))
    /\ \E q \in Modes : Call(BeginOf(World(q), now + LeadOf + Preparation + 1), q)

Start(shift) == IF now > e.start + shift THEN now ELSE e.start + shift

Poll ==
    \E q \in Modes, shift \in {0, 1}, clock \in BOOLEAN :
        /\ (e.st # "Armed" \/ q # Fine) => clock /\ shift = 0
        /\ Call(PollOf(World(q), clock, Start(shift)), q)

DisableOutput == \E q \in Modes : Call(Disable(World(q)), q)

InhibitOutput ==
    /\ ~e.inhibited /\ Disturbed(TRUE)
    /\ e' = [e EXCEPT !.inhibited = TRUE] /\ m' = [m EXCEPT !.inhibited = TRUE, !.latest = None]
    /\ UNCHANGED <<fit, now, c, v, g, amp, fil>>

SuspendBackground ==
    /\ ~e.suspended /\ e.st = "Idle" /\ ~OutputActive(World(Fine))
    /\ \E q \in Modes : Call(SuspendOf(World(q)), q)

ResumeBackground ==
    /\ e.suspended /\ e' = [e EXCEPT !.suspended = FALSE]
    /\ UNCHANGED <<fit, now, c, v, g, m, amp, fil, faults>>

\* The cutoff alarm, on its own interrupt.
Cutoff ==
    /\ g.cutoff # None /\ now >= g.cutoff
    /\ g' = [SetGate(World(Fine), FALSE).g
                EXCEPT !.cutoff = None, !.expired = TRUE]
    /\ UNCHANGED <<fit, now, c, v, e, m, amp, fil, faults>>

IndicatorAcknowledges ==
    /\ e.req /\ ~e.ack /\ e' = [e EXCEPT !.ack = TRUE]
    /\ UNCHANGED <<fit, now, c, v, g, m, amp, fil, faults>>

\* Time passes for what waits for it; the alarm interrupt is not late.
Tick ==
    /\ e.st \in {"Armed", "Running"} \/ m.measuring \/ m.retry > now \/ g.cutoff # None
    /\ now < MaxTime /\ (g.cutoff # None => now < g.cutoff)
    /\ now' = now + 1 /\ UNCHANGED <<fit, c, v, g, e, m, amp, fil, faults>>

Next == \/ Prepare \/ Begin \/ Poll \/ DisableOutput \/ InhibitOutput \/ SuspendBackground
        \/ ResumeBackground \/ Cutoff \/ IndicatorAcknowledges \/ Tick

Spec == Init /\ [][Next]_vars

-------------------------------------------------------------------------------
(* Properties *)

\* RF leaves the board.
Radiates == ~c.maskT /\ ~c.downT /\ (fit.gate => g.pad)

\* While RF is out the chip is tuned to the tone of the present event, whatever
\* tones, gaps and earlier jobs of the other band came before.
RightTone ==
    Radiates /\ e.st = "Running" =>
        LET t == e.plan.tone[e.event]
        IN t # Off /\ c.pll = TonePll(e.plan, t) /\ c.ms = ToneMs(e.plan, t)

\* RF never leaves the board behind an engine that reports its output off,
\* through partly applied writes, a dead bus, and retries.
NeverSilent == Radiates => OutputActive(World(Fine))

\* RF goes through settled filters and an amplifier that had its lead, and a
\* gated output is off at the end of the job even if nobody polls.
SiChain ==
    Radiates /\ e.st = "Running" =>
        /\ fit.amp => amp.pad /\ now - amp.since >= AmpLead
        /\ fit.fil => fil.pad /\ now - fil.since >= Settle
        /\ fit.gate => now <= e.end

\* The reference output is quiet while a job is prepared, armed or running and
\* while the flash is written, and no measurement outlives its configuration.
RefQuiet ==
    /\ ~c.maskR /\ ~c.downR => e.st = "Failed" \/ (e.plan = NoPlan /\ ~e.suspended)
    /\ m.latest # None => m.latest = m.gen /\ ~m.inhibited

=============================================================================
