----------------------------- MODULE RfProofs -------------------------------
(***************************************************************************)
(* The output engines, for every timing, length of job and failure.        *)
(*                                                                         *)
(* The sample sink turns RF on only behind a ready chain, completes a job  *)
(* only with all of it sent, and switches amplifier and relays in their    *)
(* order, whenever interrupts come. A method is an operator on a world,    *)
(* and so is the invariant: Good says what is true of the levels (Levels), *)
(* the indicator's tickets (Tickets), an empty sink (Resting), the phases  *)
(* of an arming (Prepared), the blocks on their way (Streaming), RF (Lit), *)
(* the tail (Trailing) and a job that is complete (Whole). t is the time   *)
(* and b the chain that is fitted.                                         *)
(*                                                                         *)
(* The Si5351 (second part) keeps RF on the tone of the present event and  *)
(* the reference output quiet, through partly applied transactions. Its    *)
(* invariant, SiGood, says that the device's belief is right (Believed), a *)
(* prepared job is tuned behind masked outputs (Ready), what was switched  *)
(* on while armed is on since then (Waiting), a running chip follows the   *)
(* events (InTune) behind a ready chain and a cutoff (InChain), and that a *)
(* result of the monitor is fresh (FreshResult).                           *)
(***************************************************************************)
EXTENDS MCRf, SequenceTheorems, WellFoundedInduction, TLAPS

\* A checked output.
Outs == [off: BOOLEAN, pad: BOOLEAN, on: BOOLEAN, since: Nat]

\* A DMA channel in use.
Channels == [epoch: Int, seq: Nat, tail: BOOLEAN, done: BOOLEAN]

\* The driver.
Drivers == [active: BOOLEAN, chans: Seq(Channels), alarm: Int, alarmEpoch: Int,
            pending: BOOLEAN, stalled: BOOLEAN, gap: BOOLEAN, offAt: Nat]

\* The sink.
Sinks == [st: {"Idle", "Armed", "Running", "Complete", "Missed", "Failed"}, epoch: Int,
          queued: Nat, submitted: Nat, total: Nat, done: Nat, tail: BOOLEAN,
          tailSubmitted: BOOLEAN, start: Int, deadline: Int, launch: Int, enable: Int,
          break: Int, selected: Int, ready: BOOLEAN, tailAt: Int, refused: BOOLEAN]

\* The indicator's gate.
Gates == [req: Nat, ack: Nat, next: Nat, seen: Nat]

\* All of it.
Worlds == [k: Sinks, d: Drivers, amp: Outs, fil: Outs, ind: Gates]

\* What the code knows of an output is so.
Level(o, t) == (o.off => ~o.pad /\ ~o.on) /\ (o.on => o.pad) /\ o.since <= t

\* An amplifier that is not fitted is never on.
Levels(w, t, b) == Level(w.amp, t) /\ Level(w.fil, t) /\ w.d.offAt <= t /\ (~b.amp => ~w.amp.pad)

\* A request is for the newest ticket, which is acknowledged only if read.
Tickets(i) ==
    /\ i.req \in {0, i.next} /\ i.ack <= i.next /\ i.seen <= i.next
    /\ i.ack = i.next => i.seen \in {0, i.next}

\* What holds in any state of the sink.
Base(w, t, b) == w \in Worlds /\ Levels(w, t, b) /\ Tickets(w.ind)

\* An idle sink has nothing in the driver and everything off.
Resting(w) ==
    /\ w.d.chans = <<>> /\ w.amp.off /\ w.fil.off
    /\ w.k.submitted = w.k.queued /\ w.k.queued <= 2
    /\ ~w.k.tail /\ ~w.k.tailSubmitted /\ ~w.k.ready
    /\ w.k.enable = None /\ w.k.selected = None /\ w.k.tailAt = None

\* Each phase of an arming waits for the one before; what is on has been since its phase.
Prepared(w, b) ==
    /\ w.k.tailAt = None
    /\ w.k.enable = None => ~w.amp.pad
    /\ w.k.enable # None /\ w.amp.on => w.amp.since <= w.k.enable
    /\ w.k.selected # None /\ w.fil.on => w.fil.since <= w.k.selected
    /\ b.fil /\ w.k.selected = None => ~w.k.ready /\ w.k.enable = None

\* The channels q hold blocks that were submitted, then the tail.
Chained(k0, q) ==
    \A i \in DOMAIN q :
        /\ q[i].tail <=> q[i].seq = k0.total
        /\ q[i].tail => k0.tailSubmitted
        /\ ~q[i].tail => q[i].seq < k0.submitted

\* The tail is in a channel and not out yet.
Awaits(q) == \E i \in DOMAIN q : q[i].tail /\ ~q[i].done

\* The last block of the job is in a channel.
LastIn(k0, q) == \E i \in DOMAIN q : q[i].seq + 1 = k0.total

\* The blocks of an armed or running job: the tail follows the last one.
Streaming(w) ==
    /\ w.k.total > 0 /\ w.k.submitted <= w.k.total
    /\ w.k.tailSubmitted => w.k.submitted = w.k.total
    /\ ~w.k.tailSubmitted => Len(w.d.chans) <= w.k.queued
    /\ w.k.tail => w.k.tailSubmitted /\ w.k.done = w.k.total
    /\ Chained(w.k, w.d.chans)
    /\ w.k.st = "Armed" \/ w.d.active =>
        (w.k.tail \/ (w.k.tailSubmitted /\ LastIn(w.k, w.d.chans)) => Awaits(w.d.chans))

\* RF is on behind a ready chain.
Lit(w, t, b) ==
    /\ w.k.st = "Running" /\ w.k.tailAt = None
    /\ b.amp => w.amp.pad /\ t - w.amp.since >= AmpLead
    /\ b.fil => w.fil.pad /\ t - w.fil.since >= Settle + (IF b.amp THEN AmpLead ELSE 0)
    /\ b.ind => w.ind.ack = w.ind.next

\* A gap is noticed; the amplifier's tail begins when RF has ended.
Trailing(w) ==
    /\ w.d.gap => w.d.stalled
    /\ w.k.tail => ~w.d.gap
    /\ w.k.tailAt # None => w.k.tail /\ ~w.d.active /\ w.d.offAt + AmpTail <= w.k.tailAt

\* A complete job is out, and everything is off.
Whole(w) == w.k.done = w.k.total /\ ~w.d.gap /\ ~w.d.active /\ ~w.amp.pad /\ ~w.fil.pad

\* What every method keeps.
Good(w, t, b) ==
    /\ Base(w, t, b)
    /\ w.d.active => Lit(w, t, b)
    /\ w.k.st = "Idle" => Resting(w)
    /\ w.k.st = "Armed" => Prepared(w, b)
    /\ w.k.st \in {"Armed", "Running"} => Streaming(w)
    /\ w.k.st = "Running" => Trailing(w)
    /\ w.k.st = "Complete" => Whole(w)

\* The inductive invariant.
Sound == Good(World, now, fit) /\ now \in Nat /\ fit \in [amp : BOOLEAN, fil : BOOLEAN, ind : BOOLEAN]


-------------------------------------------------------------------------------
(* The outputs. *)

\* The level of o has not been raised in v.
NotRaised(o, v) == v.pad => o.pad

\* Lowering the amplifier, done or failed, raises nothing.
LEMMA DeactivateDoes ==
    ASSUME NEW a \in Outs, Level(a, now), NEW f
    PROVE  /\ Deactivate(a, f) \in Outs /\ Level(Deactivate(a, f), now)
           /\ NotRaised(a, Deactivate(a, f))
           /\ Deactivate(a, f).on => a.on
           /\ Deactivate(a, f).since = a.since
BY DEF Deactivate, Outs, Level, NotRaised

\* So does releasing the relays.
LEMMA DeselectDoes ==
    ASSUME NEW c \in Outs, Level(c, now), NEW f
    PROVE  /\ DeselectFilter(c, f) \in Outs /\ Level(DeselectFilter(c, f), now)
           /\ NotRaised(c, DeselectFilter(c, f))
           /\ DeselectFilter(c, f).on => c.on
           /\ DeselectFilter(c, f).since = c.since
BY DEF DeselectFilter, Outs, Level, NotRaised

\* What is raised has been on since now, unless it may have been on before.
LEMMA RaisedDoes ==
    ASSUME NEW o \in Outs, Level(o, now), NEW ok \in BOOLEAN, now \in Nat
    PROVE  /\ Raised(o, ok) \in Outs /\ Level(Raised(o, ok), now)
           /\ Raised(o, ok).on => Raised(o, ok).pad /\ ok
           /\ Raised(o, ok).since \in {o.since, now}
<1> DEFINE x == [o EXCEPT !.on = FALSE]
           y == [o EXCEPT !.off = FALSE, !.pad = TRUE, !.on = ok,
                          !.since = IF o.pad THEN @ ELSE now]
<1>1. /\ x \in Outs /\ x.off = o.off /\ x.pad = o.pad /\ ~x.on /\ x.since = o.since
  BY DEF Outs
<1>2. /\ y \in Outs /\ ~y.off /\ y.pad /\ y.on = ok /\ y.since \in {o.since, now}
  BY DEF Outs
<1>3. o.since \in Nat /\ o.since <= now
  BY DEF Outs, Level
<1>4. Raised(o, ok) = IF ~o.off THEN x ELSE y
  BY DEF Raised
<1> HIDE DEF x, y
<1>5. CASE ~o.off
  BY <1>1, <1>3, <1>4, <1>5 DEF Level
<1>6. CASE o.off
  BY <1>2, <1>3, <1>4, <1>6 DEF Level
<1> QED
  BY <1>5, <1>6

-------------------------------------------------------------------------------
(* The worlds. *)

\* The parts of a world.
LEMMA Parts ==
    ASSUME NEW w \in Worlds
    PROVE  w.k \in Sinks /\ w.d \in Drivers /\ w.amp \in Outs /\ w.fil \in Outs /\ w.ind \in Gates
BY DEF Worlds

\* A world with another driver.
LEMMA WithDriver ==
    ASSUME NEW w \in Worlds, NEW x \in Drivers
    PROVE  LET v == [w EXCEPT !.d = x]
           IN v \in Worlds /\ v.d = x /\ v.k = w.k /\ v.amp = w.amp /\ v.fil = w.fil /\ v.ind = w.ind
BY DEF Worlds

\* A world with another sink.
LEMMA WithSink ==
    ASSUME NEW w \in Worlds, NEW x \in Sinks
    PROVE  LET v == [w EXCEPT !.k = x]
           IN v \in Worlds /\ v.k = x /\ v.d = w.d /\ v.amp = w.amp /\ v.fil = w.fil /\ v.ind = w.ind
BY DEF Worlds

\* RF is off in x, and what is in its channels is left or given up.
Quieter(d0, x) ==
    /\ x \in Drivers /\ ~x.active
    /\ x.gap = d0.gap /\ x.offAt \in {d0.offAt, now} /\ (~d0.active => x.offAt = d0.offAt)

\* force_inactive leaves the outputs and the channels alone.
LEMMA ForceDoes ==
    ASSUME NEW w \in Worlds, now \in Nat
    PROVE  LET v == ForceInactive(w)
           IN /\ v \in Worlds /\ v.k = w.k /\ v.amp = w.amp /\ v.fil = w.fil /\ v.ind = w.ind
              /\ Quieter(w.d, v.d) /\ v.d.chans = w.d.chans /\ v.d.stalled = w.d.stalled
              /\ (w.d.active => v.d.offAt = now)
<1> DEFINE at == IF w.d.active THEN now ELSE w.d.offAt
           x  == [w.d EXCEPT !.active = FALSE, !.alarm = None, !.offAt = at]
<1>1. w.d \in Drivers
  BY Parts
<1>2. /\ Quieter(w.d, x) /\ x.chans = w.d.chans /\ x.stalled = w.d.stalled
      /\ (w.d.active => x.offAt = now)
  <2>1. at \in Nat /\ None \in Int
    BY <1>1 DEF Drivers, None
  <2> HIDE DEF at
  <2>2. /\ x \in Drivers /\ x.chans = w.d.chans /\ x.stalled = w.d.stalled /\ ~x.active
        /\ x.gap = w.d.gap /\ x.offAt = at
    BY <1>1, <2>1 DEF Drivers
  <2> QED
    BY <2>2 DEF Quieter, at
<1>3. ForceInactive(w) = [w EXCEPT !.d = x]
  BY <1>1 DEF ForceInactive, Worlds, Drivers
<1> HIDE DEF x
<1>4. x \in Drivers
  BY <1>2 DEF Quieter
<1> QED
  BY <1>2, <1>3, <1>4, WithDriver

\* v is w halted, as far as that went: RF is off, nothing was raised.
Halts(w, v) ==
    /\ v.k = w.k /\ Quieter(w.d, v.d)
    /\ NotRaised(w.amp, v.amp) /\ NotRaised(w.fil, v.fil)
    /\ v.d.chans \in {w.d.chans, <<>>}

\* halt_output keeps what always holds.
LEMMA HaltDoes ==
    ASSUME NEW w, Base(w, now, fit), NEW f, now \in Nat
    PROVE  /\ Base(HaltOutput(w, f), now, fit) /\ Halts(w, HaltOutput(w, f))
           /\ f # "halt" => HaltOutput(w, f).d.chans = <<>>
<1> DEFINE u == ForceInactive(w)
           a == Deactivate(u.amp, f)
           c == DeselectFilter(u.fil, f)
           i == [u.ind EXCEPT !.req = 0]
           v == [u EXCEPT !.amp = a, !.fil = c, !.ind = i]
           x == [v.d EXCEPT !.chans = <<>>, !.stalled = FALSE]
<1>1. /\ w \in Worlds /\ Level(w.amp, now) /\ Level(w.fil, now) /\ Tickets(w.ind)
      /\ w.d.offAt <= now /\ (~fit.amp => ~w.amp.pad)
  BY DEF Base, Levels
<1>2. /\ u \in Worlds /\ u.k = w.k /\ u.amp = w.amp /\ u.fil = w.fil /\ u.ind = w.ind
      /\ Quieter(w.d, u.d) /\ u.d.chans = w.d.chans
  BY <1>1, ForceDoes
<1> HIDE DEF u
<1>3. u.amp \in Outs /\ u.fil \in Outs /\ u.ind \in Gates /\ u.d \in Drivers
  BY <1>2, Parts
<1>4. a \in Outs /\ Level(a, now) /\ NotRaised(w.amp, a)
  BY <1>1, <1>2, <1>3, DeactivateDoes
<1>5. c \in Outs /\ Level(c, now) /\ NotRaised(w.fil, c)
  BY <1>1, <1>2, <1>3, DeselectDoes
<1>6. i \in Gates /\ Tickets(i)
  BY <1>1, <1>2, <1>3 DEF Gates, Tickets
<1>7. HaltOutput(w, f) = IF f = "halt" THEN v ELSE [v EXCEPT !.d = x]
  <2> HIDE DEF a, c, i
  <2>1. v \in Worlds /\ v.d \in Drivers
    BY <1>2, <1>3, <1>4, <1>5, <1>6 DEF Worlds
  <2> USE DEF a, c, i
  <2>2. HaltOutput(w, f) = IF f = "halt" THEN v
                           ELSE [v EXCEPT !.d.chans = <<>>, !.d.stalled = FALSE]
    <3>1. [u EXCEPT !.amp = Deactivate(@, f), !.fil = DeselectFilter(@, f), !.ind.req = 0] = v
      BY <1>2 DEF Worlds
    <3> QED
      BY <3>1 DEF HaltOutput, u
  <2>3. [v EXCEPT !.d.chans = <<>>, !.d.stalled = FALSE] = [v EXCEPT !.d = x]
    BY <2>1 DEF Worlds, Drivers
  <2> QED
    BY <2>2, <2>3
<1> HIDE DEF a, c, i
<1>8. /\ v \in Worlds /\ v.k = w.k /\ v.d = u.d /\ v.amp = a /\ v.fil = c /\ v.ind = i
  BY <1>2, <1>3, <1>4, <1>5, <1>6 DEF Worlds
<1> HIDE DEF v
<1>9. Quieter(w.d, x) /\ x.chans = <<>>
  <2>1. <<>> \in Seq(Channels)
    OBVIOUS
  <2>2. /\ x \in Drivers /\ x.chans = <<>> /\ x.active = u.d.active /\ x.gap = u.d.gap
        /\ x.offAt = u.d.offAt
    BY <1>3, <1>8, <2>1 DEF Drivers
  <2> QED
    BY <1>2, <2>2 DEF Quieter
<1> HIDE DEF x
<1>10. Base(v, now, fit) /\ Halts(w, v)
  BY <1>1, <1>2, <1>4, <1>5, <1>6, <1>8 DEF Base, Levels, Halts, NotRaised, Quieter
<1>11. ASSUME f # "halt" PROVE Base([v EXCEPT !.d = x], now, fit) /\ Halts(w, [v EXCEPT !.d = x])
                                /\ [v EXCEPT !.d = x].d.chans = <<>>
  <2>1. x \in Drivers /\ x.offAt <= now
    BY <1>1, <1>9 DEF Quieter
  <2> QED
    BY <1>1, <1>2, <1>4, <1>5, <1>6, <1>8, <1>9, <2>1, WithDriver DEF Base, Levels, Halts, NotRaised
<1> QED
  BY <1>7, <1>10, <1>11

-------------------------------------------------------------------------------
(* Ends: a fault, or a start that was missed. *)

\* v is an end of w: RF is off, nothing was raised.
Ends(w, v) ==
    /\ Base(v, now, fit) /\ ~v.d.active /\ v.k.st \in {"Failed", "Missed"}
    /\ NotRaised(w.amp, v.amp) /\ NotRaised(w.fil, v.fil)

\* An end is good.
LEMMA EndsGood ==
    ASSUME NEW w, NEW v, Ends(w, v)
    PROVE  Good(v, now, fit)
BY DEF Ends, Good

\* An end of what has the same outputs is an end.
LEMMA EndsOf ==
    ASSUME NEW w, NEW u, NEW v, Ends(u, v), NotRaised(w.amp, u.amp), NotRaised(w.fil, u.fil)
    PROVE  Ends(w, v)
BY DEF Ends, NotRaised

\* What always holds does not tell states of the sink apart.
LEMMA BaseOfSink ==
    ASSUME NEW w, Base(w, now, fit), NEW x \in Sinks
    PROVE  LET v == [w EXCEPT !.k = x]
           IN /\ Base(v, now, fit)
              /\ v.k = x /\ v.d = w.d /\ v.amp = w.amp /\ v.fil = w.fil /\ v.ind = w.ind
BY WithSink DEF Base, Levels

\* A world in another state.
LEMMA InState ==
    ASSUME NEW w \in Worlds, NEW s \in {"Idle", "Armed", "Running", "Complete", "Missed", "Failed"}
    PROVE  LET x == [w.k EXCEPT !.st = s]
           IN [w EXCEPT !.k.st = s] = [w EXCEPT !.k = x] /\ x \in Sinks /\ x.st = s
BY DEF Worlds, Sinks

\* A fault, and a start that was missed, are ends.
LEMMA FaultEnds ==
    ASSUME NEW w, Base(w, now, fit), NEW f, now \in Nat
    PROVE  Ends(w, Fault(w, f)) /\ Ends(w, Missed(w, f))
<1> DEFINE u == HaltOutput(w, f)
<1>1. Base(u, now, fit) /\ Halts(w, u)
  BY HaltDoes
<1>2. Fault(w, f) = [u EXCEPT !.k.st = "Failed"]
  BY DEF Fault
<1>3. \E s \in {"Failed", "Missed"} : Missed(w, f) = [u EXCEPT !.k.st = s]
  <2>1. Missed(w, f) = [u EXCEPT !.k.st = IF Halted(u, f) THEN "Missed" ELSE "Failed"]
    BY DEF Missed
  <2> HIDE DEF u
  <2> QED
    BY <2>1
<1> HIDE DEF u
<1>4. ASSUME NEW s \in {"Failed", "Missed"} PROVE Ends(w, [u EXCEPT !.k.st = s])
  <2>1. u \in Worlds
    BY <1>1 DEF Base
  <2> DEFINE x == [u.k EXCEPT !.st = s]
  <2>2. [u EXCEPT !.k.st = s] = [u EXCEPT !.k = x] /\ x \in Sinks /\ x.st = s
    BY <2>1, InState
  <2> DEFINE v == [u EXCEPT !.k = x]
  <2> HIDE DEF x
  <2>3. Base(v, now, fit) /\ v.k = x /\ v.d = u.d /\ v.amp = u.amp /\ v.fil = u.fil
    BY <1>1, <2>2, BaseOfSink
  <2> HIDE DEF v
  <2>4. Ends(w, v)
    BY <1>1, <2>2, <2>3 DEF Ends, Halts, Quieter
  <2> QED
    BY <2>2, <2>4 DEF v
<1> QED
  BY <1>2, <1>3, <1>4

-------------------------------------------------------------------------------
(* Alarms. *)

\* The sinks x and y agree on what the invariant speaks of.
SameSink(x, y) ==
    /\ y.st = x.st /\ y.queued = x.queued /\ y.submitted = x.submitted /\ y.total = x.total
    /\ y.done = x.done /\ y.tail = x.tail /\ y.tailSubmitted = x.tailSubmitted
    /\ y.enable = x.enable /\ y.selected = x.selected /\ y.ready = x.ready /\ y.tailAt = x.tailAt

\* v differs from w by alarms and the start only.
Same(w, v) ==
    /\ v \in Worlds /\ SameSink(w.k, v.k)
    /\ v.d.active = w.d.active /\ v.d.chans = w.d.chans /\ v.d.stalled = w.d.stalled
    /\ v.d.gap = w.d.gap /\ v.d.offAt = w.d.offAt
    /\ v.amp = w.amp /\ v.fil = w.fil /\ v.ind = w.ind

\* No alarm disturbs the invariant.
LEMMA SameGood ==
    ASSUME NEW w, NEW v, Good(w, now, fit), Same(w, v)
    PROVE  Good(v, now, fit)
<1>1. Base(v, now, fit)
  BY DEF Good, Base, Levels, Same
<1>2. v.d.active => Lit(v, now, fit)
  BY DEF Good, Lit, Same, SameSink
<1>3. v.k.st = "Idle" => Resting(v)
  BY DEF Good, Resting, Same, SameSink
<1>4. v.k.st = "Armed" => Prepared(v, fit)
  BY DEF Good, Prepared, Same, SameSink
<1>5. v.k.st \in {"Armed", "Running"} => Streaming(v)
  BY DEF Good, Streaming, Chained, LastIn, Same, SameSink
<1>6. v.k.st = "Running" => Trailing(v)
  BY DEF Good, Trailing, Same, SameSink
<1>7. v.k.st = "Complete" => Whole(v)
  BY DEF Good, Whole, Same, SameSink
<1> QED
  BY <1>1, <1>2, <1>3, <1>4, <1>5, <1>6, <1>7 DEF Good

\* An alarm that is set or refused.
LEMMA AlarmDoes ==
    ASSUME NEW w \in Worlds, NEW at \in Int, NEW f
    PROVE  Same(w, Alarm(w, at, f)) /\ (w.k.refused => Alarm(w, at, f).k.refused)
<1> DEFINE x == [w.k EXCEPT !.refused = TRUE]
           y == [w.d EXCEPT !.alarm = at, !.alarmEpoch = w.k.epoch]
<1>1. w.k \in Sinks /\ w.d \in Drivers
  BY Parts
<1>2. x \in Sinks /\ SameSink(w.k, x) /\ x.refused
  BY <1>1 DEF Sinks, SameSink
<1>3. /\ y \in Drivers /\ y.active = w.d.active /\ y.chans = w.d.chans /\ y.stalled = w.d.stalled
      /\ y.gap = w.d.gap /\ y.offAt = w.d.offAt
  <2>1. w.k.epoch \in Int
    BY <1>1 DEF Sinks
  <2> QED
    BY <1>1, <2>1 DEF Drivers
<1>4. Alarm(w, at, f) = [w EXCEPT !.k = x] \/ Alarm(w, at, f) = [w EXCEPT !.d = y]
  BY <1>1 DEF Alarm, Worlds, Sinks, Drivers
<1> HIDE DEF x, y
<1>5. CASE Alarm(w, at, f) = [w EXCEPT !.k = x]
  BY <1>2, <1>5, WithSink DEF Same
<1>6. CASE Alarm(w, at, f) = [w EXCEPT !.d = y]
  BY <1>3, <1>6, WithDriver DEF Same, SameSink
<1> QED
  BY <1>4, <1>5, <1>6

\* A refused step is an end.
LEMMA OrFaultDoes ==
    ASSUME NEW w, Base(w, now, fit), NEW f, now \in Nat
    PROVE  (OrFault(w, f) = w /\ ~w.k.refused) \/ Ends(w, OrFault(w, f))
<1> DEFINE x == [w.k EXCEPT !.refused = FALSE]
           u == [w EXCEPT !.k = x]
<1>1. w \in Worlds /\ w.k \in Sinks
  BY Parts DEF Base
<1>2. x \in Sinks /\ [w EXCEPT !.k.refused = FALSE] = u
  BY <1>1 DEF Sinks, Worlds
<1>3. Base(u, now, fit) /\ u.amp = w.amp /\ u.fil = w.fil
  BY <1>2, BaseOfSink
<1>4. OrFault(w, f) = IF w.k.refused THEN Fault(u, f) ELSE w
  BY <1>2 DEF OrFault
<1> HIDE DEF u
<1>5. Ends(w, Fault(u, f))
  BY <1>3, FaultEnds, EndsOf DEF NotRaised
<1> QED
  BY <1>4, <1>5

\* w is left but for its alarm, or ended.
Rests(w, v) == Same(w, v) \/ Ends(w, v)

\* An alarm that may be refused.
LEMMA AlarmRests ==
    ASSUME NEW w, Base(w, now, fit), NEW at \in Int, NEW f, now \in Nat
    PROVE  Rests(w, OrFault(Alarm(w, at, f), f))
<1> DEFINE u == Alarm(w, at, f)
<1>1. Same(w, u)
  BY AlarmDoes DEF Base
<1> HIDE DEF u
<1>2. Base(u, now, fit)
  BY <1>1 DEF Base, Levels, Same
<1>3. OrFault(u, f) = u \/ Ends(u, OrFault(u, f))
  BY <1>2, OrFaultDoes
<1>4. Ends(u, OrFault(u, f)) => Ends(w, OrFault(u, f))
  BY <1>1, EndsOf DEF Same, NotRaised
<1> QED
  BY <1>1, <1>3, <1>4 DEF Rests, u

-------------------------------------------------------------------------------
(* The launch. *)

\* From w to v the relays do not close, and they open only without RF.
Opens(w, v) == v.fil.pad # w.fil.pad => ~v.fil.pad /\ ~v.d.active

\* v is a good end of a step from w in which the relays do not close and no job completes.
Goes(w, v) == Good(v, now, fit) /\ Opens(w, v) /\ v.k.st # "Complete"

\* The sink is armed.
Arming(w) == Good(w, now, fit) /\ w.k.st = "Armed"

\* An end is one.
LEMMA EndsGoes ==
    ASSUME NEW w, Base(w, now, fit), NEW v, Ends(w, v)
    PROVE  Goes(w, v)
<1>1. w.fil.pad \in BOOLEAN /\ v.fil.pad \in BOOLEAN
  BY DEF Base, Ends, Worlds, Outs
<1> QED
  BY <1>1, EndsGood DEF Ends, NotRaised, Goes, Opens

\* So is an alarm that is set or refused.
LEMMA RestsGoes ==
    ASSUME NEW w, Arming(w), NEW v, Rests(w, v)
    PROVE  Goes(w, v) /\ ~v.d.active
<1>1. CASE Same(w, v)
  <2>1. ~w.d.active
    BY DEF Arming, Good, Lit
  <2> QED
    BY <1>1, <2>1, SameGood DEF Same, SameSink, Arming, Goes, Opens
<1>2. CASE Ends(w, v)
  BY <1>2, EndsGoes DEF Arming, Good, Ends
<1> QED
  BY <1>1, <1>2 DEF Rests

\* A step that continues one in which the relays stay is one.
LEMMA GoesOn ==
    ASSUME NEW w, NEW u, NEW v, u.fil = w.fil, Goes(u, v)
    PROVE  Goes(w, v)
BY DEF Goes, Opens

\* The start leaves the relays their settling and the amplifier its lead.
Timed(w) ==
    /\ fit.fil => w.k.selected # None /\ w.k.start >= w.k.selected + Settle + LeadOf
    /\ fit.amp /\ AmpLead > 0 => w.k.enable # None /\ w.k.start - w.k.enable >= AmpLead

\* The sink after its launch.
LEMMA LaunchedSink ==
    ASSUME NEW x \in Sinks, NEW n \in Nat
    PROVE  LET y == [x EXCEPT !.launch = n, !.start = n, !.st = "Running"]
           IN y \in Sinks /\ y.st = "Running"
<1> DEFINE y1 == [x EXCEPT !.launch = n]
           y2 == [y1 EXCEPT !.start = n]
           y3 == [y2 EXCEPT !.st = "Running"]
<1>1. y1 \in Sinks
  BY DEF Sinks
<1>2. y2 \in Sinks
  <2> HIDE DEF y1
  <2> QED
    BY <1>1 DEF Sinks
<1>3. y3 \in Sinks /\ y3.st = "Running"
  <2> HIDE DEF y2
  <2> QED
    BY <1>2 DEF Sinks
<1>4. y3 = [x EXCEPT !.launch = n, !.start = n, !.st = "Running"]
  BY DEF Sinks
<1> QED
  BY <1>3, <1>4

\* The launch, too late, too early or done.
LEMMA LaunchGoes ==
    ASSUME NEW w, Arming(w), NEW f, now \in Nat, Timed(w),
           fit.ind /\ now >= w.k.start => w.ind.ack = w.ind.req /\ w.ind.req # 0
    PROVE  Goes(w, Launch(w, f))
<1> DEFINE enabling == fit.amp /\ w.k.enable = None
           a   == IF enabling THEN Activate(w.amp, f) ELSE w.amp
           lit == IF enabling THEN [w EXCEPT !.amp = Activate(@, f)] ELSE w
           v   == [lit EXCEPT !.d.active = TRUE, !.d.stalled = FALSE, !.d.gap = FALSE,
                              !.k.launch = now, !.k.start = now, !.k.st = "Running"]
           x   == [w.k EXCEPT !.launch = now, !.start = now, !.st = "Running"]
           y   == [w.d EXCEPT !.active = TRUE, !.stalled = FALSE, !.gap = FALSE]
           out == \/ inhibited \/ now >= w.k.deadline \/ w.d.chans = <<>> \/ f = "drive"
                  \/ ~FilterVerified(w.fil, f) \/ (w.k.enable # None /\ ~w.amp.on)
<1>1. /\ Base(w, now, fit) /\ w.k.st = "Armed" /\ Prepared(w, fit) /\ Streaming(w)
      /\ w \in Worlds /\ Levels(w, now, fit) /\ Tickets(w.ind)
  BY DEF Arming, Good, Base
<1>2. w.k \in Sinks /\ w.d \in Drivers /\ w.amp \in Outs /\ w.fil \in Outs /\ w.ind \in Gates
  BY <1>1, Parts
<1>3. w.k.start \in Int /\ w.k.enable \in Int /\ w.k.selected \in Int
  BY <1>2 DEF Sinks
<1>4. Goes(w, Missed(w, f))
  BY <1>1, FaultEnds, EndsGoes
<1>5. CASE out
  BY <1>4, <1>5 DEF Launch
<1>6. CASE ~out /\ now < w.k.start
  <2>1. Goes(w, Alarm(w, w.k.start, f))
    BY <1>1, <1>3, AlarmDoes, RestsGoes DEF Rests
  <2>2. Launch(w, f) \in {Missed(w, f), Alarm(w, w.k.start, f)}
    BY <1>6 DEF Launch
  <2> QED
    BY <1>4, <2>1, <2>2
<1>7. CASE ~out /\ ~(now < w.k.start)
  <2>1. /\ a \in Outs /\ Level(a, now) /\ (~fit.amp => ~a.pad) /\ (a.on => a.pad)
        /\ (w.k.enable # None => a = w.amp)
    BY <1>1, <1>2, RaisedDoes DEF Activate, Levels, Level
  <2>2. Launch(w, f) = IF fit.amp /\ ~lit.amp.on THEN Missed(lit, f) ELSE v
    BY <1>7 DEF Launch
  <2>3. lit = [w EXCEPT !.amp = a]
    BY <1>1 DEF Worlds
  <2> HIDE DEF a, lit
  <2>4. /\ lit \in Worlds /\ lit.amp = a /\ lit.k = w.k /\ lit.d = w.d /\ lit.fil = w.fil
        /\ lit.ind = w.ind
    BY <1>1, <2>1, <2>3 DEF Worlds
  <2>5. Base(lit, now, fit)
    BY <1>1, <2>1, <2>4 DEF Base, Levels
  <2>6. Goes(w, Missed(lit, f))
    BY <2>4, <2>5, FaultEnds, EndsGoes, GoesOn
  <2>7. ASSUME fit.amp => a.on PROVE Goes(w, v)
    <3>1. x \in Sinks /\ x.st = "Running"
      BY <1>2, LaunchedSink
    <3>2. /\ y \in Drivers /\ y.active /\ ~y.stalled /\ ~y.gap /\ y.chans = w.d.chans
          /\ y.offAt = w.d.offAt
      BY <1>2 DEF Drivers
    <3>3. v = [lit EXCEPT !.k = x, !.d = y]
      BY <1>2, <2>4 DEF Worlds, Sinks, Drivers
    <3>4. /\ x.tailAt = w.k.tailAt /\ x.total = w.k.total /\ x.submitted = w.k.submitted
          /\ x.tailSubmitted = w.k.tailSubmitted /\ x.queued = w.k.queued /\ x.tail = w.k.tail
          /\ x.done = w.k.done
      BY <1>2 DEF Sinks
    <3> HIDE DEF x, y, v
    <3>5. /\ v \in Worlds /\ v.k = x /\ v.d = y /\ v.amp = a /\ v.fil = w.fil /\ v.ind = w.ind
      BY <2>4, <3>1, <3>2, <3>3 DEF Worlds
    <3>6. Base(v, now, fit)
      BY <1>1, <2>1, <3>2, <3>5 DEF Base, Levels
    <3>7. Lit(v, now, fit)
      <4>1. ASSUME fit.amp PROVE a.pad /\ now - a.since >= AmpLead
        <5>1. a.pad /\ a.since \in Nat /\ a.since <= now
          BY <2>1, <2>7, <4>1 DEF Outs, Level
        <5>2. AmpLead \in Nat
          BY SinkAssumption
        <5>3. CASE AmpLead = 0
          BY <5>1, <5>3
        <5>4. CASE AmpLead > 0
          <6>1. w.k.enable # None /\ w.k.start - w.k.enable >= AmpLead
            BY <4>1, <5>4 DEF Timed
          <6>2. w.amp.on /\ a = w.amp
            BY <1>7, <2>1, <6>1
          <6>3. w.amp.since <= w.k.enable
            BY <1>1, <6>1, <6>2 DEF Prepared
          <6> QED
            BY <1>3, <1>7, <5>1, <5>2, <6>1, <6>2, <6>3
        <5> QED
          BY <5>2, <5>3, <5>4
      <4>2. ASSUME fit.fil
            PROVE  w.fil.pad /\ now - w.fil.since >= Settle + (IF fit.amp THEN AmpLead ELSE 0)
        <5>1. w.fil.on
          BY <1>7, <4>2 DEF FilterVerified
        <5>2. w.fil.pad /\ w.fil.since <= w.k.selected /\ w.fil.since \in Nat
          BY <1>1, <1>2, <4>2, <5>1 DEF Levels, Level, Prepared, Timed, Outs
        <5>3. w.k.start >= w.k.selected + Settle + LeadOf
          BY <4>2 DEF Timed
        <5>4. Settle \in Nat /\ LeadOf \in Nat /\ LeadOf = (IF fit.amp THEN AmpLead ELSE 0)
          BY SinkAssumption DEF LeadOf
        <5>5. now - w.fil.since >= Settle + LeadOf
          BY <1>3, <1>7, <5>2, <5>3, <5>4, SMTT(30)
        <5> QED
          BY <5>2, <5>4, <5>5
      <4>3. ASSUME fit.ind PROVE w.ind.ack = w.ind.next
        <5>1. now >= w.k.start
          BY <1>3, <1>7
        <5> QED
          BY <1>1, <4>3, <5>1 DEF Tickets
      <4> QED
        BY <1>1, <3>1, <3>4, <3>5, <4>1, <4>2, <4>3 DEF Lit, Prepared
    <3>8. Streaming(v)
      BY <1>1, <3>1, <3>2, <3>4, <3>5 DEF Streaming, Chained, LastIn
    <3>9. Trailing(v)
      BY <1>1, <3>2, <3>4, <3>5 DEF Trailing, Prepared
    <3> QED
      BY <3>1, <3>5, <3>6, <3>7, <3>8, <3>9 DEF Good, Goes, Opens
  <2> QED
    BY <2>2, <2>4, <2>6, <2>7
<1> QED
  BY <1>5, <1>6, <1>7

-------------------------------------------------------------------------------
(* The indicator, the amplifier and the relays. *)

\* A new ticket is the newest, and is not read yet.
LEMMA TicketDoes ==
    ASSUME NEW i \in Gates, Tickets(i)
    PROVE  /\ RequestLaunch(i) \in Gates /\ Tickets(RequestLaunch(i))
<1> DEFINE n == i.next + 1
           j == [i EXCEPT !.next = n, !.req = n]
<1>1. i.req \in Nat /\ i.ack \in Nat /\ i.next \in Nat /\ i.seen \in Nat /\ n \in Nat
  BY DEF Gates
<1> HIDE DEF n
<1>2. j \in Gates /\ j.next = n /\ j.req = n /\ j.ack = i.ack /\ j.seen = i.seen
  BY <1>1 DEF Gates
<1>3. RequestLaunch(i) = IF i.req = 0 THEN j ELSE i
  BY DEF RequestLaunch, n
<1> HIDE DEF j
<1>4. Tickets(j)
  BY <1>1, <1>2 DEF Tickets, n
<1> QED
  BY <1>2, <1>3, <1>4

\* The indicator is asked, waited for, or has answered.
LEMMA IndicateGoes ==
    ASSUME NEW w, Arming(w), NEW f, now \in Nat, Timed(w)
    PROVE  Goes(w, Indicate(w, f))
<1> DEFINE asked == [w EXCEPT !.ind = RequestLaunch(@)]
           wake  == IF w.k.start > now THEN w.k.start ELSE now + 1
<1>1. /\ w \in Worlds /\ Tickets(w.ind) /\ w.ind \in Gates /\ w.k.start \in Int /\ ~w.d.active
  BY Parts DEF Arming, Good, Base, Lit, Sinks
<1>2. /\ asked \in Worlds /\ asked.k = w.k /\ asked.d = w.d /\ asked.amp = w.amp
      /\ asked.fil = w.fil /\ asked.ind = RequestLaunch(w.ind) /\ Tickets(asked.ind)
  BY <1>1, TicketDoes DEF Worlds
<1> HIDE DEF asked
<1>3. Arming(asked) /\ Timed(asked)
  BY <1>1, <1>2
  DEF Arming, Good, Base, Levels, Prepared, Streaming, Timed
<1>4. wake \in Int
  BY <1>1
<1>5. ASSUME NEW u \in {w, asked}
      PROVE  Goes(w, Missed(u, f)) /\ Goes(w, Alarm(u, wake, f))
  <2>1. Arming(u) /\ u.fil = w.fil /\ Base(u, now, fit) /\ u \in Worlds
    BY <1>2, <1>3 DEF Arming, Good, Base
  <2>2. Goes(u, Missed(u, f))
    BY <2>1, FaultEnds, EndsGoes
  <2>3. Goes(u, Alarm(u, wake, f))
    BY <1>4, <2>1, AlarmDoes, RestsGoes DEF Rests
  <2> QED
    BY <2>1, <2>2, <2>3, GoesOn
<1>6. CASE ~fit.ind
  BY <1>6, LaunchGoes DEF Indicate
<1>7. CASE fit.ind /\ now >= w.k.start /\ Acknowledged(asked.ind)
  <2>1. Indicate(w, f) = Launch(asked, f)
    BY <1>7 DEF Indicate, asked
  <2>2. Goes(asked, Launch(asked, f))
    BY <1>2, <1>3, <1>7, LaunchGoes DEF Acknowledged
  <2> QED
    BY <1>2, <2>1, <2>2, GoesOn
<1>8. CASE fit.ind /\ ~(now >= w.k.start /\ Acknowledged(asked.ind))
  <2>1. \E u \in {w, asked} : Indicate(w, f) \in {Missed(u, f), Alarm(u, wake, f)}
    <3> DEFINE waits == IF now < w.k.start THEN w ELSE asked
    <3>1. Indicate(w, f) = IF wake >= w.k.deadline \/ Alarm(waits, wake, f).k.refused
                           THEN Missed(waits, f) ELSE Alarm(waits, wake, f)
      BY <1>8 DEF Indicate, asked
    <3>2. waits \in {w, asked}
      OBVIOUS
    <3> HIDE DEF waits, wake
    <3> QED
      BY <3>1, <3>2
  <2> HIDE DEF wake
  <2> QED
    BY <1>5, <2>1
<1> QED
  BY <1>6, <1>7, <1>8

\* The relays are selected, and the start leaves them their time.
Selected(w) == fit.fil => w.k.selected # None /\ w.k.start >= w.k.selected + Settle + LeadOf

\* The amplifier is enabled, waited for, or has had its lead.
LEMMA AmplifyGoes ==
    ASSUME NEW w, Arming(w), NEW f, now \in Nat, Selected(w)
    PROVE  /\ Goes(w, Amplify(w, f))
           /\ fit.amp /\ AmpLead > 0 /\ w.k.enable = None => ~Amplify(w, f).d.active
<1> DEFINE low == ForceInactive(w)
           a   == Activate(w.amp, f)
           x   == [w.k EXCEPT !.enable = now]
           lit == [low EXCEPT !.amp = Activate(@, f), !.k.enable = now]
<1>1. /\ w \in Worlds /\ Base(w, now, fit) /\ ~w.d.active /\ w.k \in Sinks /\ w.amp \in Outs
      /\ w.k.start \in Int /\ w.k.enable \in Int /\ Level(w.amp, now) /\ Prepared(w, fit)
      /\ w.k.st = "Armed"
  BY Parts DEF Arming, Good, Base, Levels, Lit, Sinks
<1>2. AmpLead \in Nat
  BY SinkAssumption
<1>3. Goes(w, Missed(w, f)) /\ ~Missed(w, f).d.active
  BY <1>1, FaultEnds, EndsGoes DEF Ends
<1>4. CASE ~fit.amp \/ AmpLead = 0
  <2>1. Timed(w)
    BY <1>4 DEF Timed, Selected
  <2> QED
    BY <1>4, <2>1, IndicateGoes DEF Amplify
<1>5. CASE fit.amp /\ AmpLead # 0 /\ w.k.enable # None
  <2>1. Amplify(w, f) = IF w.k.start - w.k.enable < AmpLead THEN Missed(w, f) ELSE Indicate(w, f)
    BY <1>5 DEF Amplify
  <2>2. CASE w.k.start - w.k.enable < AmpLead
    BY <1>3, <1>5, <2>1, <2>2
  <2>3. CASE ~(w.k.start - w.k.enable < AmpLead)
    <3>1. Timed(w)
      BY <1>1, <1>2, <1>5, <2>3 DEF Timed, Selected
    <3> QED
      BY <1>5, <2>1, <2>3, <3>1, IndicateGoes
  <2> QED
    BY <2>2, <2>3
<1>6. CASE fit.amp /\ AmpLead # 0 /\ w.k.enable = None
  <2>1. \/ Amplify(w, f) = Missed(w, f)
        \/ Amplify(w, f) = OrFault(Alarm(w, w.k.start - AmpLead - 1, f), f)
        \/ Amplify(w, f) = Fault(lit, f)
        \/ lit.amp.on /\ Amplify(w, f) = OrFault(Alarm(lit, w.k.start, f), f)
    BY <1>6 DEF Amplify
  <2>2. Rests(w, OrFault(Alarm(w, w.k.start - AmpLead - 1, f), f))
    <3>1. w.k.start - AmpLead - 1 \in Int
      BY <1>1, <1>2
    <3> QED
      BY <1>1, <3>1, AlarmRests
  <2>3. /\ low \in Worlds /\ low.k = w.k /\ low.amp = w.amp /\ low.fil = w.fil /\ low.ind = w.ind
        /\ ~low.d.active /\ low.d.offAt = w.d.offAt /\ low.d.chans = w.d.chans /\ low.d.gap = w.d.gap
    BY <1>1, ForceDoes DEF Quieter
  <2>4. a \in Outs /\ Level(a, now) /\ a.since \in Nat
    BY <1>1, RaisedDoes DEF Activate, Outs
  <2>5. /\ x \in Sinks /\ x.st = "Armed" /\ x.enable = now /\ x.enable # None
        /\ x.queued = w.k.queued /\ x.submitted = w.k.submitted /\ x.total = w.k.total
        /\ x.done = w.k.done /\ x.tail = w.k.tail /\ x.tailSubmitted = w.k.tailSubmitted
        /\ x.selected = w.k.selected /\ x.ready = w.k.ready /\ x.tailAt = w.k.tailAt
        /\ x.start = w.k.start
    BY <1>1 DEF Sinks, None
  <2> HIDE DEF low
  <2>6. lit = [low EXCEPT !.amp = a, !.k = x]
    BY <2>3 DEF Worlds
  <2> HIDE DEF a, x, lit
  <2>7. /\ lit \in Worlds /\ lit.k = x /\ lit.amp = a /\ lit.fil = w.fil /\ lit.ind = w.ind
        /\ lit.d = low.d
    BY <2>3, <2>4, <2>5, <2>6 DEF Worlds
  <2>8. Base(lit, now, fit)
    BY <1>1, <1>6, <2>3, <2>4, <2>7 DEF Base, Levels
  <2>9. Prepared(lit, fit)
    BY <1>1, <2>4, <2>5, <2>7, Selected(w) DEF Prepared, Level, Selected
  <2>10. Streaming(lit)
    BY <2>3, <2>5, <2>7 DEF Streaming, Chained, LastIn, Arming, Good
  <2>11. Arming(lit)
    BY <2>3, <2>5, <2>7, <2>8, <2>9, <2>10 DEF Arming, Good
  <2>12. Goes(w, Fault(lit, f)) /\ ~Fault(lit, f).d.active
    BY <2>7, <2>8, FaultEnds, EndsGoes, GoesOn DEF Ends
  <2>13. Rests(lit, OrFault(Alarm(lit, w.k.start, f), f))
    BY <1>1, <2>8, AlarmRests
  <2>14. Goes(w, OrFault(Alarm(lit, w.k.start, f), f)) /\ ~OrFault(Alarm(lit, w.k.start, f), f).d.active
    BY <2>7, <2>11, <2>13, RestsGoes, GoesOn
  <2> QED
    BY <1>3, <2>1, <2>2, <2>12, <2>14, RestsGoes
<1> QED
  BY <1>4, <1>5, <1>6

\* The relays settle before anything else goes on.
LEMMA SettledGoes ==
    ASSUME NEW w, Arming(w), NEW f, now \in Nat, fit.fil, w.k.selected # None
    PROVE  /\ Goes(w, Settled(w, f))
           /\ w.k.enable = None /\ ~w.k.ready => ~Settled(w, f).d.active
           /\ now < w.k.selected + Settle => NotRaised(w.amp, Settled(w, f).amp)
<1> DEFINE x == [w.k EXCEPT !.ready = TRUE]
           u == [w EXCEPT !.k.ready = TRUE]
<1>1. /\ w \in Worlds /\ Base(w, now, fit) /\ ~w.d.active /\ w.k \in Sinks /\ w.k.start \in Int
      /\ w.k.selected \in Int /\ w.k.st = "Armed" /\ Prepared(w, fit) /\ Streaming(w)
  BY Parts DEF Arming, Good, Base, Lit, Sinks
<1>2. Settle \in Nat /\ LeadOf \in Nat
  BY SinkAssumption DEF LeadOf
<1>3. /\ x \in Sinks /\ x.st = "Armed" /\ x.ready /\ x.start = w.k.start /\ x.selected = w.k.selected
      /\ x.enable = w.k.enable /\ x.queued = w.k.queued /\ x.submitted = w.k.submitted
      /\ x.total = w.k.total /\ x.done = w.k.done /\ x.tail = w.k.tail
      /\ x.tailSubmitted = w.k.tailSubmitted /\ x.tailAt = w.k.tailAt
  BY <1>1 DEF Sinks
<1>4. u = [w EXCEPT !.k = x]
  BY <1>1 DEF Worlds
<1> HIDE DEF u, x
<1>5. /\ Base(u, now, fit) /\ u.k = x /\ u.d = w.d /\ u.amp = w.amp /\ u.fil = w.fil /\ u.ind = w.ind
  BY <1>1, <1>3, <1>4, BaseOfSink
<1>6. Arming(u)
  <2>1. Prepared(u, fit)
    BY <1>1, <1>3, <1>5 DEF Prepared
  <2>2. Streaming(u)
    BY <1>1, <1>3, <1>5 DEF Streaming, Chained, LastIn
  <2> QED
    BY <1>1, <1>3, <1>5, <2>1, <2>2 DEF Arming, Good
<1>7. /\ Goes(w, Fault(w, f)) /\ ~Fault(w, f).d.active /\ NotRaised(w.amp, Fault(w, f).amp)
  BY <1>1, FaultEnds, EndsGoes DEF Ends
<1>8. Rests(w, OrFault(Alarm(w, w.k.selected + Settle, f), f))
  <2>1. w.k.selected + Settle \in Int
    BY <1>1, <1>2
  <2> QED
    BY <1>1, <2>1, AlarmRests
<1>9. Rests(u, OrFault(Alarm(u, w.k.start, f), f))
  BY <1>1, <1>5, AlarmRests
<1>10. CASE w.k.start < w.k.selected + Settle + LeadOf \/ ~FilterVerified(w.fil, f)
  BY <1>7, <1>10 DEF Settled
<1>11. CASE /\ ~(w.k.start < w.k.selected + Settle + LeadOf \/ ~FilterVerified(w.fil, f))
            /\ now < w.k.selected + Settle
  <2>1. Settled(w, f) = OrFault(Alarm(w, w.k.selected + Settle, f), f)
    BY <1>11 DEF Settled
  <2> QED
    BY <1>8, <2>1, RestsGoes DEF Rests, Same, Ends, NotRaised
<1>12. CASE /\ ~(w.k.start < w.k.selected + Settle + LeadOf \/ ~FilterVerified(w.fil, f))
            /\ ~(now < w.k.selected + Settle)
  <2>1. CASE ~w.k.ready /\ LeadOf = 0
    <3>1. Settled(w, f) = OrFault(Alarm(u, w.k.start, f), f)
      BY <1>12, <2>1 DEF Settled, u
    <3> QED
      BY <1>5, <1>6, <1>9, <1>12, <3>1, RestsGoes, GoesOn
  <2>2. CASE ~(~w.k.ready /\ LeadOf = 0)
    <3>1. Settled(w, f) = Amplify(u, f)
      BY <1>12, <2>2 DEF Settled, u
    <3>2. Selected(u)
      BY <1>1, <1>2, <1>3, <1>5, <1>12 DEF Selected
    <3>3. Goes(u, Amplify(u, f))
          /\ (fit.amp /\ AmpLead > 0 /\ u.k.enable = None => ~Amplify(u, f).d.active)
      BY <1>6, <3>2, AmplifyGoes
    <3>4. ~w.k.ready => fit.amp /\ AmpLead > 0
      BY <2>2, SinkAssumption DEF LeadOf
    <3> QED
      BY <1>3, <1>5, <1>12, <3>1, <3>3, <3>4, GoesOn
  <2> QED
    BY <2>1, <2>2
<1> QED
  BY <1>10, <1>11, <1>12

\* What ColdSwitch says of a step from w to v.
Cold(w, v) ==
    v.fil.pad # w.fil.pad =>
        ~v.d.active /\ (v.fil.pad => ~w.amp.pad /\ (v.amp.pad => Settle = 0))

\* What WarmTail says of it.
Warm(w, v) == v.k.st = "Complete" /\ w.amp.pad => now - w.d.offAt >= AmpTail

\* What every method does.
Does(w, v) == Good(v, now, fit) /\ Cold(w, v) /\ Warm(w, v)

\* Where the relays do not close and no job completes, it is done.
LEMMA GoesDoes ==
    ASSUME NEW w, NEW v, Goes(w, v)
    PROVE  Does(w, v)
BY DEF Goes, Opens, Does, Cold, Warm

\* So is an end of what has the same outputs, or has them lowered.
LEMMA EndsDoes ==
    ASSUME NEW w, Base(w, now, fit), NEW v, Ends(w, v)
    PROVE  Does(w, v)
BY EndsGoes, GoesDoes

\* Breaking lowers everything and starts the release.
LEMMA BrokenDoes ==
    ASSUME NEW w, Arming(w), NEW f, now \in Nat
    PROVE  LET v == Broken(w, f)
           IN /\ Arming(v) /\ NotRaised(w.amp, v.amp) /\ NotRaised(w.fil, v.fil)
              /\ v.k.selected = w.k.selected /\ v.k.break = now
<1> DEFINE u == ForceInactive(w)
           a == Deactivate(u.amp, f)
           c == DeselectFilter(u.fil, f)
           x == [u.k EXCEPT !.break = now]
           v == Broken(w, f)
<1>1. /\ w \in Worlds /\ Base(w, now, fit) /\ ~w.d.active /\ w.k \in Sinks /\ w.k.st = "Armed"
      /\ Prepared(w, fit) /\ Streaming(w) /\ Level(w.amp, now) /\ Level(w.fil, now)
  BY Parts DEF Arming, Good, Base, Lit, Levels
<1>2. /\ u \in Worlds /\ u.k = w.k /\ u.amp = w.amp /\ u.fil = w.fil /\ u.ind = w.ind
      /\ ~u.d.active /\ u.d.offAt = w.d.offAt /\ u.d.chans = w.d.chans
  BY <1>1, ForceDoes DEF Quieter
<1> HIDE DEF u
<1>3. /\ a \in Outs /\ Level(a, now) /\ NotRaised(w.amp, a) /\ (a.on => w.amp.on)
      /\ a.since = w.amp.since
  BY <1>1, <1>2, Parts, DeactivateDoes
<1>4. /\ c \in Outs /\ Level(c, now) /\ NotRaised(w.fil, c) /\ (c.on => w.fil.on)
      /\ c.since = w.fil.since
  BY <1>1, <1>2, Parts, DeselectDoes
<1>5. /\ x \in Sinks /\ x.st = "Armed" /\ x.break = now /\ x.selected = w.k.selected
      /\ x.enable = w.k.enable /\ x.queued = w.k.queued /\ x.submitted = w.k.submitted
      /\ x.total = w.k.total /\ x.done = w.k.done /\ x.tail = w.k.tail
      /\ x.tailSubmitted = w.k.tailSubmitted /\ x.tailAt = w.k.tailAt /\ x.ready = w.k.ready
  BY <1>1, <1>2 DEF Sinks
<1>6. v = [u EXCEPT !.amp = a, !.fil = c, !.k = x]
  BY <1>2 DEF Worlds, Broken, u
<1> HIDE DEF a, c, x, v
<1>7. /\ v \in Worlds /\ v.k = x /\ v.d = u.d /\ v.amp = a /\ v.fil = c /\ v.ind = w.ind
  BY <1>2, <1>3, <1>4, <1>5, <1>6 DEF Worlds
<1>8. Base(v, now, fit)
  BY <1>1, <1>2, <1>3, <1>4, <1>7 DEF Base, Levels, NotRaised
<1>9. Prepared(v, fit)
  BY <1>1, <1>3, <1>4, <1>5, <1>7 DEF Prepared, NotRaised
<1>10. Streaming(v)
  BY <1>1, <1>2, <1>5, <1>7 DEF Streaming, Chained, LastIn
<1>11. Arming(v)
  BY <1>2, <1>5, <1>7, <1>8, <1>9, <1>10 DEF Arming, Good
<1> QED
  BY <1>3, <1>4, <1>5, <1>7, <1>11 DEF v

\* The relays close behind an amplifier that is off, and settle.
LEMMA MakeDoes ==
    ASSUME NEW w, Arming(w), NEW f, now \in Nat, fit.fil, w.k.selected = None, w.amp.off,
           NEW made, made = [w EXCEPT !.fil = SelectFilter(@, f), !.k.selected = now]
    PROVE  /\ ~made.fil.on => Does(w, Fault(made, f))
           /\ made.fil.on => Does(w, Settled(made, f))
<1> DEFINE c == SelectFilter(w.fil, f)
           x == [w.k EXCEPT !.selected = now]
<1>1. /\ w \in Worlds /\ Base(w, now, fit) /\ ~w.d.active /\ w.k \in Sinks /\ w.k.st = "Armed"
      /\ Prepared(w, fit) /\ Streaming(w) /\ Level(w.amp, now) /\ Level(w.fil, now)
      /\ w.fil \in Outs
  BY Parts DEF Arming, Good, Base, Lit, Levels
<1>2. c \in Outs /\ Level(c, now) /\ c.since \in Nat
  BY <1>1, RaisedDoes DEF SelectFilter, Outs
<1>3. /\ x \in Sinks /\ x.st = "Armed" /\ x.selected = now /\ x.selected # None
      /\ x.enable = w.k.enable /\ x.queued = w.k.queued /\ x.submitted = w.k.submitted
      /\ x.total = w.k.total /\ x.done = w.k.done /\ x.tail = w.k.tail
      /\ x.tailSubmitted = w.k.tailSubmitted /\ x.tailAt = w.k.tailAt /\ x.ready = w.k.ready
  BY <1>1 DEF Sinks, None
<1>4. made = [w EXCEPT !.fil = c, !.k = x]
  BY <1>1 DEF Worlds
<1> HIDE DEF c, x
<1>5. /\ made \in Worlds /\ made.k = x /\ made.d = w.d /\ made.amp = w.amp /\ made.fil = c
      /\ made.ind = w.ind
  BY <1>1, <1>2, <1>3, <1>4 DEF Worlds
<1>6. Base(made, now, fit)
  BY <1>1, <1>2, <1>5 DEF Base, Levels
<1>7. w.k.enable = None /\ ~w.k.ready /\ ~w.amp.pad
  BY <1>1 DEF Prepared
<1>8. Arming(made)
  <2>1. Prepared(made, fit)
    BY <1>1, <1>2, <1>3, <1>5 DEF Prepared, Level
  <2>2. Streaming(made)
    BY <1>1, <1>3, <1>5 DEF Streaming, Chained, LastIn
  <2> QED
    BY <1>1, <1>3, <1>5, <1>6, <2>1, <2>2 DEF Arming, Good
<1>9. Does(w, Fault(made, f))
  <2>1. Ends(made, Fault(made, f))
    BY <1>6, FaultEnds
  <2> QED
    BY <1>5, <1>7, <2>1, EndsGood DEF Ends, NotRaised, Does, Cold, Warm
<1>10. Does(w, Settled(made, f))
  <2>1. /\ Goes(made, Settled(made, f)) /\ ~Settled(made, f).d.active
        /\ now < now + Settle => NotRaised(made.amp, Settled(made, f).amp)
    BY <1>3, <1>5, <1>7, <1>8, SettledGoes
  <2>2. Settle = 0 \/ now < now + Settle
    BY SinkAssumption
  <2> QED
    BY <1>5, <1>7, <2>1, <2>2 DEF Goes, Does, Cold, Warm, NotRaised
<1> QED
  BY <1>9, <1>10

\* Break before make, at whatever phase the alarm comes.
LEMMA SelectDoes ==
    ASSUME NEW w0, Arming(w0), NEW f, now \in Nat
    PROVE  Does(w0, Select(w0, f))
<1> DEFINE w       == IF w0.k.break = None THEN Broken(w0, f) ELSE w0
           release == w.k.break + Release
           made    == [w EXCEPT !.fil = SelectFilter(@, f), !.k.selected = now]
<1>1. CASE ~fit.fil
  BY <1>1, AmplifyGoes, GoesDoes DEF Select, Selected
<1>2. CASE fit.fil
  <2>1. /\ Arming(w) /\ NotRaised(w0.amp, w.amp) /\ NotRaised(w0.fil, w.fil)
        /\ w.k.selected = w0.k.selected
    BY BrokenDoes DEF NotRaised
  <2>2. \/ Select(w0, f) = Fault(w, f)
        \/ w.k.selected # None /\ Select(w0, f) = Settled(w, f)
        \/ Select(w0, f) = OrFault(Alarm(w, release, f), f)
        \/ /\ w.k.selected = None /\ w.amp.off
           /\ Select(w0, f) = IF ~made.fil.on THEN Fault(made, f) ELSE Settled(made, f)
    BY <1>2 DEF Select
  <2>3. w0 \in Worlds /\ w \in Worlds /\ release \in Int
    <3>1. w0 \in Worlds /\ w \in Worlds
      BY <2>1 DEF Arming, Good, Base
    <3>2. w.k.break \in Int
      BY <3>1, Parts DEF Sinks
    <3> QED
      BY <3>1, <3>2, SinkAssumption
  <2> HIDE DEF w, release
  <2>4. ASSUME NEW v, Goes(w, v) PROVE Does(w0, v)
    <3>1. v.d.active => v.fil.pad
      BY <1>2, <2>4 DEF Goes, Good, Lit
    <3>2. v.fil.pad \in BOOLEAN /\ w.fil.pad \in BOOLEAN /\ w0.fil.pad \in BOOLEAN
      BY <2>3, <2>4 DEF Goes, Good, Base, Worlds, Outs
    <3> QED
      BY <2>1, <2>4, <3>1, <3>2 DEF Goes, Opens, Does, Cold, Warm, NotRaised
  <2>5. Does(w0, Fault(w, f))
    BY <2>1, <2>4, FaultEnds, EndsGoes DEF Arming, Good
  <2>6. w.k.selected # None => Does(w0, Settled(w, f))
    BY <1>2, <2>1, <2>4, SettledGoes
  <2>7. Does(w0, OrFault(Alarm(w, release, f), f))
    BY <2>1, <2>3, <2>4, AlarmRests, RestsGoes DEF Arming, Good
  <2>8. ASSUME w.k.selected = None, w.amp.off
        PROVE  Does(w0, IF ~made.fil.on THEN Fault(made, f) ELSE Settled(made, f))
    <3> DEFINE v == IF ~made.fil.on THEN Fault(made, f) ELSE Settled(made, f)
    <3> HIDE DEF made
    <3>1. Does(w, v)
      BY <1>2, <2>1, <2>8, MakeDoes DEF made
    <3> HIDE DEF v
    <3>2. ~w0.amp.pad
      BY <1>2, <2>1, <2>8 DEF Arming, Good, Prepared
    <3>3. v.d.active => v.fil.pad
      BY <1>2, <3>1 DEF Does, Good, Lit
    <3>4. v.fil.pad \in BOOLEAN /\ w.fil.pad \in BOOLEAN /\ w0.fil.pad \in BOOLEAN
      BY <2>3, <3>1 DEF Does, Good, Base, Worlds, Outs
    <3>5. v.fil.pad # w.fil.pad \/ ~v.fil.pad \/ w0.fil.pad
      BY <2>1, <3>4 DEF NotRaised
    <3>6. Does(w0, v)
      BY <2>1, <3>1, <3>2, <3>3, <3>4, <3>5 DEF Does, Cold, Warm, NotRaised
    <3> QED
      BY <3>6 DEF v
  <2> QED
    BY <2>2, <2>5, <2>6, <2>7, <2>8
<1> QED
  BY <1>1, <1>2

-------------------------------------------------------------------------------
(* The end of a job. *)

\* To leave all as it is, is fine.
LEMMA StayDoes ==
    ASSUME NEW w, Good(w, now, fit)
    PROVE  Does(w, w)
BY DEF Good, Whole, Does, Cold, Warm

\* So is an alarm that is set or refused.
LEMMA RestsDoes ==
    ASSUME NEW w, Good(w, now, fit), w.k.st # "Complete", NEW v, Rests(w, v)
    PROVE  Does(w, v)
<1>1. CASE Same(w, v)
  BY <1>1, SameGood DEF Same, SameSink, Does, Cold, Warm
<1>2. CASE Ends(w, v)
  BY <1>2, EndsDoes DEF Good
<1> QED
  BY <1>1, <1>2 DEF Rests

\* A job whose blocks are all out is complete when everything is off.
LEMMA CompleteGood ==
    ASSUME NEW u, Base(u, now, fit), u.k.done = u.k.total, ~u.d.gap, NEW f, now \in Nat,
           Halted(HaltOutput(u, f), f)
    PROVE  LET v == [HaltOutput(u, f) EXCEPT !.k.st = "Complete"]
           IN Good(v, now, fit) /\ ~v.fil.pad /\ ~v.d.active
<1> DEFINE h == HaltOutput(u, f)
           x == [h.k EXCEPT !.st = "Complete"]
           v == [h EXCEPT !.k = x]
<1>1. Base(h, now, fit) /\ Halts(u, h)
  BY HaltDoes
<1>2. h.amp.off /\ h.fil.off
  BY DEF Halted
<1> HIDE DEF h
<1>3. h \in Worlds /\ ~h.amp.pad /\ ~h.fil.pad
  BY <1>1, <1>2 DEF Base, Levels, Level
<1>4. [h EXCEPT !.k.st = "Complete"] = v /\ x \in Sinks /\ x.st = "Complete"
  BY <1>3, InState
<1>5. x.done = x.total
  <2>1. h.k \in Sinks /\ h.k = u.k
    BY <1>1, <1>3, Parts DEF Halts
  <2> QED
    BY <2>1 DEF Sinks
<1> HIDE DEF x
<1>6. Base(v, now, fit) /\ v.k = x /\ v.d = h.d /\ v.amp = h.amp /\ v.fil = h.fil
  BY <1>1, <1>4, BaseOfSink
<1> HIDE DEF v
<1>7. Good(v, now, fit) /\ ~v.fil.pad /\ ~v.d.active
  BY <1>1, <1>3, <1>4, <1>5, <1>6 DEF Good, Whole, Halts, Quieter
<1> QED
  BY <1>4, <1>7 DEF h

\* The tail of the amplifier is waited for, then everything is off.
LEMMA FinishDoes ==
    ASSUME NEW w, Good(w, now, fit), NEW f, now \in Nat
    PROVE  Does(w, FinishTail(w, f))
<1> DEFINE v == [HaltOutput(w, f) EXCEPT !.k.st = "Complete"]
<1>1. w \in Worlds /\ Base(w, now, fit) /\ w.k.tailAt \in Int /\ w.d.offAt \in Nat
  BY Parts DEF Good, Base, Sinks, Drivers
<1>2. Does(w, Fault(w, f))
  BY <1>1, FaultEnds, EndsDoes
<1>3. CASE w.k.tailAt = None \/ w.k.st # "Running"
  BY <1>3, StayDoes DEF FinishTail
<1>4. CASE w.k.tailAt # None /\ w.k.st = "Running"
  <2>1. Trailing(w) /\ Streaming(w) /\ w.k.tail /\ ~w.d.active /\ w.d.offAt + AmpTail <= w.k.tailAt
    BY <1>4 DEF Good, Trailing
  <2>2. \/ FinishTail(w, f) = Fault(w, f)
        \/ FinishTail(w, f) = OrFault(Alarm(w, w.k.tailAt, f), f)
        \/ Halted(HaltOutput(w, f), f) /\ ~(now < w.k.tailAt) /\ FinishTail(w, f) = v
    BY <1>4 DEF FinishTail
  <2>3. Does(w, OrFault(Alarm(w, w.k.tailAt, f), f))
    BY <1>1, <1>4, AlarmRests, RestsDoes
  <2>4. ASSUME Halted(HaltOutput(w, f), f), ~(now < w.k.tailAt) PROVE Does(w, v)
    <3>1. Good(v, now, fit) /\ ~v.fil.pad /\ ~v.d.active
      BY <1>1, <2>1, <2>4, CompleteGood DEF Trailing, Streaming
    <3>2. now - w.d.offAt >= AmpTail
      BY <1>1, <2>1, <2>4, SinkAssumption
    <3> HIDE DEF v
    <3> QED
      BY <3>1, <3>2 DEF Does, Cold, Warm
  <2> QED
    BY <1>2, <2>2, <2>3, <2>4
<1> QED
  BY <1>3, <1>4

\* RF ends; without an amplifier to wait for, the job does too.
LEMMA CompleteDoes ==
    ASSUME NEW w, Good(w, now, fit), NEW f, now \in Nat, w.k.st = "Running", w.k.tail
    PROVE  /\ Does(w, CompleteRf(w, f))
           /\ w.k.tailAt # None => CompleteRf(w, f) = w
           /\ w.k.tailAt = None /\ CompleteRf(w, f).k.st = "Running" =>
                CompleteRf(w, f).k.tailAt > now /\ ~inhibited
<1> DEFINE u   == ForceInactive(w)
           i   == [u.ind EXCEPT !.req = 0]
           low == [u EXCEPT !.ind.req = 0]
           x   == [w.k EXCEPT !.tailAt = now + AmpTail]
           r   == [low EXCEPT !.k.tailAt = now + AmpTail]
           v   == [HaltOutput(low, f) EXCEPT !.k.st = "Complete"]
           y   == OrFault(Alarm(r, now + AmpTail, f), f)
<1>1. /\ w \in Worlds /\ Base(w, now, fit) /\ w.k \in Sinks /\ w.d \in Drivers /\ Streaming(w)
      /\ Trailing(w) /\ Tickets(w.ind) /\ w.d.offAt <= now /\ (~fit.amp => ~w.amp.pad)
  BY Parts DEF Good, Base, Levels
<1>2. AmpTail \in Nat
  BY SinkAssumption
<1>3. /\ u \in Worlds /\ u.k = w.k /\ u.amp = w.amp /\ u.fil = w.fil /\ u.ind = w.ind
      /\ ~u.d.active /\ u.d.offAt \in {w.d.offAt, now} /\ u.d.chans = w.d.chans
      /\ u.d.gap = w.d.gap /\ u.d.stalled = w.d.stalled /\ u.d \in Drivers
  BY <1>1, ForceDoes DEF Quieter
<1>4. CompleteRf(w, f) =
        IF w.k.tailAt # None THEN w
        ELSE IF f = "rf_off" \/ inhibited THEN Fault(low, f)
        ELSE IF ~fit.amp \/ AmpTail = 0
             THEN IF Halted(HaltOutput(low, f), f) THEN v ELSE Fault(low, f)
        ELSE y
  BY DEF CompleteRf
<1> HIDE DEF u
<1>5. i \in Gates /\ Tickets(i)
  <2>1. w.ind \in Gates
    BY <1>1, Parts
  <2> QED
    BY <1>1, <1>3, <2>1 DEF Gates, Tickets
<1>6. low = [u EXCEPT !.ind = i]
  BY <1>3 DEF Worlds
<1> HIDE DEF i, low
<1>7. /\ low \in Worlds /\ low.k = w.k /\ low.amp = w.amp /\ low.fil = w.fil /\ low.ind = i
      /\ low.d = u.d
  BY <1>3, <1>5, <1>6 DEF Worlds
<1>8. Base(low, now, fit)
  BY <1>1, <1>3, <1>5, <1>7 DEF Base, Levels
<1>9. Does(w, Fault(low, f)) /\ Fault(low, f).k.st # "Running"
  <2>1. Ends(low, Fault(low, f))
    BY <1>8, FaultEnds
  <2> QED
    BY <1>1, <1>7, <2>1, EndsOf, EndsDoes DEF NotRaised, Ends
<1>10. CASE w.k.tailAt # None
  BY <1>4, <1>10, StayDoes
<1>11. CASE w.k.tailAt = None /\ (f = "rf_off" \/ inhibited)
  BY <1>4, <1>9, <1>11
<1>12. CASE w.k.tailAt = None /\ ~(f = "rf_off" \/ inhibited) /\ (~fit.amp \/ AmpTail = 0)
  <2>1. ASSUME Halted(HaltOutput(low, f), f) PROVE Does(w, v) /\ v.k.st # "Running"
    <3>1. Good(v, now, fit) /\ ~v.fil.pad /\ ~v.d.active
      BY <1>1, <1>3, <1>7, <1>8, <2>1, CompleteGood DEF Trailing, Streaming
    <3>2. v.k.st = "Complete"
      <4>1. HaltOutput(low, f) \in Worlds
        BY <1>8, HaltDoes DEF Base
      <4> DEFINE h == HaltOutput(low, f)
      <4> HIDE DEF h
      <4>2. [h EXCEPT !.k.st = "Complete"].k.st = "Complete"
        BY <4>1 DEF Worlds, Sinks, h
      <4> QED
        BY <4>2 DEF h
    <3> HIDE DEF v
    <3>3. w.d.offAt \in Nat
      BY <1>1 DEF Drivers
    <3> QED
      BY <1>1, <1>2, <1>12, <3>1, <3>2, <3>3 DEF Does, Cold, Warm
  <2> QED
    BY <1>4, <1>9, <1>12, <2>1
<1>13. CASE w.k.tailAt = None /\ ~(f = "rf_off" \/ inhibited) /\ fit.amp /\ AmpTail # 0
  <2>1. now + AmpTail \in Int /\ now + AmpTail > now
    BY <1>2, <1>13
  <2>2. /\ x \in Sinks /\ x.st = "Running" /\ x.tail /\ x.tailAt = now + AmpTail
        /\ x.queued = w.k.queued /\ x.submitted = w.k.submitted /\ x.total = w.k.total
        /\ x.done = w.k.done /\ x.tailSubmitted = w.k.tailSubmitted
    BY <1>1, <2>1 DEF Sinks
  <2>3. r = [low EXCEPT !.k = x]
    BY <1>7 DEF Worlds
  <2> HIDE DEF x, r
  <2>4. /\ Base(r, now, fit) /\ r.k = x /\ r.d = u.d /\ r.amp = w.amp /\ r.fil = w.fil /\ r.ind = i
    BY <1>7, <1>8, <2>2, <2>3, BaseOfSink
  <2>5. Good(r, now, fit)
    <3>1. Streaming(r)
      BY <1>1, <1>3, <2>2, <2>4 DEF Streaming, Chained, LastIn
    <3>2. Trailing(r)
      <4>1. u.d.offAt \in Nat /\ u.d.offAt <= now /\ w.d.offAt \in Nat
        BY <1>1, <1>3 DEF Drivers
      <4> QED
        BY <1>1, <1>2, <1>3, <2>2, <2>4, <4>1 DEF Trailing
    <3> QED
      BY <1>3, <2>2, <2>4, <3>1, <3>2 DEF Good
  <2>6. Rests(r, y)
    BY <2>1, <2>4, AlarmRests
  <2> HIDE DEF y
  <2>7. Does(w, y)
    <3>1. Goes(r, y)
      <4>1. CASE Same(r, y)
        BY <2>2, <2>4, <2>5, <4>1, SameGood DEF Goes, Opens, Same, SameSink
      <4>2. CASE Ends(r, y)
        BY <2>4, <4>2, EndsGoes
      <4> QED
        BY <2>6, <4>1, <4>2 DEF Rests
    <3> QED
      BY <2>4, <3>1, GoesOn, GoesDoes
  <2>8. y.k.st = "Running" => y.k.tailAt > now
    BY <2>1, <2>2, <2>4, <2>6 DEF Rests, Same, SameSink, Ends
  <2> QED
    BY <1>4, <1>13, <2>7, <2>8
<1> QED
  BY <1>10, <1>11, <1>12, <1>13

\* poll notices a gap and the end of RF, and forgets a request that is not needed.
LEMMA PollDoes ==
    ASSUME NEW w, Good(w, now, fit), NEW f, now \in Nat
    PROVE  Does(w, PollOf(w, f))
<1> DEFINE ended == CompleteRf(w, f)
           v     == [w EXCEPT !.ind.req = 0]
           i     == [w.ind EXCEPT !.req = 0]
<1>1. w \in Worlds /\ Base(w, now, fit) /\ Tickets(w.ind) /\ w.ind \in Gates
  BY Parts DEF Good, Base
<1>2. \/ PollOf(w, f) = Fault(w, f)
      \/ /\ w.k.st = "Running" /\ w.k.tail
         /\ PollOf(w, f) = IF ended.k.tailAt # None /\ (now >= ended.k.tailAt \/ inhibited)
                           THEN FinishTail(ended, f) ELSE ended
      \/ w.k.st # "Armed" /\ ~w.d.active /\ PollOf(w, f) = v
      \/ PollOf(w, f) = w
  BY DEF PollOf
<1> HIDE DEF ended
<1>3. Does(w, Fault(w, f))
  BY <1>1, FaultEnds, EndsDoes
<1>4. ASSUME w.k.st = "Running", w.k.tail
      PROVE  Does(w, IF ended.k.tailAt # None /\ (now >= ended.k.tailAt \/ inhibited)
                     THEN FinishTail(ended, f) ELSE ended)
  <2>1. Does(w, ended)
    BY <1>4, CompleteDoes DEF ended
  <2>2. CASE w.k.tailAt # None
    <3>1. ended = w
      BY <1>4, <2>2, CompleteDoes DEF ended
    <3> QED
      BY <2>1, <3>1, FinishDoes
  <2>3. CASE w.k.tailAt = None
    <3>1. ended.k.st = "Running" => ended.k.tailAt > now /\ ~inhibited
      BY <1>4, <2>3, CompleteDoes DEF ended
    <3>2. ended.k.st # "Running" => FinishTail(ended, f) = ended
      BY DEF FinishTail
    <3>3. ended.k.tailAt \in Int
      BY <2>1, Parts DEF Does, Good, Base, Sinks
    <3> QED
      BY <2>1, <3>1, <3>2, <3>3
  <2> QED
    BY <2>2, <2>3
<1>5. ASSUME w.k.st # "Armed", ~w.d.active PROVE Does(w, v)
  <2>1. i \in Gates /\ Tickets(i)
    BY <1>1 DEF Gates, Tickets
  <2>2. v = [w EXCEPT !.ind = i]
    BY <1>1 DEF Worlds
  <2> HIDE DEF i, v
  <2>3. /\ v \in Worlds /\ v.k = w.k /\ v.d = w.d /\ v.amp = w.amp /\ v.fil = w.fil /\ v.ind = i
    BY <1>1, <2>1, <2>2 DEF Worlds
  <2>4. Good(v, now, fit)
    BY <1>5, <2>1, <2>3 DEF Good, Base, Levels, Resting, Streaming, Trailing, Whole
  <2> QED
    BY <2>3, <2>4 DEF Does, Cold, Warm, Good, Whole
<1> QED
  BY <1>2, <1>3, <1>4, <1>5, StayDoes

\* An alarm of this arming, of an earlier one, or of the tail.
LEMMA AlarmOfDoes ==
    ASSUME NEW w, Good(w, now, fit), NEW epoch, NEW target \in Int, NEW f, now \in Nat
    PROVE  Does(w, AlarmOf(w, epoch, target, f))
<1> DEFINE u == [w EXCEPT !.k.start = target]
           x == [w.k EXCEPT !.start = target]
<1>1. w \in Worlds /\ Base(w, now, fit) /\ w.k \in Sinks
  BY Parts DEF Good, Base
<1>2. \/ AlarmOf(w, epoch, target, f) \in {w, FinishTail(w, f), Missed(w, f)}
      \/ w.k.st = "Armed" /\ AlarmOf(w, epoch, target, f) = Select(u, f)
  BY DEF AlarmOf
<1>3. Does(w, Missed(w, f))
  BY <1>1, FaultEnds, EndsDoes
<1>4. ASSUME w.k.st = "Armed" PROVE Does(w, Select(u, f))
  <2>1. x \in Sinks /\ SameSink(w.k, x)
    BY <1>1 DEF Sinks, SameSink
  <2>2. u = [w EXCEPT !.k = x]
    BY <1>1 DEF Worlds
  <2> HIDE DEF x, u
  <2>3. Same(w, u)
    BY <1>1, <2>1, <2>2, WithSink DEF Same
  <2>4. Arming(u)
    BY <1>4, <2>3, SameGood DEF Arming, Same, SameSink
  <2> QED
    BY <2>3, <2>4, SelectDoes DEF Does, Cold, Warm, Same
<1> QED
  BY <1>2, <1>3, <1>4, StayDoes, FinishDoes

-------------------------------------------------------------------------------
(* The blocks. *)

\* A channel of q.
LEMMA ChannelOf ==
    ASSUME NEW q \in Seq(Channels), NEW i \in DOMAIN q
    PROVE  q[i] \in Channels /\ q[i].seq \in Nat /\ q[i].done \in BOOLEAN
<1>1. q[i] \in Channels
  OBVIOUS
<1> QED
  BY <1>1 DEF Channels

\* The channels q and one more.
LEMMA AppendDoes ==
    ASSUME NEW q \in Seq(Channels), NEW c \in Channels
    PROVE  /\ Append(q, c) \in Seq(Channels) /\ Len(Append(q, c)) = Len(q) + 1
           /\ \A i \in DOMAIN Append(q, c) :
                  (i \in DOMAIN q /\ Append(q, c)[i] = q[i]) \/ Append(q, c)[i] = c
           /\ \A i \in DOMAIN q : i \in DOMAIN Append(q, c) /\ Append(q, c)[i] = q[i]
           /\ Len(q) + 1 \in DOMAIN Append(q, c) /\ Append(q, c)[Len(q) + 1] = c
OBVIOUS

\* The channels q without the first.
LEMMA TailDoes ==
    ASSUME NEW q \in Seq(Channels), q # <<>>
    PROVE  /\ Tail(q) \in Seq(Channels) /\ Len(Tail(q)) = Len(q) - 1 /\ Head(q) = q[1]
           /\ 1 \in DOMAIN q /\ Len(q) \in Nat
           /\ \A i \in DOMAIN Tail(q) : i + 1 \in DOMAIN q /\ Tail(q)[i] = q[i + 1]
           /\ \A i \in DOMAIN q : i # 1 => i - 1 \in DOMAIN Tail(q) /\ Tail(q)[i - 1] = q[i]
OBVIOUS

\* A block or the tail that is handed to the driver, or refused.
LEMMA DmaDoes ==
    ASSUME NEW w \in Worlds, NEW seq \in Nat, NEW tail \in BOOLEAN, NEW f
    PROVE  LET v == Dma(w, seq, tail, f)
               c == [epoch |-> w.k.epoch, seq |-> seq, tail |-> tail, done |-> FALSE]
           IN /\ v \in Worlds /\ v.amp = w.amp /\ v.fil = w.fil /\ v.ind = w.ind
              /\ SameSink(w.k, v.k) /\ v.k.epoch = w.k.epoch /\ v.k.start = w.k.start
              /\ v.d.active = w.d.active /\ v.d.stalled = w.d.stalled /\ v.d.gap = w.d.gap
              /\ v.d.offAt = w.d.offAt /\ w.d.chans \in Seq(Channels) /\ c \in Channels
              /\ \/ v.k.refused /\ v.d = w.d /\ (f = "dma" \/ Len(w.d.chans) = 2)
                 \/ v.d.chans = Append(w.d.chans, c)
              /\ w.k.refused => v.k.refused
<1> DEFINE v == Dma(w, seq, tail, f)
           c == [epoch |-> w.k.epoch, seq |-> seq, tail |-> tail, done |-> FALSE]
           x == [w.k EXCEPT !.refused = TRUE]
           q == Append(w.d.chans, c)
           y == [w.d EXCEPT !.chans = q]
<1>1. w.k \in Sinks /\ w.d \in Drivers /\ w.d.chans \in Seq(Channels) /\ w.k.epoch \in Int
  BY Parts DEF Sinks, Drivers
<1>2. c \in Channels
  BY <1>1 DEF Channels
<1>3. q \in Seq(Channels)
  <2> HIDE DEF c
  <2> QED
    BY <1>1, <1>2
<1>4. \/ (f = "dma" \/ Len(w.d.chans) = 2) /\ v = [w EXCEPT !.k.refused = TRUE]
      \/ v = [w EXCEPT !.d.chans = q]
  BY DEF Dma
<1> HIDE DEF c, q, v
<1>5. [w EXCEPT !.k.refused = TRUE] = [w EXCEPT !.k = x]
  BY DEF Worlds
<1>6. [w EXCEPT !.d.chans = q] = [w EXCEPT !.d = y]
  BY DEF Worlds
<1>7. /\ x \in Sinks /\ x.refused /\ SameSink(w.k, x) /\ x.epoch = w.k.epoch
      /\ x.start = w.k.start
  BY <1>1 DEF Sinks, SameSink
<1>8. /\ y \in Drivers /\ y.chans = q /\ y.active = w.d.active /\ y.stalled = w.d.stalled
      /\ y.gap = w.d.gap /\ y.offAt = w.d.offAt
  BY <1>1, <1>3 DEF Drivers
<1> HIDE DEF x, y
<1>9. CASE (f = "dma" \/ Len(w.d.chans) = 2) /\ v = [w EXCEPT !.k = x]
  <2>1. v \in Worlds /\ v.k = x /\ v.d = w.d /\ v.amp = w.amp /\ v.fil = w.fil /\ v.ind = w.ind
    BY <1>7, <1>9, WithSink
  <2> QED
    BY <1>1, <1>2, <1>7, <1>9, <2>1 DEF v, c
<1>10. CASE v = [w EXCEPT !.d = y]
  <2>1. v \in Worlds /\ v.d = y /\ v.k = w.k /\ v.amp = w.amp /\ v.fil = w.fil /\ v.ind = w.ind
    BY <1>8, <1>10, WithDriver
  <2> QED
    BY <1>1, <1>2, <1>8, <2>1 DEF v, c, q, SameSink
<1> QED
  BY <1>4, <1>5, <1>6, <1>9, <1>10

\* An armed or running job.
Busy(w) == Good(w, now, fit) /\ w.k.st \in {"Armed", "Running"}

\* v is w with other channels, the chain is as it was.
SameChain(w, v) ==
    /\ v \in Worlds /\ v.amp = w.amp /\ v.fil = w.fil /\ v.ind = w.ind
    /\ v.d.active = w.d.active /\ v.d.stalled = w.d.stalled /\ v.d.gap = w.d.gap
    /\ v.d.offAt = w.d.offAt
    /\ v.k.st = w.k.st /\ v.k.enable = w.k.enable /\ v.k.selected = w.k.selected
    /\ v.k.ready = w.k.ready /\ v.k.tailAt = w.k.tailAt

\* Of a busy sink the blocks remain to be shown.
LEMMA StreamGood ==
    ASSUME NEW w, Busy(w), NEW v, SameChain(w, v), Streaming(v),
           v.k.st = "Running" => (v.k.tail => ~v.d.gap) /\ (w.k.tail => v.k.tail)
    PROVE  Good(v, now, fit)
<1>1. Base(v, now, fit)
  BY DEF Busy, Good, Base, Levels, SameChain
<1>2. v.d.active => Lit(v, now, fit)
  BY DEF Busy, Good, Lit, SameChain
<1>3. v.k.st = "Armed" => Prepared(v, fit)
  BY DEF Busy, Good, Prepared, SameChain
<1>4. v.k.st = "Running" => Trailing(v)
  BY DEF Busy, Good, Trailing, SameChain
<1> QED
  BY <1>1, <1>2, <1>3, <1>4 DEF Busy, Good, SameChain

\* The next block of the job is handed over, or refused.
LEMMA BlockGood ==
    ASSUME NEW w, Busy(w), NEW seq \in Nat, seq < w.k.submitted, seq # w.k.total, NEW f,
           ~w.k.tailSubmitted, Len(w.d.chans) < w.k.queued, NEW no \in BOOLEAN, ~no,
           NEW v, v = Dma(w, seq, no, f)
    PROVE  /\ Busy(v) /\ SameChain(w, v) /\ SameSink(w.k, v.k)
           /\ Len(v.d.chans) \in Nat /\ Len(v.d.chans) <= Len(w.d.chans) + 1
           /\ f = "dma" => v.d.chans = w.d.chans
<1> DEFINE c == [epoch |-> w.k.epoch, seq |-> seq, tail |-> no, done |-> FALSE]
<1>1. w \in Worlds /\ Streaming(w) /\ w.k \in Sinks
  BY Parts DEF Busy, Good, Base
<1>2. /\ v \in Worlds /\ v.amp = w.amp /\ v.fil = w.fil /\ v.ind = w.ind
      /\ SameSink(w.k, v.k)
      /\ v.d.active = w.d.active /\ v.d.stalled = w.d.stalled /\ v.d.gap = w.d.gap
      /\ v.d.offAt = w.d.offAt /\ w.d.chans \in Seq(Channels) /\ c \in Channels
      /\ \/ v.k.refused /\ v.d = w.d /\ (f = "dma" \/ Len(w.d.chans) = 2)
         \/ v.d.chans = Append(w.d.chans, c)
  BY <1>1, DmaDoes
<1>3. f = "dma" => v.d.chans = w.d.chans
  BY <1>1 DEF Dma, Worlds
<1>4. c.seq = seq /\ ~c.tail /\ ~c.done
  OBVIOUS
<1> HIDE DEF c
<1>5. SameChain(w, v)
  BY <1>2 DEF SameChain, SameSink
<1>6. w.k.queued \in Nat /\ w.k.submitted \in Nat /\ w.k.total \in Nat /\ Len(w.d.chans) \in Nat
  <2>1. w.k.queued \in Nat /\ w.k.submitted \in Nat /\ w.k.total \in Nat
    BY <1>1 DEF Sinks
  <2>2. w.d.chans \in Seq(Channels)
    BY <1>2
  <2>3. Len(w.d.chans) \in Nat
    BY <2>2
  <2> QED
    BY <2>1, <2>3
<1>7. ASSUME v.d = w.d
      PROVE  Busy(v) /\ Len(v.d.chans) \in Nat /\ Len(v.d.chans) <= Len(w.d.chans) + 1
  <2>1. Streaming(v)
    BY <1>1, <1>2, <1>7 DEF Streaming, Chained, LastIn, SameSink
  <2>2. Busy(v)
    BY <1>2, <1>5, <2>1, StreamGood DEF Busy, Good, Trailing, SameChain, SameSink
  <2> QED
    BY <1>5, <1>6, <1>7, <2>2
<1>8. ASSUME v.d.chans = Append(w.d.chans, c)
      PROVE  Busy(v) /\ Len(v.d.chans) \in Nat /\ Len(v.d.chans) <= Len(w.d.chans) + 1
  <2>1. /\ Len(v.d.chans) = Len(w.d.chans) + 1
        /\ \A i \in DOMAIN v.d.chans : (i \in DOMAIN w.d.chans /\ v.d.chans[i] = w.d.chans[i])
                                        \/ v.d.chans[i] = c
    BY <1>2, <1>8, AppendDoes
  <2>2. Chained(v.k, v.d.chans)
    BY <1>1, <1>2, <1>4, <2>1, SMTT(30) DEF Streaming, Chained, SameSink
  <2>3. ~v.k.tailSubmitted /\ ~v.k.tail
    BY <1>1, <1>2 DEF Streaming, SameSink
  <2>4. Streaming(v)
    BY <1>1, <1>2, <1>6, <2>1, <2>2, <2>3 DEF Streaming, SameSink
  <2>5. Busy(v)
    BY <1>2, <1>5, <2>4, StreamGood DEF Busy, Good, Trailing, SameChain, SameSink
  <2> QED
    BY <1>5, <1>6, <2>1, <2>5
<1>9. Busy(v) /\ Len(v.d.chans) \in Nat /\ Len(v.d.chans) <= Len(w.d.chans) + 1
  BY <1>2, <1>7, <1>8
<1> QED
  BY <1>2, <1>3, <1>5, <1>9

\* The tail follows the last block, or is refused. A refusal is good only if the
\* last block was refused too.
LEMMA QueueTailDoes ==
    ASSUME NEW w, Busy(w), NEW f
    PROVE  LET v == QueueTail(w, f)
           IN /\ SameChain(w, v) /\ (w.k.refused => v.k.refused)
              /\ \/ Busy(v)
                 \/ /\ v.k.refused /\ w.d.chans # <<>> /\ (f = "dma" \/ Len(w.d.chans) = 2)
                    /\ ~w.k.tailSubmitted /\ w.k.queued < 2
<1> DEFINE n == w.k.submitted
           u == Dma(w, n, TRUE, f)
           c == [epoch |-> w.k.epoch, seq |-> n, tail |-> TRUE, done |-> FALSE]
           x == [u.k EXCEPT !.tailSubmitted = TRUE]
           v == QueueTail(w, f)
<1>1. w \in Worlds /\ Streaming(w) /\ w.k \in Sinks
  BY Parts DEF Busy, Good, Base
<1>2. w.k.queued \in Nat /\ w.k.submitted \in Nat /\ w.k.total \in Nat /\ n \in Nat
  BY <1>1 DEF Sinks
<1>3. /\ u \in Worlds /\ u.amp = w.amp /\ u.fil = w.fil /\ u.ind = w.ind
      /\ SameSink(w.k, u.k)
      /\ u.d.active = w.d.active /\ u.d.stalled = w.d.stalled /\ u.d.gap = w.d.gap
      /\ u.d.offAt = w.d.offAt /\ w.d.chans \in Seq(Channels) /\ c \in Channels
      /\ \/ u.k.refused /\ u.d = w.d /\ (f = "dma" \/ Len(w.d.chans) = 2)
         \/ u.d.chans = Append(w.d.chans, c)
      /\ w.k.refused => u.k.refused
  <2> DEFINE b == TRUE
  <2>1. b \in BOOLEAN
    OBVIOUS
  <2>2. u = Dma(w, n, b, f) /\ c = [epoch |-> w.k.epoch, seq |-> n, tail |-> b, done |-> FALSE]
    OBVIOUS
  <2> HIDE DEF n, b, u, c
  <2> QED
    BY <1>1, <1>2, <2>1, <2>2, DmaDoes, SMTT(30)
<1>4. c.seq = w.k.submitted /\ c.tail /\ ~c.done
  OBVIOUS
<1>5. CASE ~(~w.k.tailSubmitted /\ w.k.submitted = w.k.total /\ w.k.queued < 2)
  <2>1. v = w
    BY <1>5 DEF QueueTail
  <2> QED
    BY <1>1, <2>1 DEF SameChain, v
<1>6. CASE ~w.k.tailSubmitted /\ w.k.submitted = w.k.total /\ w.k.queued < 2
  <2>1. v = [u EXCEPT !.k.tailSubmitted = TRUE]
    BY <1>6 DEF QueueTail
  <2> HIDE DEF u, c, v
  <2>2. u.k \in Sinks
    BY <1>3, Parts
  <2>3. v = [u EXCEPT !.k = x]
    BY <1>3, <2>1 DEF Worlds
  <2>4. /\ x \in Sinks /\ x.tailSubmitted /\ x.refused = u.k.refused /\ x.st = w.k.st
        /\ x.queued = w.k.queued /\ x.submitted = w.k.submitted /\ x.total = w.k.total
        /\ x.done = w.k.done /\ x.tail = w.k.tail /\ x.enable = w.k.enable
        /\ x.selected = w.k.selected /\ x.ready = w.k.ready /\ x.tailAt = w.k.tailAt
    BY <1>3, <2>2 DEF Sinks, SameSink
  <2> HIDE DEF x
  <2>5. v \in Worlds /\ v.k = x /\ v.d = u.d /\ v.amp = u.amp /\ v.fil = u.fil /\ v.ind = u.ind
    BY <1>3, <2>3, <2>4, WithSink
  <2>6. SameChain(w, v)
    BY <1>3, <2>4, <2>5 DEF SameChain
  <2>7. ~w.k.tail
    BY <1>1, <1>6 DEF Streaming
  <2>8. CASE u.d.chans = Append(w.d.chans, c)
    <3>1. /\ \A i \in DOMAIN v.d.chans : (i \in DOMAIN w.d.chans /\ v.d.chans[i] = w.d.chans[i])
                                          \/ v.d.chans[i] = c
          /\ Len(w.d.chans) + 1 \in DOMAIN v.d.chans /\ v.d.chans[Len(w.d.chans) + 1] = c
      BY <1>3, <2>5, <2>8, AppendDoes
    <3>2. Chained(v.k, v.d.chans)
      BY <1>1, <1>2, <1>4, <1>6, <2>4, <2>5, <3>1 DEF Streaming, Chained
    <3>3. Awaits(v.d.chans)
      BY <1>4, <3>1 DEF Awaits
    <3>4. Streaming(v)
      BY <1>1, <1>6, <2>4, <2>5, <2>7, <3>2, <3>3 DEF Streaming
    <3>5. Busy(v)
      BY <2>4, <2>5, <2>6, <2>7, <3>4, StreamGood DEF Busy
    <3> QED
      BY <1>3, <2>4, <2>5, <2>6, <3>5 DEF v
  <2>9. CASE u.k.refused /\ u.d = w.d /\ (f = "dma" \/ Len(w.d.chans) = 2)
    <3>1. CASE w.d.chans = <<>>
      <4>1. ~LastIn(v.k, v.d.chans) /\ Chained(v.k, v.d.chans)
        <5>1. v.d.chans = <<>> /\ DOMAIN v.d.chans = {}
          BY <2>5, <2>9, <3>1
        <5> QED
          BY <5>1 DEF LastIn, Chained
      <4>2. Streaming(v)
        BY <1>1, <1>6, <2>4, <2>5, <2>7, <4>1 DEF Streaming
      <4>3. Busy(v)
        BY <2>4, <2>5, <2>6, <2>7, <4>2, StreamGood DEF Busy
      <4> QED
        BY <1>3, <2>4, <2>5, <2>6, <4>3 DEF v
    <3>2. CASE w.d.chans # <<>>
      BY <1>3, <1>6, <2>4, <2>5, <2>6, <2>9, <3>2 DEF v
    <3> QED
      BY <3>1, <3>2
  <2> QED
    BY <1>3, <2>8, <2>9 DEF u, c
<1> QED
  BY <1>5, <1>6

\* submit takes a block for an idle sink, or for the driver.
LEMMA SubmitDoes ==
    ASSUME NEW w, Good(w, now, fit), NEW epoch \in Int, NEW f, now \in Nat,
           w.k.st \in {"Idle", "Armed", "Running"}, w.k.queued < 2,
           w.k.total > 0 => w.k.submitted < w.k.total
    PROVE  Does(w, SubmitOf(w, epoch, f))
<1> DEFINE n == w.k.queued + 1
           m == w.k.submitted + 1
           x == [w.k EXCEPT !.epoch = epoch, !.queued = n, !.submitted = m]
           queued == [w EXCEPT !.k.epoch = epoch, !.k.queued = @ + 1, !.k.submitted = @ + 1]
           s    == w.k.submitted
           no   == FALSE
           one  == Dma(queued, s, no, f)
           sent == QueueTail(one, f)
           y == [sent.k EXCEPT !.refused = FALSE]
           v == [sent EXCEPT !.k.refused = FALSE]
<1>1. w \in Worlds /\ w.k \in Sinks /\ Base(w, now, fit)
  BY Parts DEF Good, Base
<1>2. /\ w.k.queued \in Nat /\ w.k.submitted \in Nat /\ w.k.total \in Nat /\ n \in Nat /\ m \in Nat
      /\ n = w.k.queued + 1 /\ m = w.k.submitted + 1 /\ s \in Nat /\ s = w.k.submitted
  BY <1>1 DEF Sinks
<1>3. queued = [w EXCEPT !.k = x]
  BY <1>1 DEF Worlds, Sinks
<1> HIDE DEF n, m, s
<1>4. /\ x \in Sinks /\ x.st = w.k.st /\ x.queued = n /\ x.submitted = m /\ x.total = w.k.total
      /\ x.done = w.k.done /\ x.tail = w.k.tail /\ x.tailSubmitted = w.k.tailSubmitted
      /\ x.enable = w.k.enable /\ x.selected = w.k.selected /\ x.ready = w.k.ready
      /\ x.tailAt = w.k.tailAt
  BY <1>1, <1>2 DEF Sinks
<1>5. SubmitOf(w, epoch, f) = IF w.k.st = "Idle" THEN queued ELSE v
  BY DEF SubmitOf, s
<1>9. no \in BOOLEAN /\ ~no
  OBVIOUS
<1> HIDE DEF x, queued, no
<1>6. /\ queued \in Worlds /\ queued.k = x /\ queued.d = w.d /\ queued.amp = w.amp
      /\ queued.fil = w.fil /\ queued.ind = w.ind
  BY <1>1, <1>3, <1>4, WithSink
<1>7. CASE w.k.st = "Idle"
  <2>1. Good(queued, now, fit)
    BY <1>1, <1>2, <1>4, <1>6, <1>7 DEF Good, Base, Levels, Resting, Lit
  <2> QED
    BY <1>4, <1>5, <1>6, <1>7, <2>1 DEF Does, Cold, Warm
<1>8. CASE w.k.st \in {"Armed", "Running"}
  <2>1. Streaming(w) /\ s < w.k.total /\ ~w.k.tailSubmitted /\ ~w.k.tail /\ Len(w.d.chans) <= w.k.queued
    BY <1>2, <1>8 DEF Good, Streaming
  <2>2. w.d.chans \in Seq(Channels) /\ Len(w.d.chans) \in Nat
    <3>1. w.d.chans \in Seq(Channels)
      BY <1>1, Parts DEF Drivers
    <3> QED
      BY <3>1
  <2>3. Chained(queued.k, queued.d.chans)
    <3>1. \A i \in DOMAIN w.d.chans : w.d.chans[i].seq \in Nat
      BY <2>2, ChannelOf
    <3> QED
      BY <1>2, <1>4, <1>6, <2>1, <3>1, SMTT(30) DEF Streaming, Chained
  <2>4. Streaming(queued)
    <3>1. w.k.total > 0
      BY <2>1 DEF Streaming
    <3>2. queued.k.total > 0 /\ queued.k.submitted <= queued.k.total
      BY <1>2, <1>4, <1>6, <2>1, <3>1
    <3>3. Len(queued.d.chans) <= queued.k.queued
      BY <1>2, <1>4, <1>6, <2>1, <2>2
    <3>4. ~queued.k.tailSubmitted /\ ~queued.k.tail
      BY <1>4, <1>6, <2>1
    <3> QED
      BY <2>3, <3>2, <3>3, <3>4 DEF Streaming
  <2>5. SameChain(w, queued) /\ Busy(w)
    BY <1>4, <1>6, <1>8 DEF SameChain, Busy
  <2>6. Busy(queued)
    BY <1>4, <1>6, <1>8, <2>1, <2>4, <2>5, StreamGood DEF Busy
  <2> HIDE DEF one
  <2>7. /\ Busy(one) /\ SameChain(queued, one) /\ SameSink(queued.k, one.k)
        /\ Len(one.d.chans) \in Nat /\ Len(one.d.chans) <= Len(queued.d.chans) + 1
        /\ f = "dma" => one.d.chans = queued.d.chans
    <3>1. s < queued.k.submitted /\ s # queued.k.total /\ ~queued.k.tailSubmitted
          /\ Len(queued.d.chans) < queued.k.queued
      <4>1. s < m /\ s # w.k.total /\ Len(w.d.chans) < n
        BY <1>2, <2>1, <2>2, SMTT(30)
      <4> QED
        BY <1>4, <1>6, <2>1, <4>1
    <3> QED
      BY <1>2, <1>9, <2>6, <3>1, BlockGood, SMTT(30) DEF one
  <2>8. SameChain(one, sent) /\ Busy(sent)
    <3>1. /\ SameChain(one, sent)
          /\ \/ Busy(sent)
             \/ /\ one.d.chans # <<>> /\ (f = "dma" \/ Len(one.d.chans) = 2)
                /\ one.k.queued < 2
      BY <2>7, QueueTailDoes
    <3>2. ASSUME one.k.queued < 2
          PROVE  Len(w.d.chans) = 0 /\ w.d.chans = <<>>
      <4>1. n < 2
        BY <1>4, <1>6, <2>7, <3>2 DEF SameSink
      <4> QED
        BY <1>2, <2>1, <2>2, <4>1
    <3>3. ASSUME one.k.queued < 2
          PROVE  ~(one.d.chans # <<>> /\ (f = "dma" \/ Len(one.d.chans) = 2))
      <4>1. queued.d.chans = <<>>
        BY <1>6, <3>2, <3>3
      <4>2. Len(queued.d.chans) = 0
        BY <1>6, <3>2, <3>3
      <4>3. Len(one.d.chans) # 2
        <5> DEFINE z == Len(one.d.chans)
        <5>1. z \in Nat /\ z <= Len(queued.d.chans) + 1
          BY <2>7
        <5> HIDE DEF z
        <5>2. z # 2
          BY <4>2, <5>1
        <5> QED
          BY <5>2 DEF z
      <4>4. f = "dma" => one.d.chans = <<>>
        BY <2>7, <4>1
      <4> QED
        BY <4>3, <4>4
    <3> QED
      BY <3>1, <3>3
  <2> HIDE DEF sent
  <2>9. sent \in Worlds /\ sent.k \in Sinks
    BY <2>8, Parts DEF SameChain
  <2>10. y \in Sinks /\ SameSink(sent.k, y)
    BY <2>9 DEF Sinks, SameSink
  <2>11. v = [sent EXCEPT !.k = y]
    BY <2>9 DEF Worlds
  <2> HIDE DEF v, y
  <2>12. Same(sent, v)
    BY <2>9, <2>10, <2>11, WithSink DEF Same
  <2>13. Good(v, now, fit)
    BY <2>8, <2>12, SameGood DEF Busy
  <2> QED
    BY <1>5, <1>8, <2>5, <2>7, <2>8, <2>12, <2>13
    DEF Does, Cold, Warm, Same, SameSink, SameChain
<1> QED
  BY <1>7, <1>8

\* A step of the driver after which a refusal is a fault.
LEMMA RefusedDoes ==
    ASSUME NEW w, Good(w, now, fit), NEW u, Base(u, now, fit), u.fil = w.fil,
           u.k.st # "Complete", ~u.k.refused => Good(u, now, fit), NEW f, now \in Nat
    PROVE  Does(w, OrFault(u, f))
<1>1. (OrFault(u, f) = u /\ ~u.k.refused) \/ Ends(u, OrFault(u, f))
  BY OrFaultDoes
<1>2. CASE OrFault(u, f) = u /\ ~u.k.refused
  BY <1>2 DEF Does, Cold, Warm
<1>3. CASE Ends(u, OrFault(u, f))
  BY <1>3, EndsGoes, GoesOn, GoesDoes
<1> QED
  BY <1>1, <1>2, <1>3

\* arm hands over what is queued and sets the alarm of the first phase.
LEMMA ArmDoes ==
    ASSUME NEW w, Good(w, now, fit), NEW start \in Int, NEW total \in Nat, NEW f, now \in Nat,
           w.k.st = "Idle", w.k.queued > 0, w.k.submitted <= total, total > 0
    PROVE  Does(w, ArmOf(w, start, total, f))
<1> DEFINE x == [w.k EXCEPT !.st = "Armed", !.start = start, !.total = total,
                            !.deadline = start + Window]
           armed == [w EXCEPT !.k.st = "Armed", !.k.start = start, !.k.total = total,
                              !.k.deadline = start + Window]
           no    == FALSE
           one   == Dma(armed, 0, no, f)
           two   == Dma(one, 1, no, f)
           sent  == IF w.k.queued = 2 THEN two ELSE one
           wake  == IF fit.fil THEN start - Preparation - 2
                    ELSE IF fit.amp THEN start - AmpLead - 1 ELSE start
           u     == QueueTail(sent, f)
           v     == Alarm(u, wake, f)
<1>1. /\ w \in Worlds /\ w.k \in Sinks /\ Base(w, now, fit) /\ Resting(w) /\ ~w.d.active
      /\ Level(w.amp, now)
  BY Parts DEF Good, Base, Lit, Levels
<1>2. /\ w.k.queued \in 1..2 /\ w.k.submitted = w.k.queued /\ w.d.chans = <<>>
      /\ Len(w.d.chans) = 0
  <2>1. w.k.submitted = w.k.queued /\ w.k.queued <= 2 /\ w.d.chans = <<>>
    BY <1>1 DEF Resting
  <2>2. w.k.queued \in Nat
    BY <1>1 DEF Sinks
  <2>3. w.k.queued \in 1..2
    BY <2>1, <2>2
  <2> QED
    BY <2>1, <2>3
<1>3. start + Window \in Int /\ wake \in Int
  BY SinkAssumption DEF Preparation, LeadOf
<1>4. armed = [w EXCEPT !.k = x]
  BY <1>1 DEF Worlds, Sinks
<1>5. /\ x \in Sinks /\ x.st = "Armed" /\ x.total = total /\ x.queued = w.k.queued
      /\ x.submitted = w.k.submitted /\ x.done = w.k.done /\ x.tail = w.k.tail
      /\ x.tailSubmitted = w.k.tailSubmitted /\ x.enable = w.k.enable
      /\ x.selected = w.k.selected /\ x.ready = w.k.ready /\ x.tailAt = w.k.tailAt
  <2> DEFINE z == start + Window
  <2>1. z \in Int
    BY <1>3
  <2> HIDE DEF z
  <2> QED
    BY <1>1, <2>1 DEF Sinks, z
<1>6. ArmOf(w, start, total, f) = OrFault(v, f)
  BY DEF ArmOf
<1>15. no \in BOOLEAN /\ ~no
  OBVIOUS
<1> HIDE DEF x, armed, wake, no
<1>7. /\ armed \in Worlds /\ armed.k = x /\ armed.d = w.d /\ armed.amp = w.amp
      /\ armed.fil = w.fil /\ armed.ind = w.ind
  BY <1>1, <1>4, <1>5, WithSink
<1>8. Busy(armed)
  <2>1. Base(armed, now, fit)
    BY <1>1, <1>7 DEF Base, Levels
  <2>2. Prepared(armed, fit)
    BY <1>1, <1>5, <1>7 DEF Prepared, Resting, Level
  <2>3. DOMAIN armed.d.chans = {}
    BY <1>2, <1>7
  <2>4. Streaming(armed)
    BY <1>1, <1>2, <1>5, <1>7, <2>3 DEF Streaming, Resting, Chained
  <2> QED
    BY <1>1, <1>5, <1>7, <2>1, <2>2, <2>4 DEF Busy, Good
<1> HIDE DEF one
<1>9. /\ Busy(one) /\ SameChain(armed, one) /\ SameSink(armed.k, one.k)
      /\ Len(one.d.chans) \in Nat /\ Len(one.d.chans) <= 1
  <2>1. 0 < armed.k.submitted /\ 0 # armed.k.total /\ ~armed.k.tailSubmitted
        /\ Len(armed.d.chans) < armed.k.queued /\ Len(armed.d.chans) = 0
    BY <1>1, <1>2, <1>5, <1>7 DEF Resting
  <2> QED
    BY <1>8, <1>15, <2>1, BlockGood DEF one
<1>10. Busy(sent) /\ SameChain(one, sent)
  <2>1. CASE w.k.queued = 2
    <3>1. 1 < one.k.submitted /\ 1 # one.k.total /\ ~one.k.tailSubmitted
          /\ Len(one.d.chans) < one.k.queued
      BY <1>1, <1>2, <1>5, <1>7, <1>9, <2>1 DEF Resting, SameSink
    <3> QED
      BY <1>9, <1>15, <2>1, <3>1, BlockGood
  <2>2. CASE w.k.queued # 2
    BY <1>9, <2>2 DEF SameChain
  <2> QED
    BY <2>1, <2>2
<1> HIDE DEF sent
<1>11. SameChain(sent, u) /\ (Busy(u) \/ u.k.refused)
  BY <1>10, QueueTailDoes
<1> HIDE DEF u
<1>12. u \in Worlds /\ Base(u, now, fit) /\ u.k.st = "Armed" /\ u.fil = w.fil
  BY <1>5, <1>7, <1>8, <1>9, <1>10, <1>11 DEF SameChain, Busy, Good, Base, Levels
<1>13. Same(u, v) /\ (u.k.refused => v.k.refused)
  BY <1>3, <1>12, AlarmDoes
<1> HIDE DEF v
<1>14. /\ Base(v, now, fit) /\ v.fil = w.fil /\ v.k.st # "Complete"
       /\ ~v.k.refused => Good(v, now, fit)
  <2>1. Base(v, now, fit) /\ v.fil = w.fil /\ v.k.st # "Complete"
    BY <1>12, <1>13 DEF Same, SameSink, Base, Levels
  <2>2. ~v.k.refused => Good(v, now, fit)
    BY <1>11, <1>13, SameGood DEF Busy
  <2> QED
    BY <2>1, <2>2
<1> QED
  BY <1>6, <1>14, RefusedDoes

\* stop halts, and forgets the job if everything is off.
LEMMA StopDoes ==
    ASSUME NEW w, Good(w, now, fit), NEW f, now \in Nat
    PROVE  Does(w, StopOf(w, f))
<1> DEFINE low == HaltOutput(w, f)
           x   == Fresh(w.k.epoch)
           v   == [low EXCEPT !.k = x]
<1>1. w \in Worlds /\ w.k \in Sinks /\ Base(w, now, fit)
  BY Parts DEF Good, Base
<1>2. Base(low, now, fit) /\ Halts(w, low) /\ (f # "halt" => low.d.chans = <<>>)
  BY <1>1, HaltDoes
<1>3. /\ x \in Sinks /\ x.st = "Idle" /\ x.queued = 0 /\ x.submitted = 0 /\ ~x.tail
      /\ ~x.tailSubmitted /\ ~x.ready /\ x.enable = None /\ x.selected = None /\ x.tailAt = None
  <2>1. w.k.epoch \in Int
    BY <1>1 DEF Sinks
  <2> QED
    BY <2>1 DEF Fresh, Sinks, None
<1>4. \/ Halted(low, f) /\ StopOf(w, f) = v
      \/ StopOf(w, f) = Fault(w, f)
  <2>1. StopOf(w, f) = IF Halted(low, f) THEN v ELSE [low EXCEPT !.k.st = "Failed"]
    BY DEF StopOf
  <2>2. Fault(w, f) = [low EXCEPT !.k.st = "Failed"]
    BY DEF Fault
  <2> QED
    BY <2>1, <2>2
<1> HIDE DEF low, x
<1>5. ASSUME Halted(low, f) PROVE Does(w, v)
  <2>1. Base(v, now, fit) /\ v.k = x /\ v.d = low.d /\ v.amp = low.amp /\ v.fil = low.fil
    BY <1>2, <1>3, BaseOfSink
  <2>2. f # "halt" /\ low.amp.off /\ low.fil.off
    BY <1>5 DEF Halted
  <2> HIDE DEF v
  <2>3. Resting(v)
    BY <1>2, <1>3, <2>1, <2>2 DEF Resting
  <2>4. ~v.fil.pad
    BY <2>1, <2>2 DEF Base, Levels, Level
  <2> QED
    BY <1>2, <1>3, <2>1, <2>3, <2>4 DEF Does, Cold, Warm, Good, Halts, Quieter
<1>6. Does(w, Fault(w, f))
  BY <1>1, FaultEnds, EndsDoes
<1> QED
  BY <1>4, <1>5, <1>6

-------------------------------------------------------------------------------
(* The DMA interrupt. *)

\* A count that is not zero.
LEMMA Counted ==
    ASSUME NEW n \in Nat, n # 0
    PROVE  n - 1 \in Nat
OBVIOUS

\* w without its first channel.
Popped(w) == [w EXCEPT !.d.chans = Tail(@)]

\* w with one block more out.
Took(w) == [w EXCEPT !.k.done = @ + 1, !.k.queued = @ - 1]

\* A step from what has the same outputs.
LEMMA DoesFrom ==
    ASSUME NEW w, NEW u, NEW v, u.amp = w.amp, u.fil = w.fil, u.d.offAt = w.d.offAt, Does(u, v)
    PROVE  Does(w, v)
BY DEF Does, Cold, Warm

\* A finished channel is free again. After the last block the tail is still to come.
LEMMA PopGood ==
    ASSUME NEW w, Good(w, now, fit), w.d.chans # <<>>, Head(w.d.chans).done,
           NEW v, v = Popped(w)
    PROVE  /\ Good(v, now, fit) /\ v.k = w.k /\ v.amp = w.amp /\ v.fil = w.fil /\ v.ind = w.ind
           /\ v.d.offAt = w.d.offAt /\ v.k.st # "Idle"
           /\ v.k.st \in {"Armed", "Running"} =>
                /\ ~v.k.tailSubmitted => Len(v.d.chans) \in Nat /\ Len(v.d.chans) <= v.k.queued - 1
                /\ v.k.tailSubmitted /\ Head(w.d.chans).seq + 1 = v.k.total
                   /\ (v.k.st = "Armed" \/ v.d.active) => Awaits(v.d.chans)
<1> DEFINE q == w.d.chans
           p == Tail(q)
           x == [w.d EXCEPT !.chans = p]
<1>1. /\ w \in Worlds /\ w.k \in Sinks /\ w.d \in Drivers /\ Base(w, now, fit)
      /\ q \in Seq(Channels) /\ w.k.queued \in Nat /\ w.k.st # "Idle"
  BY Parts DEF Good, Base, Drivers, Sinks, Resting
<1>2. /\ p \in Seq(Channels) /\ Len(p) = Len(q) - 1 /\ Head(q) = q[1]
      /\ 1 \in DOMAIN q /\ Len(q) \in Nat
      /\ \A i \in DOMAIN p : i + 1 \in DOMAIN q /\ p[i] = q[i + 1]
      /\ \A i \in DOMAIN q : i # 1 => i - 1 \in DOMAIN p /\ p[i - 1] = q[i]
  BY <1>1, TailDoes
<1>3. Head(q).done
  OBVIOUS
<1>4. v = [w EXCEPT !.d = x]
  BY <1>1 DEF Worlds, Popped
<1> HIDE DEF p
<1>5. /\ x \in Drivers /\ x.chans = p /\ x.active = w.d.active /\ x.stalled = w.d.stalled
      /\ x.gap = w.d.gap /\ x.offAt = w.d.offAt
  BY <1>1, <1>2 DEF Drivers
<1> HIDE DEF x
<1>6. v \in Worlds /\ v.d = x /\ v.k = w.k /\ v.amp = w.amp /\ v.fil = w.fil /\ v.ind = w.ind
  BY <1>1, <1>4, <1>5, WithDriver
<1>7. CASE w.k.st \in {"Armed", "Running"}
  <2> HIDE DEF q
  <2>1. Streaming(w) /\ w.d.chans = q
    BY <1>7 DEF Good, q
  <2>2. Chained(w.k, p)
    BY <1>2, <2>1 DEF Streaming, Chained
  <2>3. LastIn(w.k, p) => LastIn(w.k, q)
    BY <1>2 DEF LastIn
  <2>4. Awaits(q) => Awaits(p)
    <3>1. ASSUME NEW i \in DOMAIN q, q[i].tail, ~q[i].done PROVE Awaits(p)
      <4>1. i # 1
        BY <1>2, <1>3, <3>1
      <4> QED
        BY <1>2, <3>1, <4>1 DEF Awaits
    <3> QED
      BY <3>1 DEF Awaits
  <2>5. ~w.k.tailSubmitted => Len(p) \in Nat /\ Len(p) <= w.k.queued - 1 /\ Len(p) <= w.k.queued
    <3>1. ~w.k.tailSubmitted => Len(q) <= w.k.queued
      BY <2>1 DEF Streaming
    <3>2. Len(p) \in Nat
      BY <1>2
    <3> QED
      BY <1>1, <1>2, <3>1, <3>2
  <2>6. Head(q).seq + 1 = w.k.total => LastIn(w.k, q)
    BY <1>2 DEF LastIn
  <2>7. Streaming(v)
    BY <1>5, <1>6, <2>1, <2>2, <2>3, <2>4, <2>5 DEF Streaming
  <2>8. SameChain(w, v)
    BY <1>5, <1>6 DEF SameChain
  <2>9. Good(v, now, fit)
    BY <1>5, <1>6, <1>7, <2>7, <2>8, StreamGood DEF Busy, Good, Trailing
  <2>10. w.k.tailSubmitted /\ Head(q).seq + 1 = w.k.total
         /\ (w.k.st = "Armed" \/ w.d.active) => Awaits(p)
    BY <2>1, <2>4, <2>6 DEF Streaming
  <2> QED
    BY <1>1, <1>5, <1>6, <2>1, <2>5, <2>9, <2>10
<1>8. CASE w.k.st \notin {"Armed", "Running"}
  <2>1. Good(v, now, fit)
    BY <1>1, <1>5, <1>6, <1>8 DEF Good, Base, Levels, Lit, Whole
  <2> QED
    BY <1>1, <1>5, <1>6, <1>8, <2>1
<1> QED
  BY <1>7, <1>8

\* A block that is out is counted; the tail is handed over in its turn.
LEMMA TookDoes ==
    ASSUME NEW w, Busy(w), ~w.k.tail, w.k.queued # 0, NEW f, now \in Nat,
           w.k.st = "Running" => ~w.d.stalled,
           ~w.k.tailSubmitted => Len(w.d.chans) \in Nat /\ Len(w.d.chans) <= w.k.queued - 1,
           w.k.tailSubmitted /\ w.k.done + 1 = w.k.total /\ (w.k.st = "Armed" \/ w.d.active) =>
                Awaits(w.d.chans),
           NEW took, took = Took(w)
    PROVE  /\ Does(w, Fault(took, f))
           /\ took.k.done # took.k.total => Does(w, OrFault(QueueTail(took, f), f))
           /\ took.k.done = took.k.total /\ took.k.tailSubmitted => Does(w, [took EXCEPT !.k.tail = TRUE])
<1> DEFINE n == w.k.done + 1
           m == w.k.queued - 1
           x == [w.k EXCEPT !.done = n, !.queued = m]
           y == [took.k EXCEPT !.tail = TRUE]
           v == [took EXCEPT !.k = y]
           u == QueueTail(took, f)
<1>1. w \in Worlds /\ w.k \in Sinks /\ Base(w, now, fit) /\ Streaming(w)
  BY Parts DEF Busy, Good, Base
<1>2. /\ w.k.queued \in Nat /\ w.k.done \in Nat /\ w.k.total \in Nat /\ n \in Nat /\ m \in Nat
      /\ n = w.k.done + 1 /\ m = w.k.queued - 1
  <2>1. w.k.queued \in Nat /\ w.k.done \in Nat /\ w.k.total \in Nat
    BY <1>1 DEF Sinks
  <2>2. n \in Nat
    BY <2>1
  <2>3. m \in Nat
    BY <2>1, Counted
  <2> QED
    BY <2>1, <2>2, <2>3
<1>3. took = [w EXCEPT !.k = x]
  BY <1>1 DEF Worlds, Sinks, Took
<1> HIDE DEF n, m
<1>4. /\ x \in Sinks /\ x.done = n /\ x.queued = m /\ x.st = w.k.st /\ x.submitted = w.k.submitted
      /\ x.total = w.k.total /\ x.tail = w.k.tail /\ x.tailSubmitted = w.k.tailSubmitted
      /\ x.enable = w.k.enable /\ x.selected = w.k.selected /\ x.ready = w.k.ready
      /\ x.tailAt = w.k.tailAt
  BY <1>1, <1>2 DEF Sinks
<1> HIDE DEF x
<1>5. /\ took \in Worlds /\ took.k = x /\ took.d = w.d /\ took.amp = w.amp /\ took.fil = w.fil
      /\ took.ind = w.ind
  BY <1>1, <1>3, <1>4, WithSink
<1>6. Base(took, now, fit) /\ SameChain(w, took)
  BY <1>1, <1>4, <1>5 DEF Base, Levels, SameChain
<1>7. Does(w, Fault(took, f))
  <2>1. Ends(took, Fault(took, f))
    BY <1>6, FaultEnds
  <2> QED
    BY <1>1, <1>5, <2>1, EndsOf, EndsDoes DEF NotRaised
<1>8. ~took.k.tailSubmitted => Len(took.d.chans) <= took.k.queued
  BY <1>2, <1>4, <1>5
<1>9. ASSUME took.k.done # took.k.total PROVE Does(w, OrFault(u, f))
  <2>1. Streaming(took)
    BY <1>1, <1>4, <1>5, <1>8 DEF Streaming, Chained, LastIn
  <2>2. Busy(took)
    BY <1>4, <1>5, <1>6, <2>1, StreamGood DEF Busy
  <2>3. SameChain(took, u) /\ (Busy(u) \/ u.k.refused)
    BY <2>2, QueueTailDoes
  <2> HIDE DEF u
  <2>4. Base(u, now, fit) /\ u.fil = w.fil /\ u.k.st # "Complete"
    BY <1>4, <1>5, <1>6, <2>3 DEF SameChain, Base, Levels, Busy
  <2>5. ~u.k.refused => Good(u, now, fit)
    BY <2>3 DEF Busy
  <2> QED
    BY <2>4, <2>5, RefusedDoes DEF Busy
<1>10. ASSUME took.k.done = took.k.total, took.k.tailSubmitted
       PROVE  Does(w, [took EXCEPT !.k.tail = TRUE])
  <2>1. /\ y \in Sinks /\ y.tail /\ y.done = n /\ y.queued = m /\ y.st = w.k.st
        /\ y.submitted = w.k.submitted /\ y.total = w.k.total
        /\ y.tailSubmitted = w.k.tailSubmitted /\ y.enable = w.k.enable
        /\ y.selected = w.k.selected /\ y.ready = w.k.ready /\ y.tailAt = w.k.tailAt
    BY <1>4, <1>5 DEF Sinks
  <2>2. [took EXCEPT !.k.tail = TRUE] = v
    BY <1>5 DEF Worlds
  <2> HIDE DEF y
  <2>3. /\ v \in Worlds /\ v.k = y /\ v.d = w.d /\ v.amp = w.amp /\ v.fil = w.fil /\ v.ind = w.ind
    BY <1>5, <2>1, WithSink
  <2> HIDE DEF v
  <2>4. n = w.k.total /\ w.k.tailSubmitted
    BY <1>4, <1>5, <1>10
  <2>5. w.k.st = "Armed" \/ w.d.active => Awaits(w.d.chans)
    BY <1>2, <2>4
  <2>6. Streaming(v)
    <3>1. Chained(v.k, v.d.chans)
      BY <1>1, <2>1, <2>3 DEF Streaming, Chained
    <3> QED
      BY <1>1, <2>1, <2>3, <2>4, <2>5, <3>1 DEF Streaming
  <2>7. SameChain(w, v)
    BY <2>1, <2>3 DEF SameChain
  <2>8. v.k.st = "Running" => ~v.d.gap
    BY <2>1, <2>3 DEF Busy, Good, Trailing
  <2>9. Good(v, now, fit)
    BY <2>6, <2>7, <2>8, StreamGood
  <2> QED
    BY <1>1, <2>1, <2>2, <2>3, <2>9 DEF Does, Cold, Warm, Busy
<1> QED
  BY <1>7, <1>9, <1>10

\* The event of a finished channel, of this arming or of an earlier one.
LEMMA DmaEventDoes ==
    ASSUME NEW w0, Good(w0, now, fit), w0.d.chans # <<>>, Head(w0.d.chans).done,
           NEW w, w = Popped(w0), NEW f, now \in Nat,
           NEW c, c = Head(w0.d.chans)
    PROVE  Does(w0, DmaEvent(w, c, f))
<1> DEFINE took == Took(w)
           v    == [took EXCEPT !.k.tail = TRUE]
           u    == OrFault(QueueTail(took, f), f)
<1>1. /\ Good(w, now, fit) /\ w.amp = w0.amp /\ w.fil = w0.fil /\ w.d.offAt = w0.d.offAt
      /\ w.k.st # "Idle"
      /\ w.k.st \in {"Armed", "Running"} =>
           /\ ~w.k.tailSubmitted => Len(w.d.chans) \in Nat /\ Len(w.d.chans) <= w.k.queued - 1
           /\ w.k.tailSubmitted /\ c.seq + 1 = w.k.total
              /\ (w.k.st = "Armed" \/ w.d.active) => Awaits(w.d.chans)
  BY PopGood
<1>2. \/ DmaEvent(w, c, f) \in {w, Fault(w, f)}
      \/ w.k.tail /\ w.k.st = "Running" /\ DmaEvent(w, c, f) = CompleteRf(w, f)
      \/ /\ w.k.st \in {"Armed", "Running"} /\ c.seq = w.k.done /\ ~w.k.tail
         /\ w.k.queued # 0 /\ (w.k.st = "Running" => ~w.d.stalled)
         /\ \/ DmaEvent(w, c, f) = Fault(took, f)
            \/ took.k.done = took.k.total /\ took.k.tailSubmitted /\ DmaEvent(w, c, f) = v
            \/ took.k.done # took.k.total /\ DmaEvent(w, c, f) = u
  BY DEF DmaEvent, Took
<1>3. Does(w, w) /\ Does(w, Fault(w, f))
  BY <1>1, StayDoes, FaultEnds, EndsDoes DEF Good
<1>4. w.k.tail /\ w.k.st = "Running" => Does(w, CompleteRf(w, f))
  BY <1>1, CompleteDoes
<1>5. ASSUME w.k.st \in {"Armed", "Running"}, c.seq = w.k.done, ~w.k.tail,
             w.k.queued # 0, w.k.st = "Running" => ~w.d.stalled
      PROVE  /\ Does(w, Fault(took, f))
             /\ took.k.done = took.k.total /\ took.k.tailSubmitted => Does(w, v)
             /\ took.k.done # took.k.total => Does(w, u)
  <2>1. Busy(w)
    BY <1>1, <1>5 DEF Busy
  <2>2. w.k.tailSubmitted /\ w.k.done + 1 = w.k.total /\ (w.k.st = "Armed" \/ w.d.active) =>
          Awaits(w.d.chans)
    BY <1>1, <1>5
  <2>3. ~w.k.tailSubmitted => Len(w.d.chans) \in Nat /\ Len(w.d.chans) <= w.k.queued - 1
    BY <1>1, <1>5
  <2> HIDE DEF took
  <2>4. took = Took(w)
    BY DEF took
  <2> QED
    BY <1>5, <2>1, <2>2, <2>3, <2>4, TookDoes DEF u, v
<1> HIDE DEF took, u, v
<1>6. Does(w, DmaEvent(w, c, f))
  BY <1>2, <1>3, <1>4, <1>5
<1> QED
  BY <1>1, <1>6, DoesFrom

-------------------------------------------------------------------------------
(* The hardware, the indicator's owner and time. *)

\* v is w but for its driver, which is x.
Driven(w, v, x) == v \in Worlds /\ v.d = x /\ v.k = w.k /\ v.amp = w.amp /\ v.fil = w.fil /\ v.ind = w.ind

\* No step of theirs moves a relay or completes a job.
LEMMA LeftDoes ==
    ASSUME NEW w, Good(w, now, fit), NEW v, Good(v, now, fit), v.k = w.k, v.fil = w.fil
    PROVE  Does(w, v)
BY DEF Does, Cold, Warm, Good, Whole

\* The driver d0 with its alarm pending.
Fired(d0) == [d0 EXCEPT !.alarm = None, !.pending = TRUE]

\* An alarm that fires changes nothing else.
LEMMA TimerIs ==
    ASSUME NEW d0 \in Drivers
    PROVE  LET x == Fired(d0)
           IN /\ x \in Drivers /\ x.active = d0.active /\ x.chans = d0.chans
              /\ x.stalled = d0.stalled /\ x.gap = d0.gap /\ x.offAt = d0.offAt
<1> DEFINE at == None
           y  == [d0 EXCEPT !.alarm = at]
           x  == [y EXCEPT !.pending = TRUE]
<1>1. at \in Int
  BY DEF None
<1> HIDE DEF at
<1>2. /\ y \in Drivers /\ y.active = d0.active /\ y.chans = d0.chans
      /\ y.stalled = d0.stalled /\ y.gap = d0.gap /\ y.offAt = d0.offAt
  BY <1>1 DEF Drivers
<1> HIDE DEF y
<1>3. /\ x \in Drivers /\ x.active = y.active /\ x.chans = y.chans
      /\ x.stalled = y.stalled /\ x.gap = y.gap /\ x.offAt = y.offAt
  BY <1>2 DEF Drivers
<1> HIDE DEF x
<1>4. x.active = d0.active /\ x.chans = d0.chans /\ x.stalled = d0.stalled /\ x.gap = d0.gap
      /\ x.offAt = d0.offAt
  BY <1>2, <1>3
<1>5. Fired(d0) = x
  BY DEF Fired, x, y, at
<1> QED
  BY <1>3, <1>4, <1>5

\* A channel that is out.
LEMMA FinishedIs ==
    ASSUME NEW d0 \in Drivers, NEW i \in DOMAIN d0.chans, now \in Nat
    PROVE  LET x == Finished(d0, i)
               q == d0.chans
           IN /\ x \in Drivers /\ x.stalled = d0.stalled /\ x.gap = d0.gap
              /\ x.active <=> d0.active /\ ~q[i].tail
              /\ x.offAt = IF q[i].tail THEN now ELSE d0.offAt
              /\ DOMAIN x.chans = DOMAIN q /\ Len(x.chans) = Len(q) /\ x.chans # <<>>
              /\ \A j \in DOMAIN q : /\ x.chans[j].tail = q[j].tail /\ x.chans[j].seq = q[j].seq
                                     /\ j # i => x.chans[j] = q[j]
<1> DEFINE q  == d0.chans
           c  == [q[i] EXCEPT !.done = TRUE]
           p  == [q EXCEPT ![i] = c]
           on == d0.active /\ ~q[i].tail
           at == IF q[i].tail THEN now ELSE d0.offAt
           x  == [d0 EXCEPT !.chans = p, !.active = on, !.offAt = at]
<1>1. q \in Seq(Channels) /\ d0.offAt \in Nat /\ d0.active \in BOOLEAN
  BY DEF Drivers
<1>2. Finished(d0, i) = x
  BY DEF Finished, Drivers
<1> HIDE DEF q
<1>3. q[i] \in Channels
  BY <1>1, ChannelOf DEF q
<1>4. c \in Channels /\ c.tail = q[i].tail /\ c.seq = q[i].seq
  BY <1>3 DEF Channels
<1>5. i \in DOMAIN q
  BY DEF q
<1> HIDE DEF c
<1>6. /\ p \in Seq(Channels) /\ DOMAIN p = DOMAIN q /\ Len(p) = Len(q) /\ p # <<>>
      /\ p[i] = c /\ \A j \in DOMAIN q : j # i => p[j] = q[j]
  BY <1>1, <1>4, <1>5
<1>7. on \in BOOLEAN /\ at \in Nat
  BY <1>1
<1> HIDE DEF p, on, at
<1>8. /\ x \in Drivers /\ x.stalled = d0.stalled /\ x.gap = d0.gap /\ x.active = on
      /\ x.offAt = at /\ x.chans = p
  BY <1>6, <1>7 DEF Drivers
<1> HIDE DEF x
<1>9. \A j \in DOMAIN q : /\ p[j].tail = q[j].tail /\ p[j].seq = q[j].seq
                          /\ j # i => p[j] = q[j]
  BY <1>4, <1>6
<1> QED
  BY <1>2, <1>6, <1>8, <1>9 DEF on, at, q

\* A block goes out, the tail last.
LEMMA BlockDoes ==
    ASSUME NEW w, Good(w, now, fit), now \in Nat, NEW i \in DOMAIN w.d.chans,
           w.d.active \/ ~w.d.chans[i].tail, NEW v, Driven(w, v, Finished(w.d, i))
    PROVE  Does(w, v)
<1> DEFINE x == Finished(w.d, i)
           q == w.d.chans
<1>1. w \in Worlds /\ w.d \in Drivers /\ w.d.offAt \in Nat /\ Base(w, now, fit)
  BY Parts DEF Good, Base, Drivers
<1>2. /\ x \in Drivers /\ x.stalled = w.d.stalled /\ x.gap = w.d.gap
      /\ x.active <=> w.d.active /\ ~q[i].tail
      /\ x.offAt = IF q[i].tail THEN now ELSE w.d.offAt
      /\ DOMAIN x.chans = DOMAIN q /\ Len(x.chans) = Len(q) /\ x.chans # <<>>
      /\ \A j \in DOMAIN q : /\ x.chans[j].tail = q[j].tail /\ x.chans[j].seq = q[j].seq
                             /\ j # i => x.chans[j] = q[j]
  BY <1>1, FinishedIs
<1>3. /\ v \in Worlds /\ v.d = x /\ v.k = w.k /\ v.amp = w.amp /\ v.fil = w.fil /\ v.ind = w.ind
  BY DEF Driven
<1>4. q # <<>> /\ i \in DOMAIN q /\ (w.d.active \/ ~q[i].tail) /\ w.d.chans = q
  OBVIOUS
<1> HIDE DEF x, q
<1>5. Base(v, now, fit)
  BY <1>1, <1>2, <1>3 DEF Base, Levels
<1>6. v.d.active => Lit(v, now, fit)
  BY <1>2, <1>3 DEF Good, Lit
<1>7. v.k.st # "Idle"
  BY <1>3, <1>4 DEF Good, Resting
<1>8. v.k.st = "Armed" => Prepared(v, fit)
  BY <1>3 DEF Good, Prepared
<1>9. ASSUME v.k.st \in {"Armed", "Running"} PROVE Streaming(v)
  <2>1. Streaming(w)
    BY <1>3, <1>9 DEF Good
  <2>2. Chained(v.k, v.d.chans)
    BY <1>2, <1>3, <1>4, <2>1 DEF Streaming, Chained
  <2>3. LastIn(v.k, v.d.chans) <=> LastIn(w.k, w.d.chans)
    BY <1>2, <1>3, <1>4 DEF LastIn
  <2>4. Awaits(q) /\ ~q[i].tail => Awaits(v.d.chans)
    BY <1>2, <1>3 DEF Awaits
  <2>5. v.k.st = "Armed" \/ v.d.active => ~q[i].tail /\ (w.k.st = "Armed" \/ w.d.active)
    BY <1>2, <1>3, <1>4 DEF Good, Lit
  <2> QED
    BY <1>2, <1>3, <1>4, <2>1, <2>2, <2>3, <2>4, <2>5 DEF Streaming
<1>10. v.k.st = "Running" => Trailing(v)
  BY <1>2, <1>3, <1>4 DEF Good, Trailing
<1>11. v.k.st = "Complete" => Whole(v)
  BY <1>2, <1>3 DEF Good, Whole
<1> QED
  BY <1>3, <1>5, <1>6, <1>7, <1>8, <1>9, <1>10, <1>11, LeftDoes DEF Good

\* The driver d0 with its FIFO dry.
Dry(d0) == [d0 EXCEPT !.stalled = TRUE, !.gap = TRUE]

\* That is noticed, and remembered.
LEMMA DryIs ==
    ASSUME NEW d0 \in Drivers
    PROVE  LET x == Dry(d0)
           IN /\ x \in Drivers /\ x.stalled /\ x.gap /\ x.active = d0.active /\ x.chans = d0.chans
              /\ x.offAt = d0.offAt
BY DEF Drivers, Dry

\* The FIFO runs dry only before the tail.
LEMMA DryDoes ==
    ASSUME NEW w, Good(w, now, fit), now \in Nat, w.d.active,
           \A i \in DOMAIN w.d.chans : w.d.chans[i].done,
           NEW x \in Drivers, x.stalled, x.gap, x.active = w.d.active, x.chans = w.d.chans,
           x.offAt = w.d.offAt, NEW v, Driven(w, v, x)
    PROVE  Does(w, v)
<1>1. w \in Worlds /\ w.d \in Drivers /\ Base(w, now, fit)
  BY Parts DEF Good, Base
<1>2. /\ x \in Drivers /\ x.stalled /\ x.gap /\ x.active = w.d.active /\ x.chans = w.d.chans
      /\ x.offAt = w.d.offAt
  OBVIOUS
<1>3. /\ v \in Worlds /\ v.d = x /\ v.k = w.k /\ v.amp = w.amp /\ v.fil = w.fil /\ v.ind = w.ind
  BY DEF Driven
<1>4. Lit(w, now, fit) /\ w.k.st = "Running" /\ w.k.tailAt = None /\ Streaming(w)
  BY DEF Good, Lit
<1>5. ~w.k.tail
  BY <1>4 DEF Streaming, Awaits
<1>6. Streaming(v) /\ Lit(v, now, fit)
  BY <1>2, <1>3, <1>4 DEF Streaming, Lit
<1>7. Trailing(v)
  BY <1>2, <1>3, <1>4, <1>5 DEF Trailing
<1>8. Good(v, now, fit)
  BY <1>1, <1>2, <1>3, <1>4, <1>6, <1>7 DEF Good, Base, Levels
<1> QED
  BY <1>3, <1>8, LeftDoes

\* The indicator's owner acknowledges only what it was asked.
LEMMA IndicatorDoes ==
    ASSUME NEW w, Good(w, now, fit), NEW i \in Gates, Tickets(i), i.next = w.ind.next,
           w.ind.ack = w.ind.next => i.ack = i.next, NEW v, v \in Worlds, v.ind = i,
           v.k = w.k, v.d = w.d, v.amp = w.amp, v.fil = w.fil
    PROVE  Does(w, v)
<1>1. Base(v, now, fit)
  BY DEF Good, Base, Levels
<1>2. v.d.active => Lit(v, now, fit)
  BY DEF Good, Lit
<1>3. Good(v, now, fit)
  BY <1>1, <1>2 DEF Good, Resting, Prepared, Streaming, Trailing, Whole
<1> QED
  BY <1>3, LeftDoes

\* What is on stays on long enough.
LEMMA TickDoes ==
    ASSUME NEW w, NEW t \in Nat, NEW b \in [amp : BOOLEAN, fil : BOOLEAN, ind : BOOLEAN],
           Good(w, t, b)
    PROVE  Good(w, t + 1, b)
<1>1. /\ w \in Worlds /\ w.d.offAt \in Nat /\ w.amp.since \in Nat /\ w.fil.since \in Nat
      /\ Base(w, t, b)
  BY Parts DEF Good, Base, Drivers, Outs
<1>2. {AmpLead, Settle} \subseteq Nat
  BY SinkAssumption
<1>3. Base(w, t + 1, b)
  BY <1>1 DEF Base, Levels, Level
<1>4. ASSUME w.d.active PROVE Lit(w, t + 1, b)
  <2>1. Lit(w, t, b)
    BY <1>4 DEF Good
  <2> DEFINE m == Settle + (IF b.amp THEN AmpLead ELSE 0)
  <2>2. m \in Nat
    BY <1>2
  <2>3. b.amp => w.amp.pad /\ t - w.amp.since >= AmpLead
    BY <2>1 DEF Lit
  <2>4. b.fil => w.fil.pad /\ t - w.fil.since >= m
    BY <2>1 DEF Lit
  <2> HIDE DEF m
  <2>5. b.amp => w.amp.pad /\ (t + 1) - w.amp.since >= AmpLead
    BY <1>1, <1>2, <2>3
  <2>6. b.fil => w.fil.pad /\ (t + 1) - w.fil.since >= m
    BY <1>1, <2>2, <2>4
  <2> QED
    BY <2>1, <2>5, <2>6 DEF Lit, m
<1> QED
  BY <1>3, <1>4 DEF Good

-------------------------------------------------------------------------------
(* The steps. *)

\* A step of the sink, its driver or the indicator's owner.
Stepped == Does(World, World') /\ UNCHANGED <<fit, now>>

\* What a method leaves is the world after it.
LEMMA BecameIs ==
    ASSUME NEW v, Does(World, v), Became({v}), UNCHANGED <<fit, now>>
    PROVE  Stepped
<1>1. v \in Worlds
  BY DEF Does, Good, Base
<1>2. v = [k |-> v.k, d |-> v.d, amp |-> v.amp, fil |-> v.fil, ind |-> v.ind]
  BY <1>1 DEF Worlds
<1>3. k' = v.k /\ d' = v.d /\ amp' = v.amp /\ fil' = v.fil /\ ind' = v.ind
  BY DEF Became
<1>4. World' = v
  BY <1>2, <1>3 DEF World
<1> QED
  BY <1>4 DEF Stepped

\* The parts of the world.
LEMMA WorldIs ==
    ASSUME Sound
    PROVE  /\ Good(World, now, fit) /\ now \in Nat /\ World \in Worlds
           /\ World.k = k /\ World.d = d /\ World.amp = amp /\ World.fil = fil /\ World.ind = ind
           /\ k \in Sinks /\ d \in Drivers /\ amp \in Outs /\ fil \in Outs /\ ind \in Gates
<1>1. Good(World, now, fit) /\ now \in Nat /\ World \in Worlds
  BY DEF Sound, Good, Base
<1>2. World.k = k /\ World.d = d /\ World.amp = amp /\ World.fil = fil /\ World.ind = ind
  BY DEF World
<1> QED
  BY <1>1, <1>2, Parts

\* The methods.
LEMMA MethodSteps ==
    ASSUME Sound, Stop \/ Submit \/ Arm \/ Poll
    PROVE  Stepped
<1>1. /\ Good(World, now, fit) /\ now \in Nat /\ World \in Worlds /\ World.k = k /\ k \in Sinks
  BY WorldIs
<1>2. CASE Stop
  <2>1. PICK f : Became({StopOf(World, f)}) /\ UNCHANGED <<fit, now>>
    BY <1>2 DEF Stop, Outside
  <2> QED
    BY <1>1, <2>1, StopDoes, BecameIs
<1>3. CASE Submit
  <2>1. PICK e \in {k.epoch, k.epoch + 1} \ {0}, f \in {"none", "dma"} :
          /\ k.st \in {"Idle", "Armed", "Running"} /\ k.queued < 2
          /\ k.total > 0 => k.submitted < k.total
          /\ Became({SubmitOf(World, e, f)}) /\ UNCHANGED <<fit, now>>
    BY <1>3 DEF Submit, Outside
  <2>2. e \in Int
    BY <1>1 DEF Sinks
  <2> QED
    BY <1>1, <2>1, <2>2, SubmitDoes, BecameIs
<1>4. CASE Arm
  <2> DEFINE start == now + Preparation + 3
  <2>1. PICK t \in Totals, f \in {"none", "dma", "alarm"} :
          /\ k.st = "Idle" /\ k.queued > 0 /\ k.submitted <= t
          /\ Became({ArmOf(World, start, t, f)}) /\ UNCHANGED <<fit, now>>
    BY <1>4 DEF Arm, Outside
  <2>2. start \in Int /\ t \in Nat /\ t > 0
    BY <1>1, SinkAssumption DEF Preparation, LeadOf
  <2> HIDE DEF start
  <2> QED
    BY <1>1, <2>1, <2>2, ArmDoes, BecameIs
<1>5. CASE Poll
  <2>1. PICK f : Became({PollOf(World, f)}) /\ UNCHANGED <<fit, now>>
    BY <1>5 DEF Poll, Outside
  <2> QED
    BY <1>1, <2>1, PollDoes, BecameIs
<1> QED
  BY <1>2, <1>3, <1>4, <1>5

\* The interrupts.
LEMMA InterruptSteps ==
    ASSUME Sound, AlarmIrq \/ DmaIrq
    PROVE  Stepped
<1>1. /\ Good(World, now, fit) /\ now \in Nat /\ World \in Worlds
      /\ World.k = k /\ World.d = d /\ k \in Sinks /\ d \in Drivers
  BY WorldIs
<1>2. CASE AlarmIrq
  <2> DEFINE u == [World EXCEPT !.d.pending = FALSE]
             x == [World.d EXCEPT !.pending = FALSE]
  <2>1. PICK f \in HwFaults \ {"dma", "stall"}, shift \in {-1, 0, 1} :
          Became({AlarmOf(u, d.alarmEpoch, k.start + shift, f)}) /\ UNCHANGED <<fit, now>>
    BY <1>2 DEF AlarmIrq, Outside
  <2>2. k.start + shift \in Int
    BY <1>1 DEF Sinks
  <2>3. u = [World EXCEPT !.d = x]
    BY <1>1 DEF Worlds
  <2>4. /\ x \in Drivers /\ x.active = d.active /\ x.chans = d.chans /\ x.stalled = d.stalled
        /\ x.gap = d.gap /\ x.offAt = d.offAt
    BY <1>1 DEF Drivers
  <2> HIDE DEF u, x
  <2>5. Same(World, u)
    BY <1>1, <2>3, <2>4, WithDriver DEF Same, SameSink
  <2>6. Does(u, AlarmOf(u, d.alarmEpoch, k.start + shift, f))
    BY <1>1, <2>2, <2>5, SameGood, AlarmOfDoes
  <2>7. Does(World, AlarmOf(u, d.alarmEpoch, k.start + shift, f))
    BY <2>5, <2>6, DoesFrom DEF Same
  <2> QED
    BY <2>1, <2>7, BecameIs
<1>3. CASE DmaIrq
  <2>1. PICK f : Became({DmaEvent(Popped(World), Head(World.d.chans), f)}) /\ UNCHANGED <<fit, now>>
    BY <1>1, <1>3 DEF DmaIrq, Outside, Popped
  <2>2. World.d.chans # <<>> /\ Head(World.d.chans).done
    BY <1>1, <1>3 DEF DmaIrq
  <2> DEFINE v == DmaEvent(Popped(World), Head(World.d.chans), f)
  <2>3. Does(World, v)
    BY <1>1, <2>2, DmaEventDoes
  <2> HIDE DEF v
  <2> QED
    BY <2>1, <2>3, BecameIs DEF v
<1> QED
  BY <1>2, <1>3

\* The world after a step of the driver alone.
LEMMA DriverSteps ==
    ASSUME Sound, NEW x \in Drivers, d' = x, Else, ind' = ind
    PROVE  Driven(World, World', x)
<1>1. World \in Worlds
  BY WorldIs
<1>2. World' = [World EXCEPT !.d = x]
  BY DEF Else, World
<1> QED
  BY <1>1, <1>2, WithDriver DEF Driven

\* An alarm fires.
LEMMA TimerSteps ==
    ASSUME Sound, TimerFires
    PROVE  Stepped
<1>1. Good(World, now, fit) /\ World.d = d /\ d \in Drivers
  BY WorldIs
<1>2. d' = Fired(d) /\ Else /\ now' = now /\ ind' = ind
  BY DEF TimerFires, Fired
<1>3. /\ Fired(d) \in Drivers /\ Fired(d).active = d.active /\ Fired(d).chans = d.chans
      /\ Fired(d).stalled = d.stalled /\ Fired(d).gap = d.gap /\ Fired(d).offAt = d.offAt
  BY <1>1, TimerIs
<1>4. Driven(World, World', Fired(d))
  BY <1>2, <1>3, DriverSteps
<1>5. Same(World, World')
  BY <1>1, <1>3, <1>4 DEF Driven, Same, SameSink
<1>6. Good(World', now, fit)
  BY <1>1, <1>5, SameGood
<1>7. Does(World, World')
  BY <1>1, <1>4, <1>6, LeftDoes DEF Driven
<1> QED
  BY <1>2, <1>7 DEF Stepped, Else

\* A block goes out.
LEMMA BlockSteps ==
    ASSUME Sound, BlockDone
    PROVE  Stepped
<1>1. Good(World, now, fit) /\ now \in Nat /\ World.d = d /\ d \in Drivers
  BY WorldIs
<1>2. PICK i \in DOMAIN d.chans :
        /\ d.active \/ ~d.chans[i].tail
        /\ d' = Finished(d, i) /\ Else /\ now' = now /\ ind' = ind
  BY DEF BlockDone
<1>3. Finished(d, i) \in Drivers
  BY <1>1, FinishedIs
<1>4. Driven(World, World', Finished(d, i))
  BY <1>2, <1>3, DriverSteps
<1>5. Does(World, World')
  BY <1>1, <1>2, <1>4, BlockDoes
<1> QED
  BY <1>2, <1>5 DEF Stepped, Else

\* The FIFO runs dry.
LEMMA DrySteps ==
    ASSUME Sound, RunsDry
    PROVE  Stepped
<1>1. Good(World, now, fit) /\ now \in Nat /\ World.d = d /\ d \in Drivers
  BY WorldIs
<1>2. d' = Dry(d) /\ Else /\ now' = now /\ ind' = ind
  BY DEF RunsDry, Dry
<1>3. d.active /\ \A i \in DOMAIN d.chans : d.chans[i].done
  BY DEF RunsDry
<1>4. /\ Dry(d) \in Drivers /\ Dry(d).stalled /\ Dry(d).gap /\ Dry(d).active = d.active
      /\ Dry(d).chans = d.chans /\ Dry(d).offAt = d.offAt
  BY <1>1, DryIs
<1>5. Driven(World, World', Dry(d))
  BY <1>2, <1>4, DriverSteps
<1>6. Does(World, World')
  BY <1>1, <1>3, <1>4, <1>5, DryDoes
<1> QED
  BY <1>2, <1>6 DEF Stepped, Else

\* The owner of the indicator reads a request, or acknowledges what it read.
Answers(i, j) ==
    \/ i.req # 0 /\ j = [i EXCEPT !.seen = i.req]
    \/ i.seen # 0 /\ j = [i EXCEPT !.ack = i.seen, !.seen = 0]

\* Tickets stay in order.
LEMMA TicketsKept ==
    ASSUME NEW i \in Gates, Tickets(i), NEW j, Answers(i, j)
    PROVE  /\ j \in Gates /\ Tickets(j) /\ j.next = i.next
           /\ i.ack = i.next => j.ack = j.next
<1>1. CASE i.req # 0 /\ j = [i EXCEPT !.seen = i.req]
  BY <1>1 DEF Gates, Tickets
<1>2. CASE i.seen # 0 /\ j = [i EXCEPT !.ack = i.seen, !.seen = 0]
  <2> DEFINE none == 0
  <2>1. none \in Nat /\ j = [i EXCEPT !.ack = i.seen, !.seen = none]
    BY <1>2
  <2> HIDE DEF none
  <2>2. /\ j \in Gates /\ j.req = i.req /\ j.ack = i.seen /\ j.next = i.next /\ j.seen = none
    BY <2>1 DEF Gates
  <2>3. i.req \in Nat /\ i.ack \in Nat /\ i.next \in Nat /\ i.seen \in Nat
    BY DEF Gates
  <2>4. j.seen = 0
    BY <2>2 DEF none
  <2> QED
    BY <1>2, <2>2, <2>3, <2>4 DEF Tickets
<1> QED
  BY <1>1, <1>2 DEF Answers

\* So RF stays acknowledged.
LEMMA IndicatorSteps ==
    ASSUME Sound, IndicatorReads \/ IndicatorWrites
    PROVE  Stepped
<1>1. /\ Good(World, now, fit) /\ World \in Worlds /\ ind \in Gates
      /\ World.k = k /\ World.d = d /\ World.amp = amp /\ World.fil = fil /\ World.ind = ind
  BY WorldIs
<1>2. Else /\ now' = now /\ d' = d
  BY DEF IndicatorReads, IndicatorWrites
<1>3. Answers(ind, ind')
  BY DEF IndicatorReads, IndicatorWrites, Answers
<1>4. Tickets(ind)
  BY <1>1 DEF Good, Base
<1> DEFINE j == ind'
<1>5. /\ j \in Gates /\ Tickets(j) /\ j.next = ind.next
      /\ ind.ack = ind.next => j.ack = j.next
  BY <1>1, <1>3, <1>4, TicketsKept
<1>6. World' = [World EXCEPT !.ind = j]
  BY <1>2 DEF Else, World
<1> HIDE DEF j
<1>7. /\ World' \in Worlds /\ World'.ind = j /\ World'.k = World.k /\ World'.d = World.d
      /\ World'.amp = World.amp /\ World'.fil = World.fil
  BY <1>1, <1>5, <1>6 DEF Worlds
<1>8. Does(World, World')
  BY <1>1, <1>5, <1>7, IndicatorDoes
<1> QED
  BY <1>2, <1>8 DEF Stepped, Else

\* Core 0 latches the inhibit.
LEMMA LatchSteps ==
    ASSUME Sound, Latch
    PROVE  Stepped
<1>1. Good(World, now, fit)
  BY WorldIs
<1>2. World' = World /\ UNCHANGED <<fit, now>>
  BY DEF Latch, Else, World
<1> QED
  BY <1>1, <1>2, StayDoes DEF Stepped

\* Every step keeps the invariant and switches the chain in its order.
LEMMA StepKeeps ==
    ASSUME Sound, [Next]_vars
    PROVE  Sound' /\ (Next => ColdSwitch /\ WarmTail)
<1>1. /\ Good(World, now, fit) /\ now \in Nat
      /\ fit \in [amp : BOOLEAN, fil : BOOLEAN, ind : BOOLEAN]
  BY DEF Sound
<1>2. ASSUME Stepped PROVE Sound' /\ ColdSwitch /\ WarmTail
  <2>1. Does(World, World') /\ UNCHANGED <<fit, now>>
    BY <1>2 DEF Stepped
  <2>2. Sound'
    BY <1>1, <2>1 DEF Does, Sound
  <2>3. ColdSwitch /\ WarmTail
    BY <2>1 DEF Does, Cold, Warm, ColdSwitch, WarmTail, World
  <2> QED
    BY <2>2, <2>3
<1>3. CASE Stop \/ Submit \/ Arm \/ Poll
  BY <1>2, <1>3, MethodSteps
<1>4. CASE AlarmIrq \/ DmaIrq
  BY <1>2, <1>4, InterruptSteps
<1>5. CASE TimerFires \/ BlockDone \/ RunsDry \/ Latch \/ IndicatorReads \/ IndicatorWrites
  BY <1>2, <1>5, TimerSteps, BlockSteps, DrySteps, LatchSteps, IndicatorSteps
<1>6. CASE Tick
  <2>1. now' = now + 1 /\ World' = World /\ fit' = fit /\ k' = k /\ fil' = fil
    BY <1>6 DEF Tick, Else, World
  <2>2. Good(World, now + 1, fit)
    BY <1>1, TickDoes
  <2>3. Sound'
    BY <1>1, <2>1, <2>2 DEF Sound
  <2>4. ~(k.st = "Complete" /\ amp.pad)
    BY <1>1 DEF Good, Whole, World
  <2> QED
    BY <2>1, <2>3, <2>4 DEF ColdSwitch, WarmTail
<1>7. CASE UNCHANGED vars
  <2>1. World' = World /\ now' = now /\ fit' = fit /\ k' = k /\ amp' = amp /\ fil' = fil
    BY <1>7 DEF vars, World
  <2>2. Sound'
    BY <1>1, <2>1 DEF Sound
  <2>3. ~(k.st = "Complete" /\ amp.pad)
    BY <1>1 DEF Good, Whole, World
  <2> QED
    BY <2>1, <2>2, <2>3 DEF ColdSwitch, WarmTail
<1> QED
  BY <1>3, <1>4, <1>5, <1>6, <1>7 DEF Next

\* At power on everything is off.
LEMMA InitSound ==
    ASSUME Init
    PROVE  Sound
<1>1. fit \in [amp : BOOLEAN, fil : BOOLEAN, ind : BOOLEAN] /\ now = 0 /\ now \in Nat
  BY SinkAssumption DEF Init
<1>2. k = Fresh(0) /\ k \in Sinks
  BY DEF Init, Fresh, Sinks, None
<1>3. d \in Drivers /\ d.chans = <<>> /\ ~d.active /\ d.offAt = 0
  <2>1. <<>> \in Seq(Channels) /\ None \in Int
    BY DEF None
  <2> QED
    BY <2>1 DEF Init, Drivers
<1>4. amp \in Outs /\ amp.off /\ Level(amp, now) /\ ~amp.pad
  BY <1>1 DEF Init, Outs, Level
<1>5. fil \in Outs /\ fil.off /\ Level(fil, now)
  BY <1>1 DEF Init, Outs, Level
<1>6. ind \in Gates /\ Tickets(ind)
  BY DEF Init, Gates, Tickets
<1>7. /\ World.k = k /\ World.d = d /\ World.amp = amp /\ World.fil = fil /\ World.ind = ind
      /\ World \in Worlds
  BY <1>2, <1>3, <1>4, <1>5, <1>6 DEF World, Worlds
<1>8. Base(World, now, fit)
  BY <1>1, <1>3, <1>4, <1>5, <1>6, <1>7 DEF Base, Levels
<1>9. k.st = "Idle" /\ Resting(World)
  BY <1>2, <1>3, <1>4, <1>5, <1>7 DEF Resting, Fresh
<1> QED
  BY <1>1, <1>3, <1>7, <1>8, <1>9 DEF Sound, Good

-------------------------------------------------------------------------------
(* The theorems. *)

\* The invariant of the sink: what holds between any two of its methods and
\* interrupts.
THEOREM SinkIsSound == Spec => []Sound
<1>1. Init => Sound
  BY InitSound
<1>2. Sound /\ [Next]_vars => Sound'
  BY StepKeeps
<1> QED
  BY <1>1, <1>2, PTL DEF Spec

\* Whenever RF is on, the amplifier, the filters and the indicator were ready for
\* this run; a job completes only with all of it out and everything off.
THEOREM RfOnlyWhenReady == Spec => []SinkSound
<1>1. Sound => SinkSound
  <2> SUFFICES ASSUME Sound PROVE SinkSound
    OBVIOUS
  <2>1. /\ Good(World, now, fit) /\ World.k = k /\ World.d = d /\ World.amp = amp
        /\ World.fil = fil /\ World.ind = ind
    BY WorldIs
  <2>2. ChainReady
    BY <2>1 DEF Good, Lit, ChainReady, LeadOf
  <2>3. WholeStream
    BY <2>1 DEF Good, Whole, WholeStream
  <2> QED
    BY <2>2, <2>3 DEF SinkSound
<1> QED
  BY <1>1, SinkIsSound, PTL

\* The relays move only while RF is off and close only behind an amplifier that is
\* off; the amplifier outlives RF by its tail.
THEOREM SwitchedInOrder == Spec => SwitchOrder
<1>1. Sound /\ [Next]_vars => [ColdSwitch /\ WarmTail]_vars
  BY StepKeeps DEF vars
<1> QED
  BY <1>1, SinkIsSound, PTL DEF Spec, SwitchOrder

-------------------------------------------------------------------------------
(* The Si5351 *)

\* A checked output of that board.
SiOutputs == [off : BOOLEAN, pad : BOOLEAN, on : BOOLEAN, since : Nat]

\* What a synthesizer can be tuned to.
Names == {"none", "base", "integer"} \cup UNION {Si!Tones(job) : job \in Jobs}

\* The phases of the engine.
Phases == {"Inactive", "Waiting", "Selecting", "Lead", "Rf", "Tail", "Fault"}

\* What fails outside the chip.
Faults == {"none", "gate", "alarm", "amp", "fil", "capture", "measure", "open"}

\* The chip: its masks and power bits, and what it is tuned to.
Chips ==
    [maskT : BOOLEAN, downT : BOOLEAN, maskR : BOOLEAN, downR : BOOLEAN, pll : Names, ms : Names]

\* An output, as far as the device knows it.
Levels3 == {"unknown", "enabled", "disabled"}

\* A belief.
Beliefs ==
    [tx : Levels3, ref : Levels3, conf : BOOLEAN, pll : Names, ms : Names,
     txLock : BOOLEAN, refLock : BOOLEAN, txConf : BOOLEAN, primed : BOOLEAN,
     pending : {"none", "enable", "disable"}, mask : BOOLEAN]

\* The gate and its cutoff.
Gatings == [pad : BOOLEAN, active : BOOLEAN, unknown : BOOLEAN, cutoff : Int, expired : BOOLEAN]

\* The reference monitor.
Monitors ==
    [measuring : BOOLEAN, faulted : BOOLEAN, inhibited : BOOLEAN, latest : Int, gen : Int,
     started : Int, retry : Int]

\* The engine.
Engines ==
    [st : {"Idle", "Armed", "Running", "Complete", "Missed", "Failed"}, phase : Phases,
     plan : Jobs \cup {Si!NoPlan}, primed : Names, start : Int, end : Int, deadline : Int,
     release : Int, selection : Int, enable : Int, tail : Int, launch : Int, event : Nat,
     inhibited : BOOLEAN, suspended : BOOLEAN, req : BOOLEAN, ack : BOOLEAN]

\* A world without its engine and monitor.
Devices ==
    [c : Chips, v : Beliefs, g : Gatings, e : Engines, m : Monitors, amp : SiOutputs,
     fil : SiOutputs, at : Int, applied : BOOLEAN, dead : BOOLEAN, f : Faults, lock : BOOLEAN,
     ok : BOOLEAN]

\* The belief is right: an output that is believed off is masked, what is
\* believed to be tuned is tuned, and an uncertain output has a request open.
Believed(w, b) ==
    /\ w.v.tx = "disabled" \/ w.v.pending = "disable" => w.c.maskT
    /\ w.v.tx = "enabled" => ~w.c.maskT /\ ~w.c.downT
    /\ w.v.conf /\ w.v.tx = "unknown" => w.v.pending # "none"
    /\ w.v.ref = "disabled" \/ ~b.ref => w.c.maskR
    /\ w.v.conf /\ ~b.ref => w.v.ref = "disabled"
    /\ w.v.pll # "none" => w.c.pll = w.v.pll
    /\ w.v.ms # "none" => w.c.ms = w.v.ms

\* A device whose belief is right.
Dev(w) == w \in Devices /\ Believed(w, board)

\* y has the registers of u, and of c0 the others.
Wrote(y, u, c0) ==
    /\ y.maskT = IF "maskT" \in DOMAIN u THEN u.maskT ELSE c0.maskT
    /\ y.downT = IF "downT" \in DOMAIN u THEN u.downT ELSE c0.downT
    /\ y.maskR = IF "maskR" \in DOMAIN u THEN u.maskR ELSE c0.maskR
    /\ y.downR = IF "downR" \in DOMAIN u THEN u.downR ELSE c0.downR
    /\ y.pll = IF "pll" \in DOMAIN u THEN u.pll ELSE c0.pll
    /\ y.ms = IF "ms" \in DOMAIN u THEN u.ms ELSE c0.ms

\* u sets registers to values they can have.
Settings(u) ==
    \A r \in DOMAIN u : IF r \in {"pll", "ms"} THEN u[r] \in Names ELSE u[r] \in BOOLEAN

\* x has of w all that a transaction leaves alone.
Rest(x, w) ==
    /\ x.g = w.g /\ x.e = w.e /\ x.m = w.m /\ x.amp = w.amp /\ x.fil = w.fil
    /\ x.f = w.f /\ x.lock = w.lock

\* x is w but for the chip, the belief and the course of the failure; the
\* reference output was at most silenced.
Silent(x, w) ==
    /\ Rest(x, w)
    /\ (w.c.maskR => x.c.maskR) /\ (w.c.downR => x.c.downR)

\* Nothing is believed.
Unknown(b) ==
    /\ b.tx = "unknown" /\ b.ref = "unknown" /\ ~b.conf /\ b.pll = "none" /\ b.ms = "none"
    /\ ~b.txLock /\ ~b.refLock /\ ~b.txConf /\ ~b.primed /\ b.pending = "none" /\ ~b.mask

\* fault: nothing is believed.
LEMMA FaultedIs ==
    ASSUME NEW d0 \in Beliefs
    PROVE  Si!Faulted(d0) \in Beliefs /\ Unknown(Si!Faulted(d0))
  <1> DEFINE a == [d0 EXCEPT !.tx = "unknown", !.ref = "unknown", !.conf = FALSE]
             b == [a EXCEPT !.pll = "none", !.ms = "none", !.txLock = FALSE, !.refLock = FALSE,
                          !.txConf = FALSE]
             z == [b EXCEPT !.primed = FALSE, !.pending = "none", !.mask = FALSE]
  <1>1. Si!Faulted(d0) = z
    BY DEF Si!Faulted, Si!NoTone
  <1>2. a \in Beliefs /\ a.tx = "unknown" /\ a.ref = "unknown" /\ ~a.conf
    BY DEF Beliefs, Levels3
  <1> HIDE DEF a
  <1>3. b \in Beliefs /\ b.tx = a.tx /\ b.ref = a.ref /\ b.conf = a.conf /\ b.pll = "none"
        /\ b.ms = "none" /\ ~b.txLock /\ ~b.refLock /\ ~b.txConf
    BY <1>2 DEF Beliefs, Levels3, Names
  <1> HIDE DEF b
  <1>4. z \in Beliefs
    BY <1>3 DEF Beliefs, Levels3
  <1>5. z.tx = b.tx /\ z.ref = b.ref /\ z.conf = b.conf /\ z.pll = b.pll /\ z.ms = b.ms
        /\ z.txLock = b.txLock /\ z.refLock = b.refLock /\ z.txConf = b.txConf
        /\ ~z.primed /\ z.pending = "none" /\ ~z.mask
    BY <1>3 DEF Beliefs
  <1> HIDE DEF z
  <1> QED BY <1>1, <1>2, <1>3, <1>4, <1>5 DEF Unknown

\* A transaction of w with the registers of u ended in x.
Transacted(x, w, u) ==
    /\ x \in Devices /\ Rest(x, w)
    /\ ~w.ok => x = w
    /\ w.ok /\ ~x.ok => Unknown(x.v) /\ (x.c = w.c \/ Wrote(x.c, u, w.c))
    /\ x.ok => w.ok /\ x.v = w.v /\ Wrote(x.c, u, w.c)

\* A transaction: not begun, done, or failed with or without having reached the chip.
LEMMA PutIs ==
    ASSUME NEW w \in Devices, NEW u, Settings(u)
    PROVE  Transacted(Si!Put(w, u), w, u)
  <1> DEFINE y == [r \in DOMAIN w.c |-> IF r \in DOMAIN u THEN u[r] ELSE w.c[r]]
  <1>1. y \in Chips /\ Wrote(y, u, w.c)
    <2>1. DOMAIN w.c = {"maskT", "downT", "maskR", "downR", "pll", "ms"}
      BY DEF Devices, Chips
    <2>2. \A r \in DOMAIN w.c : y[r] = IF r \in DOMAIN u THEN u[r] ELSE w.c[r]
      OBVIOUS
    <2>3. Wrote(y, u, w.c)
      BY <2>1, <2>2 DEF Wrote
    <2>4. y \in Chips
      BY <2>1 DEF Settings, Devices, Chips
    <2> QED BY <2>3, <2>4
  <1>2. Si!Faulted(w.v) \in Beliefs /\ Unknown(Si!Faulted(w.v))
    BY FaultedIs DEF Devices
  <1>3. Si!Put(w, u) =
          IF ~w.ok THEN w
          ELSE IF w.at = 0
               THEN [w EXCEPT !.c = IF w.applied THEN y ELSE @, !.at = IF w.dead THEN 0 ELSE -1,
                              !.applied = FALSE, !.v = Si!Faulted(@), !.ok = FALSE]
               ELSE [w EXCEPT !.c = y, !.at = IF @ = -1 THEN -1 ELSE @ - 1]
    BY DEF Si!Put, Si!None
  <1> HIDE DEF y
  <1>4. CASE ~w.ok
    BY <1>3, <1>4 DEF Rest, Transacted
  <1>5. CASE w.ok /\ w.at = 0
    <2> DEFINE x == Si!Put(w, u)
               n == IF w.dead THEN 0 ELSE -1
               p == IF w.applied THEN y ELSE w.c
    <2>1. x = [w EXCEPT !.c = p, !.at = n, !.applied = FALSE, !.v = Si!Faulted(@), !.ok = FALSE]
      BY <1>3, <1>5
    <2>2. n \in Int /\ p \in Chips /\ (p = w.c \/ p = y)
      BY <1>1 DEF Devices
    <2> HIDE DEF x, n, p
    <2>3. x.v = Si!Faulted(w.v) /\ ~x.ok /\ x.c = p
      BY <2>1 DEF Devices
    <2>4. x.g = w.g /\ x.e = w.e /\ x.m = w.m /\ x.amp = w.amp /\ x.fil = w.fil
          /\ x.f = w.f /\ x.lock = w.lock
      BY <2>1 DEF Devices
    <2>5. x \in Devices
      BY <1>2, <2>1, <2>2 DEF Devices
    <2> QED BY <1>1, <1>2, <1>5, <2>2, <2>3, <2>4, <2>5 DEF x, Rest, Transacted
  <1>6. CASE w.ok /\ w.at # 0
    <2> DEFINE x == Si!Put(w, u)
               n == IF w.at = -1 THEN -1 ELSE w.at - 1
    <2>1. x = [w EXCEPT !.c = y, !.at = n]
      BY <1>3, <1>6
    <2>2. n \in Int
      BY DEF Devices
    <2> HIDE DEF x, n
    <2>3. x.v = w.v /\ x.ok = w.ok /\ x.c = y
      BY <2>1 DEF Devices
    <2>4. x.g = w.g /\ x.e = w.e /\ x.m = w.m /\ x.amp = w.amp /\ x.fil = w.fil
          /\ x.f = w.f /\ x.lock = w.lock
      BY <2>1 DEF Devices
    <2>5. x \in Devices
      BY <1>1, <2>1, <2>2 DEF Devices
    <2> QED BY <1>1, <1>6, <2>3, <2>4, <2>5 DEF x, Rest, Transacted
  <1> QED BY <1>4, <1>5, <1>6

\* The writes of the masks and the power bits.
LEMMA LiteralSettings ==
    ASSUME NEW p \in BOOLEAN, NEW q \in BOOLEAN
    PROVE  /\ Settings([maskT |-> p, maskR |-> q])
           /\ Settings([downT |-> p, downR |-> q])
           /\ Settings([maskT |-> p, downT |-> q])
           /\ Settings([maskR |-> p, downR |-> q])
           /\ Settings([maskT |-> p])
           /\ Settings([maskR |-> p])
           /\ Settings([downT |-> p])
           /\ Settings([downR |-> p])
  <1>1. Settings([maskT |-> p, maskR |-> q])
    <2> DEFINE u == [maskT |-> p, maskR |-> q]
    <2>1. DOMAIN u = {"maskT", "maskR"} /\ u.maskT = p /\ u.maskR = q
      OBVIOUS
    <2> HIDE DEF u
    <2>2. Settings(u)
      BY <2>1 DEF Settings
    <2> QED BY <2>2 DEF u
  <1>2. Settings([downT |-> p, downR |-> q])
    <2> DEFINE u == [downT |-> p, downR |-> q]
    <2>1. DOMAIN u = {"downT", "downR"} /\ u.downT = p /\ u.downR = q
      OBVIOUS
    <2> HIDE DEF u
    <2>2. Settings(u)
      BY <2>1 DEF Settings
    <2> QED BY <2>2 DEF u
  <1>3. Settings([maskT |-> p, downT |-> q])
    <2> DEFINE u == [maskT |-> p, downT |-> q]
    <2>1. DOMAIN u = {"maskT", "downT"} /\ u.maskT = p /\ u.downT = q
      OBVIOUS
    <2> HIDE DEF u
    <2>2. Settings(u)
      BY <2>1 DEF Settings
    <2> QED BY <2>2 DEF u
  <1>4. Settings([maskR |-> p, downR |-> q])
    <2> DEFINE u == [maskR |-> p, downR |-> q]
    <2>1. DOMAIN u = {"maskR", "downR"} /\ u.maskR = p /\ u.downR = q
      OBVIOUS
    <2> HIDE DEF u
    <2>2. Settings(u)
      BY <2>1 DEF Settings
    <2> QED BY <2>2 DEF u
  <1>5. Settings([maskT |-> p])
    <2> DEFINE u == [maskT |-> p]
    <2>1. DOMAIN u = {"maskT"} /\ u.maskT = p
      OBVIOUS
    <2> HIDE DEF u
    <2>2. Settings(u)
      BY <2>1 DEF Settings
    <2> QED BY <2>2 DEF u
  <1>6. Settings([maskR |-> p])
    <2> DEFINE u == [maskR |-> p]
    <2>1. DOMAIN u = {"maskR"} /\ u.maskR = p
      OBVIOUS
    <2> HIDE DEF u
    <2>2. Settings(u)
      BY <2>1 DEF Settings
    <2> QED BY <2>2 DEF u
  <1>7. Settings([downT |-> p])
    <2> DEFINE u == [downT |-> p]
    <2>1. DOMAIN u = {"downT"} /\ u.downT = p
      OBVIOUS
    <2> HIDE DEF u
    <2>2. Settings(u)
      BY <2>1 DEF Settings
    <2> QED BY <2>2 DEF u
  <1>8. Settings([downR |-> p])
    <2> DEFINE u == [downR |-> p]
    <2>1. DOMAIN u = {"downR"} /\ u.downR = p
      OBVIOUS
    <2> HIDE DEF u
    <2>2. Settings(u)
      BY <2>1 DEF Settings
    <2> QED BY <2>2 DEF u
  <1> QED BY <1>1, <1>2, <1>3, <1>4, <1>5, <1>6, <1>7, <1>8

\* The writes that tune.
LEMMA TuningSettings ==
    ASSUME NEW n \in Names, NEW p \in BOOLEAN
    PROVE  /\ Settings([pll |-> n])
           /\ Settings([ms |-> n, downT |-> p])
  <1>1. Settings([pll |-> n])
    <2> DEFINE u == [pll |-> n]
    <2>1. DOMAIN u = {"pll"} /\ u.pll = n
      OBVIOUS
    <2> HIDE DEF u
    <2>2. Settings(u)
      BY <2>1 DEF Settings
    <2> QED BY <2>2 DEF u
  <1>2. Settings([ms |-> n, downT |-> p])
    <2> DEFINE u == [ms |-> n, downT |-> p]
    <2>1. DOMAIN u = {"ms", "downT"} /\ u.ms = n /\ u.downT = p
      OBVIOUS
    <2> HIDE DEF u
    <2>2. Settings(u)
      BY <2>1 DEF Settings
    <2> QED BY <2>2 DEF u
  <1> QED BY <1>1, <1>2

\* quiesce: two writes; when both are done, both outputs are off.
LEMMA QuiesceIs ==
    ASSUME NEW w, Dev(w)
    PROVE  LET x == Si!Quiesce(w) IN
           /\ Dev(x) /\ Silent(x, w)
           /\ ~x.v.conf /\ ~x.v.txConf /\ x.v.pending = "none"
           /\ x.ok => x.v.tx = "disabled" /\ x.v.ref = "disabled" /\ x.c.maskR /\ x.c.maskT
  <1> DEFINE o == [w EXCEPT !.v = Si!Faulted(@), !.ok = TRUE]
             x == Si!Put(o, [maskT |-> TRUE, maskR |-> TRUE])
             a == Si!Again(x)
             y == Si!Put(a, [downT |-> TRUE, downR |-> TRUE])
             on == [y EXCEPT !.v.tx = "disabled", !.v.ref = "disabled", !.v.mask = TRUE]
             off == [y EXCEPT !.ok = FALSE, !.v = Si!Faulted(@)]
  <1>0. Si!Quiesce(w) = IF x.ok /\ y.ok THEN on ELSE off
    BY DEF Si!Quiesce, Si!After
  <1>00. w \in Devices /\ (w.c.maskR \/ board.ref)
    BY DEF Dev, Believed
  <1>1. o \in Devices /\ Rest(o, w) /\ o.c = w.c /\ o.ok /\ Unknown(o.v)
    BY <1>00, FaultedIs DEF Devices, Rest
  <1> HIDE DEF o
  <1>2. x \in Devices /\ Rest(x, w) /\ Unknown(x.v)
        /\ (x.ok => x.c.maskT /\ x.c.maskR)
        /\ (x.ok => x.c.downT = w.c.downT /\ x.c.downR = w.c.downR)
        /\ (w.c.maskR => x.c.maskR) /\ (w.c.downR => x.c.downR)
    <2>1. Transacted(x, o, [maskT |-> TRUE, maskR |-> TRUE])
      BY <1>1, PutIs, LiteralSettings
    <2> QED BY <1>1, <2>1 DEF Transacted, Wrote, Rest
  <1> HIDE DEF x
  <1>3. a \in Devices /\ Rest(a, x) /\ a.c = x.c /\ a.v = x.v /\ a.ok
    BY <1>2 DEF Si!Again, Devices, Rest
  <1> HIDE DEF a
  <1>4. y \in Devices /\ Rest(y, w) /\ Unknown(y.v)
        /\ (x.c.maskT => y.c.maskT) /\ (x.c.maskR => y.c.maskR)
        /\ (x.c.downR => y.c.downR)
    <2>1. Transacted(y, a, [downT |-> TRUE, downR |-> TRUE])
      BY <1>3, PutIs, LiteralSettings
    <2> QED BY <1>2, <1>3, <2>1 DEF Transacted, Wrote, Rest
  <1> HIDE DEF y
  <1>5. CASE x.ok /\ y.ok
    <2>1. Si!Quiesce(w) = on
      BY <1>0, <1>5
    <2>2. on \in Devices /\ Rest(on, y) /\ on.c = y.c /\ on.ok = y.ok
      BY <1>4 DEF Devices, Beliefs, Levels3, Rest
    <2>3. on.v.tx = "disabled" /\ on.v.ref = "disabled" /\ on.v.conf = y.v.conf
          /\ on.v.pll = y.v.pll /\ on.v.ms = y.v.ms /\ on.v.pending = y.v.pending
          /\ on.v.txConf = y.v.txConf
      BY <1>4 DEF Devices, Beliefs
    <2> HIDE DEF on
    <2> QED BY <1>2, <1>00, <1>4, <1>5, <2>1, <2>2, <2>3 DEF Dev, Believed, Unknown, Silent, Rest
  <1>6. CASE ~(x.ok /\ y.ok)
    <2>1. Si!Quiesce(w) = off
      BY <1>0, <1>6
    <2>2. off \in Devices /\ Rest(off, y) /\ off.c = y.c /\ ~off.ok /\ Unknown(off.v)
      BY <1>4, FaultedIs DEF Devices, Rest
    <2> HIDE DEF off
    <2> QED BY <1>00, <1>2, <1>4, <2>1, <2>2 DEF Dev, Believed, Unknown, Silent, Rest
  <1> QED BY <1>5, <1>6

\* a believes what b does, but for the locks and the priming.
Alike(a, b) ==
    /\ a.tx = b.tx /\ a.ref = b.ref /\ a.conf = b.conf /\ a.pll = b.pll /\ a.ms = b.ms
    /\ a.txConf = b.txConf /\ a.pending = b.pending /\ a.mask = b.mask

\* A read.
LEMMA GetIs ==
    ASSUME NEW w \in Devices
    PROVE  LET x == Si!Get(w) IN
           /\ x \in Devices /\ Rest(x, w) /\ x.c = w.c /\ (Dev(w) => Dev(x))
           /\ ~w.ok => x = w
           /\ x.ok => w.ok /\ x.v = w.v
           /\ w.ok /\ ~x.ok => Unknown(x.v)
  <1> DEFINE x == Si!Get(w)
  <1>1. Settings(<<>>) /\ DOMAIN <<>> = {}
    BY DEF Settings
  <1>2. Transacted(x, w, <<>>)
    BY <1>1, PutIs DEF Si!Get
  <1> HIDE DEF x
  <1>3. x.c = w.c
    BY <1>1, <1>2 DEF Transacted, Wrote, Devices, Chips
  <1> QED BY <1>2, <1>3 DEF Transacted, Dev, Believed, Unknown, Silent, Rest, x

\* locked: what it changes of the belief are the locks, unless the bus fails.
LEMMA LockedIs ==
    ASSUME NEW w \in Devices
    PROVE  LET x == Si!Locked(w) IN
           /\ x \in Devices /\ Rest(x, w) /\ x.c = w.c /\ (Dev(w) => Dev(x))
           /\ Unknown(x.v) \/ Alike(x.v, w.v)
           /\ x.ok => w.ok /\ w.v.conf /\ Alike(x.v, w.v)
  <1> DEFINE x == Si!Get(w)
             l == x.v.txConf /\ w.lock
             r == board.ref /\ w.lock
             y == [x EXCEPT !.v.txLock = l, !.v.refLock = r, !.ok = l]
  <1>1. Si!Locked(w) = IF ~w.v.conf THEN Si!Refused(w) ELSE IF x.ok THEN y ELSE x
    BY DEF Si!Locked, Si!Then
  <1>2. x \in Devices /\ Rest(x, w) /\ x.c = w.c /\ (Dev(w) => Dev(x))
        /\ (~w.ok => x = w) /\ (x.ok => w.ok /\ x.v = w.v)
        /\ (w.ok /\ ~x.ok => Unknown(x.v))
    BY GetIs
  <1>3. l \in BOOLEAN /\ r \in BOOLEAN
    OBVIOUS
  <1> HIDE DEF x, l, r
  <1>4. y \in Devices /\ Rest(y, x) /\ y.c = x.c /\ y.ok = l /\ Alike(y.v, x.v)
    BY <1>2, <1>3 DEF Devices, Beliefs, Rest, Alike
  <1> HIDE DEF y
  <1>5. Dev(w) => Dev(y)
    BY <1>2, <1>4 DEF Dev, Believed, Alike
  <1>6. CASE ~w.v.conf
    <2> DEFINE z == Si!Refused(w)
    <2>1. z \in Devices /\ Rest(z, w) /\ z.c = w.c /\ z.v = w.v /\ ~z.ok
      BY DEF Si!Refused, Devices, Rest
    <2> HIDE DEF z
    <2>2. Si!Locked(w) = z
      BY <1>1, <1>6 DEF z
    <2> QED BY <2>1, <2>2 DEF Dev, Believed, Alike
  <1>7. CASE w.v.conf /\ ~x.ok
    <2>1. Si!Locked(w) = x
      BY <1>1, <1>7
    <2>2. Unknown(x.v) \/ Alike(x.v, w.v)
      BY <1>2, <1>7 DEF Alike
    <2> QED BY <1>2, <1>7, <2>1, <2>2
  <1>8. CASE w.v.conf /\ x.ok
    <2>1. Si!Locked(w) = y
      BY <1>1, <1>8
    <2> QED BY <1>2, <1>4, <1>5, <1>8, <2>1 DEF Rest, Alike
  <1> QED BY <1>6, <1>7, <1>8

\* A refusal changes nothing else.
LEMMA RefusedIs ==
    ASSUME NEW w \in Devices
    PROVE  LET x == Si!Refused(w) IN
           /\ x \in Devices /\ Rest(x, w) /\ x.c = w.c /\ x.v = w.v /\ ~x.ok
           /\ Silent(x, w) /\ (Dev(w) => Dev(x))
  <1> DEFINE x == Si!Refused(w)
  <1>1. x \in Devices /\ Rest(x, w) /\ x.c = w.c /\ x.v = w.v /\ ~x.ok
    BY DEF Si!Refused, Devices, Rest
  <1> HIDE DEF x
  <1> QED BY <1>1 DEF Dev, Believed, Silent, x

\* What a tone asks of the chip can be asked.
LEMMA ToneNames ==
    ASSUME NEW job \in Jobs, NEW t \in Si!Tones(job)
    PROVE  /\ Si!TonePll(job, t) \in Names \ {"none"} /\ Si!ToneMs(job, t) \in Names \ {"none"}
           /\ t \in Names \ {"none"}
  <1>1. t \in Names
    BY DEF Names
  <1>2. PICK i \in DOMAIN job.tone : t = job.tone[i]
    BY DEF Si!Tones
  <1>3. job.tone \in Seq(STRING \ {"none"})
    BY SiAssumption
  <1>4. t # "none"
    BY <1>2, <1>3
  <1> QED BY <1>1, <1>4 DEF Si!TonePll, Si!ToneMs, Names

\* PLLA of a VHF tone, and its lock; of any other job it is left alone.
LEMMA TuneIs ==
    ASSUME NEW w, Dev(w), w.ok, w.v.conf, NEW job \in Jobs, NEW t \in Si!Tones(job)
    PROVE  LET x == Si!Tune(w, job, t) IN
           /\ Dev(x) /\ Silent(x, w)
           /\ x.ok => /\ x.v.tx = w.v.tx /\ x.v.ref = w.v.ref /\ x.v.pending = w.v.pending
                      /\ x.v.conf /\ x.v.txConf = w.v.txConf /\ x.v.ms = w.v.ms
                      /\ x.v.pll = IF job.band = "vhf" THEN t ELSE w.v.pll
  <1> DEFINE n == Si!TonePll(job, t)
             x == Si!Put(w, [pll |-> n])
             y == Si!Locked(x)
             on == [y EXCEPT !.v.pll = n]
             off == [y EXCEPT !.v = Si!Faulted(@)]
  <1>1. Si!Tune(w, job, t) =
          IF job.band # "vhf" \/ w.v.pll = n THEN w
          ELSE IF ~x.ok THEN x ELSE IF y.ok THEN on ELSE off
    BY DEF Si!Tune, Si!Then, Si!After
  <1>2. n \in Names \ {"none"} /\ (job.band = "vhf" => n = t)
    BY ToneNames DEF Si!TonePll
  <1> HIDE DEF n
  <1>3. Transacted(x, w, [pll |-> n])
    BY <1>2, PutIs, TuningSettings DEF Dev
  <1> HIDE DEF x
  <1>4. CASE job.band # "vhf" \/ w.v.pll = n
    BY <1>1, <1>2, <1>4 DEF Silent, Rest
  <1>5. CASE ~(job.band # "vhf" \/ w.v.pll = n) /\ ~x.ok
    BY <1>1, <1>3, <1>5 DEF Transacted, Wrote, Dev, Believed, Silent, Unknown
  <1>6. CASE ~(job.band # "vhf" \/ w.v.pll = n) /\ x.ok
    <2>1. x \in Devices /\ Rest(x, w) /\ x.v = w.v /\ x.c.pll = n /\ x.c.ms = w.c.ms
          /\ x.c.maskT = w.c.maskT /\ x.c.downT = w.c.downT /\ x.c.maskR = w.c.maskR
          /\ x.c.downR = w.c.downR
      BY <1>3, <1>6 DEF Transacted, Wrote
    <2>7. y \in Devices /\ Rest(y, x) /\ y.c = x.c
          /\ (Unknown(y.v) \/ Alike(y.v, x.v)) /\ (y.ok => Alike(y.v, x.v))
      BY <2>1, LockedIs
    <2> HIDE DEF y
    <2>2. CASE y.ok
      <3>1. on \in Devices /\ Rest(on, y) /\ on.c = y.c /\ on.v.pll = n /\ on.ok
            /\ on.v.tx = y.v.tx /\ on.v.ref = y.v.ref /\ on.v.conf = y.v.conf
            /\ on.v.ms = y.v.ms /\ on.v.txConf = y.v.txConf /\ on.v.pending = y.v.pending
        BY <1>2, <2>2, <2>7 DEF Devices, Beliefs, Rest
      <3>2. Si!Tune(w, job, t) = on
        BY <1>1, <1>6, <2>2
      <3> HIDE DEF on
      <3> QED BY <1>2, <1>6, <2>1, <2>2, <2>7, <3>1, <3>2 DEF Dev, Believed, Alike, Silent, Rest
    <2>3. CASE ~y.ok
      <3>1. off \in Devices /\ Rest(off, y) /\ off.c = y.c /\ off.ok = y.ok /\ Unknown(off.v)
        BY <2>7, FaultedIs DEF Devices, Rest
      <3>2. Si!Tune(w, job, t) = off
        BY <1>1, <1>6, <2>3
      <3> HIDE DEF off
      <3> QED BY <2>1, <2>3, <2>7, <3>1, <3>2 DEF Dev, Believed, Unknown, Silent, Rest
    <2> QED BY <2>2, <2>3
  <1> QED BY <1>4, <1>5, <1>6

\* transmit_tone: a tone that is set up leaves the chip tuned to it.
LEMMA TransmitToneIs ==
    ASSUME NEW w, Dev(w), NEW job \in Jobs, NEW t \in Si!Tones(job)
    PROVE  LET x == Si!TransmitTone(w, job, t) IN
           /\ Dev(x) /\ Silent(x, w)
           /\ x.ok => /\ w.ok /\ w.v.conf /\ x.v.conf /\ w.v.pending = "none"
                      /\ x.v.tx = w.v.tx /\ x.v.ref = w.v.ref /\ x.v.pending = "none"
                      /\ x.v.ms = Si!ToneMs(job, t)
                      /\ x.v.pll = IF job.band = "vhf" THEN t ELSE w.v.pll
  <1> DEFINE n == Si!ToneMs(job, t)
             x == Si!Tune(w, job, t)
             o == [x EXCEPT !.v.primed = FALSE]
             b == w.v.tx # "enabled"
             p == Si!Put(o, [ms |-> n, downT |-> b])
             z == [p EXCEPT !.v.ms = n]
             R == ~w.ok \/ ~w.v.conf \/ ~w.v.txConf \/ w.v.pending # "none"
             S == job.band = "vhf" /\ x.v.ms = n
  <1>1. Si!TransmitTone(w, job, t) =
          IF R THEN Si!Refused(w)
          ELSE IF ~x.ok THEN x ELSE IF S THEN x ELSE IF p.ok THEN z ELSE p
    BY DEF Si!TransmitTone, Si!Then
  <1>2. n \in Names \ {"none"} /\ b \in BOOLEAN
    BY ToneNames
  <1>3. CASE R
    BY <1>1, <1>3, RefusedIs DEF Dev
  <1>4. CASE ~R
    <2>1. w.ok /\ w.v.conf /\ w.v.txConf /\ w.v.pending = "none"
      BY <1>4 DEF Dev, Devices, Beliefs
    <2>2. Dev(x) /\ Silent(x, w)
          /\ (x.ok => /\ x.v.tx = w.v.tx /\ x.v.ref = w.v.ref /\ x.v.pending = w.v.pending
                      /\ x.v.conf /\ x.v.txConf = w.v.txConf /\ x.v.ms = w.v.ms
                      /\ x.v.pll = IF job.band = "vhf" THEN t ELSE w.v.pll)
      BY <2>1, TuneIs
    <2>3. Si!TransmitTone(w, job, t) = IF ~x.ok THEN x ELSE IF S THEN x ELSE IF p.ok THEN z ELSE p
      BY <1>1, <1>4
    <2> HIDE DEF x, n, b, R
    <2>4. CASE ~x.ok \/ S
      BY <2>1, <2>2, <2>3, <2>4 DEF n
    <2>5. CASE ~(~x.ok \/ S)
      <3>1. o \in Devices /\ Rest(o, x) /\ o.c = x.c /\ o.ok = x.ok /\ Alike(o.v, x.v)
        BY <2>2 DEF Dev, Devices, Beliefs, Rest, Alike
      <3> HIDE DEF o, S
      <3>2. Transacted(p, o, [ms |-> n, downT |-> b])
        BY <1>2, <3>1, PutIs, TuningSettings
      <3> HIDE DEF p
      <3>3. CASE p.ok
        <4>1. p \in Devices /\ Rest(p, o) /\ p.v = o.v /\ p.c.ms = n /\ p.c.downT = b
              /\ p.c.maskT = o.c.maskT /\ p.c.maskR = o.c.maskR /\ p.c.downR = o.c.downR
              /\ p.c.pll = o.c.pll
          BY <3>2, <3>3 DEF Transacted, Wrote
        <4>2. z \in Devices /\ Rest(z, p) /\ z.c = p.c /\ z.ok = p.ok /\ z.v.ms = n
              /\ z.v.tx = p.v.tx /\ z.v.ref = p.v.ref /\ z.v.conf = p.v.conf
              /\ z.v.pll = p.v.pll /\ z.v.pending = p.v.pending
          BY <1>2, <4>1 DEF Devices, Beliefs, Rest
        <4> HIDE DEF z
        <4>3. Si!TransmitTone(w, job, t) = z
          BY <2>3, <2>5, <3>3
        <4>4. z.v.tx = w.v.tx /\ z.v.ref = w.v.ref /\ z.v.pending = "none" /\ z.v.conf
              /\ z.v.pll = IF job.band = "vhf" THEN t ELSE w.v.pll
          BY <2>1, <2>2, <2>5, <3>1, <4>1, <4>2, ZenonT(60) DEF Alike
        <4>5. z.c.maskT = x.c.maskT /\ z.c.maskR = x.c.maskR /\ z.c.downR = x.c.downR
              /\ z.c.pll = x.c.pll /\ z.c.ms = n /\ z.c.downT = b
          BY <3>1, <4>1, <4>2
        <4>6. Silent(z, w)
          BY <2>2, <3>1, <4>1, <4>2, <4>5 DEF Silent, Rest
        <4>7. x.v.tx = z.v.tx /\ x.v.ref = z.v.ref /\ x.v.pending = "none" /\ x.v.conf
              /\ x.v.pll = z.v.pll
          BY <2>1, <2>2, <2>5, <4>4
        <4>8. w.v.tx = "enabled" => ~b
          BY DEF b
        <4>9. Dev(z)
          BY <1>2, <2>2, <4>2, <4>4, <4>5, <4>7, <4>8 DEF Dev, Believed
        <4> QED BY <2>1, <4>2, <4>3, <4>4, <4>6, <4>9, <3>1, <4>1 DEF n
      <3>4. CASE ~p.ok
        <4>1. p \in Devices /\ Rest(p, o) /\ Unknown(p.v)
              /\ p.c.maskR = o.c.maskR /\ p.c.downR = o.c.downR
          BY <2>5, <3>1, <3>2, <3>4 DEF Transacted, Wrote
        <4>2. Si!TransmitTone(w, job, t) = p
          BY <2>3, <2>5, <3>4
        <4> QED BY <2>2, <3>1, <3>4, <4>1, <4>2 DEF Dev, Believed, Unknown, Silent, Rest
      <3> QED BY <3>3, <3>4
    <2> QED BY <2>4, <2>5
  <1> QED BY <1>3, <1>4

\* A set of natural numbers has a least one.
LEMMA LeastOf ==
    ASSUME NEW S, S \subseteq Nat, S # {}
    PROVE  \E z \in S : \A y \in S : z <= y
  <1>1. IsWellFoundedOn(OpToRel(<, Nat), Nat)
    BY NatLessThanWellFounded
  <1>2. PICK z \in S : \A y \in S : ~(<<y, z>> \in OpToRel(<, Nat))
    BY <1>1, WFMin
  <1>3. \A y \in S : ~(y < z)
    BY <1>2 DEF OpToRel
  <1> QED BY <1>3

\* A job keys a tone.
LEMMA FirstToneIs ==
    ASSUME NEW job \in Jobs
    PROVE  /\ Si!FirstTone(job) \in Si!Tones(job)
           /\ 1 \in DOMAIN job.tone
           /\ job.tone[1] # "off" => Si!FirstTone(job) = job.tone[1]
           /\ DOMAIN job.tone = 1..Len(job.tone) /\ Len(job.tone) \in Nat \ {0}
           /\ \A i \in DOMAIN job.tone : job.tone[i] # "off" => job.tone[i] \in Si!Tones(job)
  <1> DEFINE S == {i \in DOMAIN job.tone : job.tone[i] # "off"}
             P(i) == job.tone[i] # "off" /\ \A j \in 1..(i - 1) : job.tone[j] = "off"
  <1>1. job.tone \in Seq(STRING \ {"none"}) /\ S # {}
    BY SiAssumption
  <1>2. DOMAIN job.tone = 1..Len(job.tone) /\ Len(job.tone) \in Nat \ {0}
    BY <1>1
  <1>3. PICK z \in S : \A y \in S : z <= y
    <2>1. S \subseteq Nat /\ S # {}
      BY <1>1, <1>2
    <2> HIDE DEF S
    <2> QED BY <2>1, LeastOf
  <1>4. z \in DOMAIN job.tone /\ P(z)
    BY <1>2, <1>3
  <1> DEFINE h == CHOOSE i \in DOMAIN job.tone : P(i)
  <1>5. h \in DOMAIN job.tone /\ P(h)
    BY <1>4
  <1>6. Si!FirstTone(job) = job.tone[h]
    BY DEF Si!FirstTone, Si!Off
  <1> HIDE DEF h
  <1>7. \A i \in DOMAIN job.tone : job.tone[i] # "off" => job.tone[i] \in Si!Tones(job)
    BY DEF Si!Tones, Si!Off
  <1>8. job.tone[1] # "off" => h = 1
    <2> SUFFICES ASSUME job.tone[1] # "off", h # 1 PROVE FALSE
      OBVIOUS
    <2>1. h \in 1..Len(job.tone) /\ 1 \in 1..(h - 1)
      BY <1>2, <1>5
    <2> QED BY <1>5, <2>1
  <1> QED BY <1>2, <1>5, <1>6, <1>7, <1>8

\* The chip is tuned to tone t of the job, and the belief says so.
Tuned(w, job, t) ==
    t \in Si!Tones(job) /\ w.v.pll = Si!TonePll(job, t) /\ w.v.ms = Si!ToneMs(job, t)

\* The plan of a job on a chip whose transmit output is off.
LEMMA ConfigurePlanIs ==
    ASSUME NEW w, Dev(w), NEW job \in Jobs, w.v.tx = "disabled", w.v.pending = "none",
           ~board.ref => w.v.ref = "disabled"
    PROVE  LET x == Si!ConfigurePlan(w, job) IN
           /\ Dev(x) /\ Silent(x, w)
           /\ x.ok => /\ w.ok /\ Tuned(x, job, Si!FirstTone(job)) /\ x.v.tx = "disabled"
                      /\ x.v.ref = w.v.ref /\ x.v.pending = "none"
  <1> DEFINE t == Si!FirstTone(job)
             n == Si!TonePll(job, t)
             a == Si!Put(w, [downT |-> TRUE])
             x == Si!Put(a, [pll |-> n])
             r == x.v.refLock /\ w.v.conf
             y == [x EXCEPT !.v.conf = TRUE, !.v.txConf = TRUE, !.v.txLock = FALSE,
                            !.v.primed = FALSE, !.v.refLock = r, !.v.pll = n]
             z == Si!TransmitTone(y, job, t)
  <1>1. Si!ConfigurePlan(w, job) = IF x.ok THEN Si!Get(z) ELSE x
    BY DEF Si!ConfigurePlan, Si!Then
  <1>2. t \in Si!Tones(job)
    BY FirstToneIs
  <1> HIDE DEF t
  <1>3. n \in Names \ {"none"}
    BY <1>2, ToneNames
  <1>4. Transacted(a, w, [downT |-> TRUE])
    BY PutIs, LiteralSettings DEF Dev
  <1> HIDE DEF a
  <1>5. a \in Devices /\ Rest(a, w) /\ a.c.maskT /\ a.c.maskR = w.c.maskR
        /\ a.c.downR = w.c.downR /\ a.c.ms = w.c.ms /\ a.c.pll = w.c.pll
        /\ (a.ok => w.ok) /\ (a.v = w.v \/ Unknown(a.v))
        /\ (a.ok => a.v = w.v)
    BY <1>4 DEF Transacted, Wrote, Dev, Believed
  <1> HIDE DEF n
  <1>6. Transacted(x, a, [pll |-> n])
    BY <1>3, <1>5, PutIs, TuningSettings
  <1> HIDE DEF x
  <1>7. x \in Devices /\ Rest(x, w) /\ x.c.maskT /\ x.c.maskR = w.c.maskR
        /\ x.c.downR = w.c.downR /\ x.c.ms = w.c.ms
        /\ (x.ok => w.ok /\ x.c.pll = n /\ x.v = w.v)
        /\ (~x.ok => Unknown(x.v) \/ (x.v = w.v /\ x.c.pll = w.c.pll))
    BY <1>5, <1>6 DEF Transacted, Wrote, Rest
  <1>8. CASE ~x.ok
    <2>1. Dev(x)
      BY <1>7, <1>8 DEF Dev, Believed, Unknown
    <2> QED BY <1>1, <1>7, <1>8, <2>1 DEF Silent
  <1>9. CASE x.ok
    <2>1. r \in BOOLEAN
      OBVIOUS
    <2> HIDE DEF r
    <2>2. y \in Devices /\ Rest(y, x) /\ y.c = x.c /\ y.ok = x.ok
      BY <1>3, <1>7, <2>1, ZenonT(60) DEF Devices, Beliefs, Rest
    <2>3. y.v.conf /\ y.v.pll = n /\ y.v.tx = x.v.tx /\ y.v.ref = x.v.ref /\ y.v.ms = x.v.ms
          /\ y.v.pending = x.v.pending
      BY <1>7 DEF Devices, Beliefs
    <2> HIDE DEF y
    <2>4. Dev(y) /\ Silent(y, w)
      BY <1>7, <1>9, <2>2, <2>3 DEF Dev, Believed, Silent, Rest
    <2>5. Dev(z) /\ Silent(z, y)
          /\ (z.ok => z.v.tx = y.v.tx /\ z.v.ref = y.v.ref /\ z.v.pending = "none"
                      /\ z.v.ms = Si!ToneMs(job, t)
                      /\ z.v.pll = IF job.band = "vhf" THEN t ELSE y.v.pll)
      BY <1>2, <2>4, TransmitToneIs
    <2> HIDE DEF z
    <2>6. Dev(Si!Get(z)) /\ Silent(Si!Get(z), z) /\ (Si!Get(z).ok => z.ok /\ Si!Get(z).v = z.v)
      BY <2>5, GetIs DEF Dev, Silent
    <2>7. z.ok => Tuned(z, job, t)
      BY <1>2, <2>3, <2>5 DEF Tuned, n, Si!TonePll
    <2>8. Si!ConfigurePlan(w, job) = Si!Get(z)
      BY <1>1, <1>9
    <2> QED BY <1>7, <1>9, <2>3, <2>4, <2>5, <2>6, <2>7, <2>8 DEF Silent, Rest, Tuned, t
  <1> QED BY <1>8, <1>9

\* configure: once for all, behind quiet outputs when nothing is known of the chip.
LEMMA ConfigureIs ==
    ASSUME NEW w, Dev(w), NEW job \in Jobs
    PROVE  LET x == Si!Configure(w, job) IN
           /\ Dev(x) /\ Silent(x, w)
           /\ x.ok => /\ Tuned(x, job, Si!FirstTone(job)) /\ x.v.tx = "disabled"
                      /\ x.v.ref = w.v.ref \/ x.v.ref = "disabled"
  <1> DEFINE q == Si!Quiesce(w)
  <1>1. Si!Configure(w, job) =
          IF w.v.conf
          THEN IF w.v.pending # "none" \/ w.v.tx # "disabled" THEN Si!Refused(w)
               ELSE Si!ConfigurePlan(w, job)
          ELSE IF q.ok THEN Si!ConfigurePlan(q, job) ELSE q
    BY DEF Si!Configure, Si!Then
  <1>2. Dev(q) /\ Silent(q, w) /\ q.v.pending = "none"
        /\ (q.ok => q.v.tx = "disabled" /\ q.v.ref = "disabled")
    BY QuiesceIs
  <1> HIDE DEF q
  <1>3. CASE w.v.conf /\ (w.v.pending # "none" \/ w.v.tx # "disabled")
    BY <1>1, <1>3, RefusedIs DEF Dev
  <1>4. CASE w.v.conf /\ ~(w.v.pending # "none" \/ w.v.tx # "disabled")
    <2>1. ~board.ref => w.v.ref = "disabled"
      BY <1>4 DEF Dev, Believed
    <2> QED BY <1>1, <1>4, <2>1, ConfigurePlanIs
  <1>5. CASE ~w.v.conf /\ ~q.ok
    BY <1>1, <1>2, <1>5
  <1>6. CASE ~w.v.conf /\ q.ok
    <2> DEFINE x == Si!ConfigurePlan(q, job)
    <2>1. Dev(x) /\ Silent(x, q)
          /\ (x.ok => /\ Tuned(x, job, Si!FirstTone(job)) /\ x.v.tx = "disabled"
                      /\ x.v.ref = q.v.ref)
      BY <1>2, <1>6, ConfigurePlanIs
    <2>2. Si!Configure(w, job) = x
      BY <1>1, <1>6
    <2> HIDE DEF x
    <2> QED BY <1>2, <1>6, <2>1, <2>2 DEF Silent, Rest
  <1> QED BY <1>3, <1>4, <1>5, <1>6

\* enabled(false) of the transmit output: two writes, the second in any case.
LEMMA EnableTxOffIs ==
    ASSUME NEW w, Dev(w), w.ok
    PROVE  LET x == Si!EnableTx(w, FALSE) IN
           /\ Dev(x) /\ Silent(x, w)
           /\ x.ok => x.v.tx = "disabled" /\ x.v.ref = w.v.ref
  <1> DEFINE o == [w EXCEPT !.v.tx = "unknown"]
             x == Si!Put(o, [maskT |-> TRUE])
             a == Si!Again(x)
             y == Si!Put(a, [maskT |-> TRUE, downT |-> TRUE])
             z == [y EXCEPT !.v.tx = "disabled", !.v.pending = "none", !.v.primed = FALSE]
  <1>1. Si!EnableTx(w, FALSE) =
          IF ~w.v.conf THEN Si!Refused(w) ELSE IF ~x.ok \/ ~y.ok THEN Si!Refused(y) ELSE z
    BY DEF Si!EnableTx, Si!After
  <1>2. CASE ~w.v.conf
    BY <1>1, <1>2, RefusedIs DEF Dev
  <1>3. CASE w.v.conf
    <2>0. Si!EnableTx(w, FALSE) = IF ~x.ok \/ ~y.ok THEN Si!Refused(y) ELSE z
      BY <1>1, <1>3
    <2>1. o \in Devices /\ Rest(o, w) /\ o.c = w.c /\ o.ok = w.ok /\ o.v.tx = "unknown"
          /\ o.v.ref = w.v.ref /\ o.v.conf = w.v.conf /\ o.v.pll = w.v.pll /\ o.v.ms = w.v.ms
      BY DEF Dev, Devices, Beliefs, Levels3, Rest
    <2> HIDE DEF o
    <2>2. Transacted(x, o, [maskT |-> TRUE])
      BY <2>1, PutIs, LiteralSettings
    <2> HIDE DEF x
    <2>3. x \in Devices /\ Rest(x, w) /\ x.c.maskR = w.c.maskR /\ x.c.downR = w.c.downR
          /\ x.c.pll = w.c.pll /\ x.c.ms = w.c.ms
          /\ (x.v = o.v \/ Unknown(x.v)) /\ (x.ok => x.v = o.v /\ x.c.maskT)
      BY <2>1, <2>2 DEF Transacted, Wrote, Rest
    <2>4. a \in Devices /\ Rest(a, x) /\ a.c = x.c /\ a.v = x.v /\ a.ok
      BY <2>3 DEF Si!Again, Devices, Rest
    <2> HIDE DEF a
    <2>5. Transacted(y, a, [maskT |-> TRUE, downT |-> TRUE])
      BY <2>4, PutIs, LiteralSettings
    <2> HIDE DEF y
    <2>6. y \in Devices /\ Rest(y, w) /\ y.c.maskR = w.c.maskR /\ y.c.downR = w.c.downR
          /\ y.c.pll = w.c.pll /\ y.c.ms = w.c.ms
          /\ (y.ok => y.c.maskT /\ y.v = x.v) /\ (~y.ok => Unknown(y.v))
      BY <2>3, <2>4, <2>5, ZenonT(60) DEF Transacted, Wrote, Rest
    <2>7. CASE ~x.ok \/ ~y.ok
      <3>1. Unknown(y.v)
        BY <2>1, <2>2, <2>6, <2>7 DEF Transacted
      <3> DEFINE r == Si!Refused(y)
      <3>2. r \in Devices /\ Rest(r, y) /\ r.c = y.c /\ r.v = y.v /\ ~r.ok
        BY <2>6, RefusedIs
      <3>3. Si!EnableTx(w, FALSE) = r
        BY <2>0, <2>7
      <3> HIDE DEF r
      <3>4. Silent(r, w)
        BY <2>1, <2>6, <3>2 DEF Silent, Rest
      <3>5. ~board.ref => w.c.maskR
        BY DEF Dev, Believed
      <3>6. Dev(r)
        BY <2>6, <3>1, <3>2, <3>4, <3>5 DEF Dev, Believed, Unknown, Silent
      <3> QED BY <3>2, <3>3, <3>4, <3>6
    <2>8. CASE x.ok /\ y.ok
      <3>1. z \in Devices /\ Rest(z, y) /\ z.c = y.c /\ z.v.tx = "disabled"
            /\ z.v.pending = "none" /\ z.v.ref = y.v.ref /\ z.v.conf = y.v.conf
            /\ z.v.pll = y.v.pll /\ z.v.ms = y.v.ms
        BY <2>6 DEF Devices, Beliefs, Levels3, Rest
      <3>2. Si!EnableTx(w, FALSE) = z
        BY <2>0, <2>8
      <3> HIDE DEF z
      <3>3. z.v.ref = w.v.ref
            /\ z.v.pll = w.v.pll /\ z.v.ms = w.v.ms /\ z.v.conf
        BY <1>3, <2>1, <2>3, <2>6, <2>8, <3>1
      <3>4. Silent(z, w)
        BY <2>1, <2>3, <2>6, <3>1 DEF Silent, Rest
      <3>5. Dev(z)
        BY <1>3, <2>1, <2>3, <2>6, <2>8, <3>1, <3>3, <3>4 DEF Dev, Believed, Silent
      <3> QED BY <3>1, <3>2, <3>3, <3>4, <3>5
    <2> QED BY <2>7, <2>8
  <1> QED BY <1>2, <1>3

\* enabled of the reference output, off.
LEMMA EnableRefOffIs ==
    ASSUME NEW w, Dev(w), w.ok
    PROVE  LET x == Si!EnableRef(w, FALSE) IN
           /\ Dev(x) /\ Silent(x, w)
           /\ x.ok => x.v.ref = "disabled" /\ x.v.tx = w.v.tx
  <1> DEFINE o == [w EXCEPT !.v.ref = "unknown"]
             x == Si!Put(o, [maskR |-> TRUE])
             a == Si!Again(x)
             y == Si!Put(a, [maskR |-> TRUE, downR |-> TRUE])
             z == [y EXCEPT !.v.ref = "disabled"]
  <1>1. Si!EnableRef(w, FALSE) =
          IF ~w.v.conf THEN Si!Refused(w) ELSE IF ~x.ok \/ ~y.ok THEN Si!Refused(y) ELSE z
    BY DEF Si!EnableRef, Si!After
  <1>2. CASE ~w.v.conf
    BY <1>1, <1>2, RefusedIs DEF Dev
  <1>3. CASE w.v.conf
    <2>0. Si!EnableRef(w, FALSE) = IF ~x.ok \/ ~y.ok THEN Si!Refused(y) ELSE z
      BY <1>1, <1>3
    <2>1. o \in Devices /\ Rest(o, w) /\ o.c = w.c /\ o.ok = w.ok /\ o.v.ref = "unknown"
          /\ o.v.tx = w.v.tx /\ o.v.conf = w.v.conf /\ o.v.pll = w.v.pll /\ o.v.ms = w.v.ms
          /\ o.v.pending = w.v.pending
      BY DEF Dev, Devices, Beliefs, Levels3, Rest
    <2> HIDE DEF o
    <2>2. Transacted(x, o, [maskR |-> TRUE])
      BY <2>1, PutIs, LiteralSettings
    <2> HIDE DEF x
    <2>3. x \in Devices /\ Rest(x, w) /\ x.c.maskT = w.c.maskT /\ x.c.downT = w.c.downT
          /\ x.c.downR = w.c.downR /\ x.c.pll = w.c.pll /\ x.c.ms = w.c.ms
          /\ (w.c.maskR => x.c.maskR)
          /\ (x.v = o.v \/ Unknown(x.v)) /\ (x.ok => x.v = o.v)
      BY <2>1, <2>2 DEF Transacted, Wrote, Rest
    <2>4. a \in Devices /\ Rest(a, x) /\ a.c = x.c /\ a.v = x.v /\ a.ok
      BY <2>3 DEF Si!Again, Devices, Rest
    <2> HIDE DEF a
    <2>5. Transacted(y, a, [maskR |-> TRUE, downR |-> TRUE])
      BY <2>4, PutIs, LiteralSettings
    <2> HIDE DEF y
    <2>6. y \in Devices /\ Rest(y, w) /\ y.c.maskT = w.c.maskT /\ y.c.downT = w.c.downT
          /\ (w.c.downR => y.c.downR) /\ (w.c.maskR => y.c.maskR)
          /\ y.c.pll = w.c.pll /\ y.c.ms = w.c.ms
          /\ (y.ok => y.c.maskR /\ y.v = x.v) /\ (~y.ok => Unknown(y.v))
      BY <2>3, <2>4, <2>5, ZenonT(60) DEF Transacted, Wrote, Rest
    <2>7. CASE ~x.ok \/ ~y.ok
      <3>1. Unknown(y.v)
        BY <2>1, <2>2, <2>6, <2>7 DEF Transacted
      <3> DEFINE r == Si!Refused(y)
      <3>2. r \in Devices /\ Rest(r, y) /\ r.c = y.c /\ r.v = y.v /\ ~r.ok
        BY <2>6, RefusedIs
      <3>3. Si!EnableRef(w, FALSE) = r
        BY <2>0, <2>7
      <3> HIDE DEF r
      <3>4. Silent(r, w)
        BY <2>1, <2>6, <3>2 DEF Silent, Rest
      <3>5. ~board.ref => w.c.maskR
        BY DEF Dev, Believed
      <3>6. Dev(r)
        BY <2>6, <3>1, <3>2, <3>4, <3>5 DEF Dev, Believed, Unknown, Silent
      <3> QED BY <3>2, <3>3, <3>4, <3>6
    <2>8. CASE x.ok /\ y.ok
      <3>1. z \in Devices /\ Rest(z, y) /\ z.c = y.c /\ z.v.ref = "disabled"
            /\ z.v.pending = y.v.pending /\ z.v.tx = y.v.tx /\ z.v.conf = y.v.conf
            /\ z.v.pll = y.v.pll /\ z.v.ms = y.v.ms
        BY <2>6 DEF Devices, Beliefs, Levels3, Rest
      <3>2. Si!EnableRef(w, FALSE) = z
        BY <2>0, <2>8
      <3> HIDE DEF z
      <3>3. z.v.tx = w.v.tx /\ z.v.pending = w.v.pending
            /\ z.v.pll = w.v.pll /\ z.v.ms = w.v.ms /\ z.v.conf
        BY <1>3, <2>1, <2>3, <2>6, <2>8, <3>1, ZenonT(60)
      <3>4. Silent(z, w)
        BY <2>1, <2>3, <2>6, <3>1 DEF Silent, Rest
      <3>5. Dev(z)
        BY <1>3, <2>1, <2>3, <2>6, <2>8, <3>1, <3>3, <3>4 DEF Dev, Believed, Silent
      <3> QED BY <3>1, <3>2, <3>3, <3>4, <3>5
    <2> QED BY <2>7, <2>8
  <1> QED BY <1>2, <1>3

\* enabled of the reference output, on: the one operation that may turn it on.
LEMMA EnableRefOnIs ==
    ASSUME NEW w, Dev(w), board.ref
    PROVE  LET x == Si!EnableRef(w, TRUE) IN Dev(x) /\ Rest(x, w)
  <1> DEFINE o == [w EXCEPT !.v.ref = "unknown"]
             x == Si!Put(o, [downR |-> FALSE])
             y == Si!Put(x, [maskR |-> ~TRUE, downR |-> ~TRUE])
             z == [y EXCEPT !.v.ref = "enabled"]
             R == ~w.v.conf \/ (w.v.pending # "none" \/ ~w.v.refLock)
  <1>1. Si!EnableRef(w, TRUE) =
          IF R THEN Si!Refused(w) ELSE IF ~x.ok \/ ~y.ok THEN Si!Refused(y) ELSE z
    BY DEF Si!EnableRef, Si!After
  <1> HIDE DEF R
  <1>2. o \in Devices /\ Rest(o, w) /\ o.c = w.c /\ o.ok = w.ok /\ o.v.ref = "unknown"
        /\ o.v.tx = w.v.tx /\ o.v.conf = w.v.conf /\ o.v.pll = w.v.pll /\ o.v.ms = w.v.ms
        /\ o.v.pending = w.v.pending
    BY DEF Dev, Devices, Beliefs, Levels3, Rest
  <1> HIDE DEF o
  <1>3. Transacted(x, o, [downR |-> FALSE])
    BY <1>2, PutIs, LiteralSettings
  <1> HIDE DEF x
  <1>4. x \in Devices /\ Rest(x, w) /\ x.c.maskT = w.c.maskT /\ x.c.downT = w.c.downT
        /\ x.c.pll = w.c.pll /\ x.c.ms = w.c.ms /\ (x.v = o.v \/ Unknown(x.v))
    BY <1>2, <1>3 DEF Transacted, Wrote, Rest
  <1>5. Transacted(y, x, [maskR |-> ~TRUE, downR |-> ~TRUE])
    BY <1>4, PutIs, LiteralSettings
  <1> HIDE DEF y
  <1>6. y \in Devices /\ Rest(y, w) /\ y.c.maskT = w.c.maskT /\ y.c.downT = w.c.downT
        /\ y.c.pll = w.c.pll /\ y.c.ms = w.c.ms /\ (y.v = o.v \/ Unknown(y.v))
    BY <1>4, <1>5 DEF Transacted, Wrote, Rest
  <1>7. CASE R
    BY <1>1, <1>7, RefusedIs DEF Dev
  <1>8. CASE ~R /\ (~x.ok \/ ~y.ok)
    <2> DEFINE r == Si!Refused(y)
    <2>1. r \in Devices /\ Rest(r, y) /\ r.c = y.c /\ r.v = y.v
      BY <1>6, RefusedIs
    <2>2. Si!EnableRef(w, TRUE) = r
      BY <1>1, <1>8
    <2> HIDE DEF r
    <2>3. Dev(r)
      BY <1>2, <1>6, <2>1 DEF Dev, Believed, Unknown
    <2> QED BY <1>6, <2>1, <2>2, <2>3 DEF Rest
  <1>9. CASE ~R /\ ~(~x.ok \/ ~y.ok)
    <2>1. z \in Devices /\ Rest(z, y) /\ z.c = y.c /\ z.v.ref = "enabled"
          /\ z.v.pending = y.v.pending /\ z.v.tx = y.v.tx /\ z.v.conf = y.v.conf
          /\ z.v.pll = y.v.pll /\ z.v.ms = y.v.ms
      BY <1>6 DEF Devices, Beliefs, Levels3, Rest
    <2>2. Si!EnableRef(w, TRUE) = z
      BY <1>1, <1>9
    <2> HIDE DEF z
    <2>3. Dev(z)
      BY <1>2, <1>6, <2>1 DEF Dev, Believed, Unknown
    <2> QED BY <1>6, <2>1, <2>2, <2>3 DEF Rest
  <1> QED BY <1>7, <1>8, <1>9

\* reference_enabled, off: masked, or failed.
LEMMA ReferenceOffIs ==
    ASSUME NEW w, Dev(w), w.ok
    PROVE  LET x == Si!ReferenceEnabled(w, FALSE) IN
           /\ Dev(x) /\ Silent(x, w)
           /\ x.ok => x.c.maskR /\ x.v.tx = w.v.tx /\ (board.ref => x.v.ref = "disabled")
                      /\ (w.v.ref = "disabled" => x.v.ref = "disabled")
  <1>1. CASE board.ref
    <2>1. Si!ReferenceEnabled(w, FALSE) = Si!EnableRef(w, FALSE)
      BY <1>1 DEF Si!ReferenceEnabled
    <2> QED BY <1>1, <2>1, EnableRefOffIs DEF Dev, Believed
  <1>2. CASE ~board.ref
    <2> DEFINE x == [w EXCEPT !.ok = ~FALSE]
    <2>1. x \in Devices /\ Rest(x, w) /\ x.c = w.c /\ x.v = w.v
      BY DEF Dev, Devices, Rest
    <2>2. Si!ReferenceEnabled(w, FALSE) = x
      BY <1>2 DEF Si!ReferenceEnabled
    <2> HIDE DEF x
    <2> QED BY <1>2, <2>1, <2>2 DEF Dev, Believed, Silent
  <1> QED BY <1>1, <1>2

\* verify_transmit: what is believed afterwards is what the registers say.
LEMMA VerifyTransmitIs ==
    ASSUME NEW w, Dev(w)
    PROVE  LET x == Si!VerifyTransmit(w) IN
           /\ Dev(x) /\ Silent(x, w)
           /\ x.ok => /\ x.c = w.c /\ x.v.pll = w.v.pll /\ x.v.ms = w.v.ms
                      /\ x.v.ref = w.v.ref /\ x.v.pending = "none" /\ x.v.conf
                      /\ (w.v.tx = "disabled" \/ w.v.pending = "disable" => x.v.tx = "disabled")
  <1> DEFINE a == Si!Get(w)
             x == Si!Get(a)
             on == Si!TxOn(x)
             F == x.v.pending # "none" /\ (x.v.pending = "enable") # on
             bad == [x EXCEPT !.v = Si!Faulted(@), !.ok = FALSE]
             l == IF on THEN "enabled" ELSE "disabled"
             p == x.v.txConf /\ ~on /\ ~x.c.downT
             z == [x EXCEPT !.v.tx = l, !.v.pending = "none", !.v.primed = p]
             R == ~w.ok \/ ~w.v.conf \/ ~w.v.mask
  <1>1. Si!VerifyTransmit(w) =
          IF R THEN Si!Refused(w) ELSE IF ~x.ok THEN x ELSE IF F THEN bad ELSE z
    BY DEF Si!VerifyTransmit, Si!Then
  <1>2. on <=> ~x.c.maskT /\ ~x.c.downT
    BY DEF Si!TxOn
  <1>3. Dev(a) /\ Silent(a, w) /\ a.c = w.c /\ (a.ok => w.ok /\ a.v = w.v)
    BY GetIs DEF Dev, Silent
  <1> HIDE DEF a
  <1>4. Dev(x) /\ Silent(x, w) /\ x.c = w.c /\ (x.ok => w.ok /\ x.v = w.v)
    BY <1>3, GetIs DEF Dev, Silent, Rest
  <1> HIDE DEF x
  <1>5. p \in BOOLEAN /\ l \in Levels3 /\ (l = "enabled" <=> on) /\ (l = "disabled" <=> ~on)
    BY DEF Levels3
  <1>6. CASE R
    BY <1>1, <1>6, RefusedIs DEF Dev
  <1>7. CASE ~R /\ ~x.ok
    BY <1>1, <1>4, <1>7
  <1>8. CASE ~R /\ x.ok /\ F
    <2>1. bad \in Devices /\ Rest(bad, x) /\ bad.c = x.c /\ Unknown(bad.v) /\ ~bad.ok
      BY <1>4, FaultedIs DEF Dev, Devices, Rest
    <2>2. Si!VerifyTransmit(w) = bad
      BY <1>1, <1>8
    <2> HIDE DEF bad
    <2> QED BY <1>4, <2>1, <2>2 DEF Dev, Believed, Unknown, Silent, Rest
  <1>9. CASE ~R /\ x.ok /\ ~F
    <2>1. Si!VerifyTransmit(w) = z
      BY <1>1, <1>9
    <2>2. x.v.conf /\ (x.v.pending = "enable" => on) /\ (x.v.pending = "disable" => ~on)
      <3>1. w.v.conf
        BY <1>9 DEF Dev, Devices, Beliefs
      <3> QED BY <1>4, <1>9, <3>1
    <2> HIDE DEF l, p, on
    <2>3. z \in Devices /\ Rest(z, x) /\ z.c = x.c /\ z.ok = x.ok
      BY <1>4, <1>5 DEF Dev, Devices, Beliefs, Levels3, Rest
    <2>4. z.v.tx = l /\ z.v.pending = "none" /\ z.v.ref = x.v.ref /\ z.v.conf = x.v.conf
          /\ z.v.pll = x.v.pll /\ z.v.ms = x.v.ms
      BY <1>4 DEF Dev, Devices, Beliefs
    <2> HIDE DEF z
    <2>5. ~on => x.c.maskT
      BY <1>2, <1>4, <2>2 DEF Dev, Believed, Devices, Beliefs, Levels3
    <2>6. Dev(z)
      BY <1>2, <1>4, <1>5, <2>2, <2>3, <2>4, <2>5 DEF Dev, Believed
    <2>7. w.v.tx = "disabled" \/ w.v.pending = "disable" => l = "disabled"
      BY <1>2, <1>4, <1>5 DEF Dev, Believed
    <2> QED BY <1>4, <1>9, <2>1, <2>2, <2>3, <2>4, <2>6, <2>7 DEF Silent, Rest
  <1> QED BY <1>6, <1>7, <1>8, <1>9

\* prime_transmit: powered up, and still masked.
LEMMA PrimeTransmitIs ==
    ASSUME NEW w, Dev(w)
    PROVE  LET x == Si!PrimeTransmit(w) IN
           /\ Dev(x) /\ Silent(x, w)
           /\ x.ok => /\ x.v.tx = "disabled" /\ x.v.pll = w.v.pll /\ x.v.ms = w.v.ms
                      /\ x.v.ref = w.v.ref
  <1> DEFINE a == Si!VerifyTransmit(w)
             x == Si!Put(a, [downT |-> FALSE])
             z == [x EXCEPT !.v.primed = TRUE]
             R == \/ ~w.ok \/ ~w.v.conf \/ ~w.v.txConf \/ ~w.v.txLock \/ w.v.pending # "none"
                  \/ w.v.tx # "disabled" \/ ~w.v.mask
  <1>1. Si!PrimeTransmit(w) =
          IF R THEN Si!Refused(w) ELSE IF w.v.primed THEN w ELSE IF x.ok THEN z ELSE x
    BY DEF Si!PrimeTransmit, Si!Then
  <1>2. ~R => w.v.tx = "disabled"
    OBVIOUS
  <1> HIDE DEF R
  <1>3. Dev(a) /\ Silent(a, w)
        /\ (a.ok => /\ a.c = w.c /\ a.v.pll = w.v.pll /\ a.v.ms = w.v.ms
                    /\ a.v.ref = w.v.ref /\ a.v.pending = "none"
                    /\ (w.v.tx = "disabled" => a.v.tx = "disabled"))
    BY VerifyTransmitIs
  <1> HIDE DEF a
  <1>4. Transacted(x, a, [downT |-> FALSE])
    BY <1>3, PutIs, LiteralSettings DEF Dev
  <1> HIDE DEF x
  <1>5. x \in Devices /\ Rest(x, w) /\ x.c.maskT = a.c.maskT /\ x.c.maskR = a.c.maskR
        /\ x.c.downR = a.c.downR /\ x.c.pll = a.c.pll /\ x.c.ms = a.c.ms
        /\ (x.ok => x.v = a.v /\ a.ok)
        /\ (~a.ok => x = a) /\ (a.ok /\ ~x.ok => Unknown(x.v))
        /\ (x.c.downT = a.c.downT \/ ~x.c.downT)
    BY <1>3, <1>4 DEF Transacted, Wrote, Silent, Rest
  <1>6. Dev(x) /\ Silent(x, w)
    BY <1>3, <1>5 DEF Dev, Believed, Unknown, Silent
  <1>7. CASE R
    BY <1>1, <1>7, RefusedIs DEF Dev
  <1>8. CASE ~R /\ w.v.primed
    BY <1>1, <1>2, <1>8 DEF Silent, Rest
  <1>9. CASE ~R /\ ~w.v.primed /\ ~x.ok
    BY <1>1, <1>6, <1>9
  <1>10. CASE ~R /\ ~w.v.primed /\ x.ok
    <2>1. z \in Devices /\ Rest(z, x) /\ z.c = x.c /\ Alike(z.v, x.v)
      BY <1>6 DEF Dev, Devices, Beliefs, Rest, Alike
    <2>2. Si!PrimeTransmit(w) = z
      BY <1>1, <1>10
    <2> HIDE DEF z
    <2>3. Dev(z)
      BY <1>6, <2>1 DEF Dev, Believed, Alike
    <2> QED BY <1>2, <1>3, <1>5, <1>6, <1>10, <2>1, <2>2, <2>3 DEF Silent, Rest, Alike
  <1> QED BY <1>7, <1>8, <1>9, <1>10

\* request_transmit_enabled: until it is verified the output is uncertain.
LEMMA RequestIs ==
    ASSUME NEW w, Dev(w), NEW on \in BOOLEAN
    PROVE  LET x == Si!Request(w, on) IN
           /\ Dev(x) /\ Silent(x, w)
           /\ x.ok => /\ w.ok /\ x.v.pll = w.v.pll /\ x.v.ms = w.v.ms /\ x.v.ref = w.v.ref
                      /\ ~on => x.v.pending = "disable"
  <1> DEFINE o == [w EXCEPT !.v.tx = "unknown"]
             x == Si!Put(o, [maskT |-> ~on])
             l == IF on THEN "enable" ELSE "disable"
             z == [x EXCEPT !.v.pending = l]
             R == \/ ~w.ok \/ ~w.v.conf \/ ~w.v.mask
                  \/ on /\ (~w.v.txConf \/ ~w.v.primed \/ ~w.v.txLock \/ w.v.pending # "none"
                            \/ w.v.tx # "disabled")
  <1>1. Si!Request(w, on) = IF R THEN Si!Refused(w) ELSE IF x.ok THEN z ELSE x
    BY DEF Si!Request, Si!Then
  <1>2. ~R => w.ok /\ (on => w.v.pending = "none")
    BY DEF Dev, Devices
  <1> HIDE DEF R
  <1>3. o \in Devices /\ Rest(o, w) /\ o.c = w.c /\ o.ok = w.ok /\ o.v.tx = "unknown"
        /\ o.v.ref = w.v.ref /\ o.v.conf = w.v.conf /\ o.v.pll = w.v.pll /\ o.v.ms = w.v.ms
        /\ o.v.pending = w.v.pending
    BY DEF Dev, Devices, Beliefs, Levels3, Rest
  <1> HIDE DEF o
  <1>4. Transacted(x, o, [maskT |-> ~on])
    BY <1>3, PutIs, LiteralSettings
  <1> HIDE DEF x
  <1>5. x \in Devices /\ Rest(x, w) /\ x.c.maskR = w.c.maskR
        /\ x.c.downR = w.c.downR /\ x.c.pll = w.c.pll /\ x.c.ms = w.c.ms
        /\ (x.ok => x.v = o.v /\ w.ok /\ x.c.maskT = ~on) /\ (w.ok /\ ~x.ok => Unknown(x.v))
    BY <1>3, <1>4 DEF Transacted, Wrote, Rest
  <1>6. CASE R
    BY <1>1, <1>6, RefusedIs DEF Dev
  <1>7. CASE ~R /\ ~x.ok
    BY <1>1, <1>2, <1>5, <1>7 DEF Dev, Believed, Unknown, Silent
  <1>8. CASE ~R /\ x.ok
    <2>1. l \in {"none", "enable", "disable"} /\ l # "none" /\ (l = "disable" <=> ~on)
      OBVIOUS
    <2> HIDE DEF l
    <2>2. z \in Devices /\ Rest(z, x) /\ z.c = x.c /\ z.v.pending = l /\ z.v.tx = x.v.tx
          /\ z.v.ref = x.v.ref /\ z.v.conf = x.v.conf /\ z.v.pll = x.v.pll /\ z.v.ms = x.v.ms
      BY <1>5, <2>1 DEF Devices, Beliefs, Rest
    <2>3. Si!Request(w, on) = z
      BY <1>1, <1>8
    <2> HIDE DEF z
    <2>4. z.v.tx = "unknown" /\ z.v.ref = w.v.ref /\ z.v.conf = w.v.conf /\ z.v.pll = w.v.pll
          /\ z.v.ms = w.v.ms
      BY <1>3, <1>5, <1>8, <2>2
    <2>5. Silent(z, w)
      BY <1>5, <2>2 DEF Silent, Rest
    <2>6. Dev(z)
      BY <1>5, <1>8, <2>1, <2>2, <2>4, ZenonT(60) DEF Dev, Believed
    <2> QED BY <1>2, <1>8, <2>1, <2>2, <2>3, <2>4, <2>5, <2>6
  <1> QED BY <1>6, <1>7, <1>8

\* configure_reference: after a quiesce.
LEMMA ConfigureReferenceIs ==
    ASSUME NEW w, Dev(w)
    PROVE  LET x == Si!ConfigureReference(w) IN Dev(x) /\ Silent(x, w)
  <1> DEFINE q == Si!Quiesce(w)
             a == Si!Put(q, [downR |-> TRUE])
             x == Si!Get(a)
             z == [x EXCEPT !.v.conf = TRUE]
  <1>1. Si!ConfigureReference(w) = IF x.ok THEN z ELSE x
    BY DEF Si!ConfigureReference, Si!Then
  <1>2. Dev(q) /\ Silent(q, w) /\ (q.ok => q.v.tx = "disabled" /\ q.v.ref = "disabled")
    BY QuiesceIs
  <1> HIDE DEF q
  <1>3. Transacted(a, q, [downR |-> TRUE])
    BY <1>2, PutIs, LiteralSettings DEF Dev
  <1> HIDE DEF a
  <1>4. a \in Devices /\ Rest(a, q) /\ a.c.maskT = q.c.maskT /\ a.c.downT = q.c.downT
        /\ a.c.maskR = q.c.maskR /\ (a.c.downR \/ a.c.downR = q.c.downR)
        /\ a.c.pll = q.c.pll /\ a.c.ms = q.c.ms
        /\ (a.v = q.v \/ Unknown(a.v)) /\ (a.ok => q.ok /\ a.v = q.v)
    BY <1>2, <1>3 DEF Transacted, Wrote, Rest
  <1>5. Dev(a) /\ Silent(a, w)
    BY <1>2, <1>4 DEF Dev, Believed, Unknown, Silent, Rest
  <1>6. Dev(x) /\ Silent(x, w) /\ (x.ok => a.ok /\ x.v = a.v)
    BY <1>5, GetIs DEF Dev, Silent, Rest
  <1> HIDE DEF x
  <1>7. CASE x.ok
    <2>1. z \in Devices /\ Rest(z, x) /\ z.c = x.c /\ z.v.tx = x.v.tx /\ z.v.ref = x.v.ref
          /\ z.v.pending = x.v.pending /\ z.v.pll = x.v.pll /\ z.v.ms = x.v.ms
      BY <1>6 DEF Dev, Devices, Beliefs, Rest
    <2> HIDE DEF z
    <2>2. x.v.tx = "disabled" /\ x.v.ref = "disabled"
      BY <1>2, <1>4, <1>6, <1>7
    <2>3. Dev(z)
      BY <1>6, <2>1, <2>2 DEF Dev, Believed
    <2> QED BY <1>1, <1>6, <1>7, <2>1, <2>3 DEF Silent, Rest
  <1> QED BY <1>1, <1>6, <1>7

\* x is w but for the chip, the belief, the monitor; the reference at most silenced.
Quiet(x, w) ==
    /\ x.g = w.g /\ x.e = w.e /\ x.amp = w.amp /\ x.fil = w.fil /\ x.f = w.f
    /\ (w.c.maskR => x.c.maskR) /\ (w.c.downR => x.c.downR)

\* A result of the monitor is of its configuration.
FreshResult(y) == y.latest # -1 => y.latest = y.gen /\ ~y.inhibited

\* set_gate, cancel and arm of the cutoff: only the gate changes.
SameBoard(x, w) ==
    /\ x.c = w.c /\ x.v = w.v /\ x.e = w.e /\ x.m = w.m /\ x.amp = w.amp /\ x.fil = w.fil
    /\ x.f = w.f /\ x.lock = w.lock

\* set_gate
LEMMA SetGateIs ==
    ASSUME NEW w \in Devices, NEW on \in BOOLEAN
    PROVE  LET x == Si!SetGate(w, on) IN
           /\ x \in Devices /\ SameBoard(x, w)
           /\ x.g.cutoff = w.g.cutoff /\ x.g.expired = w.g.expired
           /\ x.ok => /\ w.ok /\ (on => ~w.g.expired) /\ (board.gate => x.g.pad = on)
           /\ (Dev(w) => Dev(x))
  <1> DEFINE x == Si!SetGate(w, on)
             a == [w EXCEPT !.ok = FALSE]
             b == [w EXCEPT !.g.unknown = TRUE, !.ok = FALSE]
             z == [w EXCEPT !.g.pad = on, !.g.active = on, !.g.unknown = FALSE]
             R == ~w.ok \/ (on /\ w.g.expired)
  <1>1. x = IF R THEN a ELSE IF ~board.gate THEN w ELSE IF w.f = "gate" THEN b ELSE z
    BY DEF Si!SetGate
  <1>2. ~R => w.ok /\ (on => ~w.g.expired)
    BY DEF Devices
  <1> HIDE DEF x, R
  <1>3. a \in Devices /\ SameBoard(a, w) /\ a.g = w.g /\ ~a.ok
    BY DEF Devices, SameBoard
  <1>4. b \in Devices /\ SameBoard(b, w) /\ ~b.ok /\ b.g.cutoff = w.g.cutoff
        /\ b.g.expired = w.g.expired
    BY DEF Devices, Gatings, SameBoard
  <1>5. z \in Devices /\ SameBoard(z, w) /\ z.ok = w.ok /\ z.g.cutoff = w.g.cutoff
        /\ z.g.expired = w.g.expired /\ z.g.pad = on
    BY DEF Devices, Gatings, SameBoard
  <1> HIDE DEF a, b, z
  <1>6. x \in Devices /\ SameBoard(x, w) /\ x.g.cutoff = w.g.cutoff
        /\ x.g.expired = w.g.expired
        /\ (x.ok => w.ok /\ (on => ~w.g.expired) /\ (board.gate => x.g.pad = on))
    <2>1. SameBoard(w, w)
      BY DEF SameBoard
    <2> QED BY <1>1, <1>2, <1>3, <1>4, <1>5, <2>1
  <1> QED BY <1>6 DEF x, Dev, Believed, SameBoard

\* cancel_cutoff
LEMMA CancelCutoffIs ==
    ASSUME NEW w \in Devices
    PROVE  LET x == Si!CancelCutoff(w) IN
           x \in Devices /\ SameBoard(x, w) /\ x.ok = w.ok /\ (Dev(w) => Dev(x))
  <1> DEFINE x == Si!CancelCutoff(w)
             n == -1
             y == [w.g EXCEPT !.cutoff = n, !.expired = FALSE]
  <1>0. x = [w EXCEPT !.g = y]
    BY DEF Si!CancelCutoff, Si!None, Devices
  <1> HIDE DEF x
  <1>3. n \in Int
    OBVIOUS
  <1> HIDE DEF n
  <1>2. y \in Gatings
    BY <1>3 DEF Devices, Gatings
  <1> HIDE DEF y
  <1>1. x \in Devices /\ SameBoard(x, w) /\ x.ok = w.ok
    BY <1>0, <1>2 DEF Devices, SameBoard
  <1> QED BY <1>1 DEF x, Dev, Believed, SameBoard

\* arm_cutoff: ahead, or refused.
LEMMA ArmCutoffIs ==
    ASSUME NEW w \in Devices, NEW at \in Int, clk \in Nat
    PROVE  LET x == Si!ArmCutoff(w, at) IN
           /\ x \in Devices /\ SameBoard(x, w) /\ (Dev(w) => Dev(x))
           /\ x.ok => w.ok /\ clk < at /\ x.g.cutoff = at /\ x.g.pad = w.g.pad
  <1> DEFINE x == Si!ArmCutoff(w, at)
             q == at <= clk /\ w.g.expired
             a == [w EXCEPT !.ok = FALSE, !.g.expired = q]
             z == [w EXCEPT !.g.cutoff = at, !.g.expired = FALSE]
  <1>1. x = IF ~w.ok \/ at <= clk \/ w.f = "alarm" THEN a ELSE z
    BY DEF Si!ArmCutoff
  <1> HIDE DEF x
  <1>2. q \in BOOLEAN
    OBVIOUS
  <1> HIDE DEF q
  <1>3. a \in Devices /\ SameBoard(a, w) /\ ~a.ok
    BY <1>2 DEF Devices, Gatings, SameBoard
  <1>4. z \in Devices /\ SameBoard(z, w) /\ z.ok = w.ok /\ z.g.cutoff = at /\ z.g.pad = w.g.pad
    BY DEF Devices, Gatings, SameBoard
  <1> HIDE DEF a, z
  <1>5. x \in Devices /\ SameBoard(x, w)
        /\ (x.ok => w.ok /\ clk < at /\ x.g.cutoff = at /\ x.g.pad = w.g.pad)
    BY <1>1, <1>3, <1>4
  <1> QED BY <1>5 DEF x, Dev, Believed, SameBoard

\* Again, and what the amplifier and the filters are told.
LEMMA AgainIs ==
    ASSUME NEW w \in Devices
    PROVE  LET x == Si!Again(w) IN
           x \in Devices /\ SameBoard(x, w) /\ x.g = w.g /\ x.ok /\ (Dev(w) => Dev(x))
  <1> DEFINE x == Si!Again(w)
  <1>1. x \in Devices /\ SameBoard(x, w) /\ x.g = w.g /\ x.ok
    BY DEF Si!Again, Devices, SameBoard
  <1> HIDE DEF x
  <1> QED BY <1>1 DEF x, Dev, Believed, SameBoard

\* An output that is switched off is one.
LEMMA DropIs ==
    ASSUME NEW o \in SiOutputs, NEW h \in BOOLEAN
    PROVE  Si!Drop(o, h) \in SiOutputs
  BY DEF Si!Drop, SiOutputs

\* An output that is switched on is on since now.
LEMMA RaiseIs ==
    ASSUME NEW o \in SiOutputs, NEW h \in BOOLEAN, clk \in Nat
    PROVE  LET x == Si!Raise(o, h) IN x \in SiOutputs /\ x.pad /\ x.since = clk /\ x.on = h
  BY DEF Si!Raise, SiOutputs

\* The chip, the belief, the gate, the engine and the monitor are the same.
SameCore(x, w) ==
    /\ x.c = w.c /\ x.v = w.v /\ x.g = w.g /\ x.e = w.e /\ x.m = w.m /\ x.f = w.f
    /\ x.ok = w.ok

\* The amplifier is switched off: nothing else changes.
LEMMA AmpDropIs ==
    ASSUME NEW w \in Devices
    PROVE  LET x == Si!AmpDrop(w) IN
           x \in Devices /\ SameCore(x, w) /\ x.fil = w.fil /\ (Dev(w) => Dev(x))
  <1> DEFINE x == Si!AmpDrop(w)
             o == Si!Drop(w.amp, w.f # "amp")
  <1>1. o \in SiOutputs
    BY DropIs DEF Devices
  <1>2. x = IF board.amp THEN [w EXCEPT !.amp = o] ELSE w
    BY DEF Si!AmpDrop
  <1> HIDE DEF x, o
  <1>3. x \in Devices /\ SameCore(x, w) /\ x.fil = w.fil
    BY <1>1, <1>2 DEF Devices, SameCore
  <1> QED BY <1>3 DEF x, Dev, Believed, SameCore

\* The filters are switched off: nothing else changes.
LEMMA FilDropIs ==
    ASSUME NEW w \in Devices
    PROVE  LET x == Si!FilDrop(w) IN
           x \in Devices /\ SameCore(x, w) /\ x.amp = w.amp /\ (Dev(w) => Dev(x))
  <1> DEFINE x == Si!FilDrop(w)
             o == Si!Drop(w.fil, w.f # "fil")
  <1>1. o \in SiOutputs
    BY DropIs DEF Devices
  <1>2. x = IF board.fil THEN [w EXCEPT !.fil = o] ELSE w
    BY DEF Si!FilDrop
  <1> HIDE DEF x, o
  <1>3. x \in Devices /\ SameCore(x, w) /\ x.amp = w.amp
    BY <1>1, <1>2 DEF Devices, SameCore
  <1> QED BY <1>3 DEF x, Dev, Believed, SameCore

\* A monitor that measures nothing keeps its result.
LEMMA IdledIs ==
    ASSUME NEW y \in Monitors
    PROVE  LET z == Si!Idled(y) IN
           z \in Monitors /\ z.latest = y.latest /\ z.gen = y.gen /\ z.inhibited = y.inhibited
           /\ z.faulted = y.faulted /\ z.retry = y.retry
  <1>1. Si!Idled(y) = [y EXCEPT !.measuring = FALSE, !.started = 0]
    BY DEF Si!Idled
  <1> DEFINE z == [y EXCEPT !.measuring = FALSE, !.started = 0]
  <1>2. z.latest = y.latest /\ z.gen = y.gen /\ z.inhibited = y.inhibited
           /\ z.faulted = y.faulted /\ z.retry = y.retry
    BY DEF Monitors
  <1>3. z \in Monitors
    <2> DEFINE a == [y EXCEPT !.measuring = FALSE]
               n == 0
    <2>1. a \in Monitors
      BY DEF Monitors
    <2>2. n \in Int
      OBVIOUS
    <2>3. z = [a EXCEPT !.started = n]
      OBVIOUS
    <2> HIDE DEF a, n, z
    <2> QED BY <2>1, <2>2, <2>3 DEF Monitors
  <1> QED BY <1>1, <1>2, <1>3

\* w with the monitor y, and with the result ok.
LEMMA WithMonitor ==
    ASSUME NEW w, Dev(w), NEW y \in Monitors
    PROVE  LET x == [w EXCEPT !.m = y] IN
           Dev(x) /\ Quiet(x, w) /\ x.c = w.c /\ x.v = w.v /\ x.m = y /\ x.ok = w.ok
  <1> DEFINE x == [w EXCEPT !.m = y]
  <1>1. x \in Devices /\ x.g = w.g /\ x.e = w.e /\ x.amp = w.amp /\ x.fil = w.fil /\ x.f = w.f
        /\ x.c = w.c /\ x.v = w.v /\ x.m = y /\ x.ok = w.ok
    BY DEF Dev, Devices
  <1> HIDE DEF x
  <1>2. Dev(x) /\ Quiet(x, w)
    BY <1>1 DEF Dev, Believed, Quiet
  <1> QED BY <1>1, <1>2 DEF x

\* w with the monitor y, and done.
LEMMA WithMonitorOk ==
    ASSUME NEW w, Dev(w), NEW y \in Monitors
    PROVE  LET x == [w EXCEPT !.m = y, !.ok = TRUE] IN
           Dev(x) /\ Quiet(x, w) /\ x.c = w.c /\ x.v = w.v /\ x.m = y /\ x.ok
  <1> DEFINE x == [w EXCEPT !.m = y, !.ok = TRUE]
  <1>1. x \in Devices /\ x.g = w.g /\ x.e = w.e /\ x.amp = w.amp /\ x.fil = w.fil /\ x.f = w.f
        /\ x.c = w.c /\ x.v = w.v /\ x.m = y /\ x.ok
    BY DEF Dev, Devices
  <1> HIDE DEF x
  <1>2. Dev(x) /\ Quiet(x, w)
    BY <1>1 DEF Dev, Believed, Quiet
  <1> QED BY <1>1, <1>2 DEF x

\* pause: when it succeeds the reference output is masked.
LEMMA PauseIs ==
    ASSUME NEW w, Dev(w), FreshResult(w.m)
    PROVE  LET x == Si!Pause(w) IN
           /\ Dev(x) /\ FreshResult(x.m) /\ Quiet(x, w)
           /\ x.ok => x.c.maskR /\ (x.v.conf => x.v.ref = "disabled")
           /\ w.v.ref = "disabled" => x.ok /\ x.c = w.c /\ x.v = w.v
  <1> DEFINE y == Si!Idled(w.m)
             i == [w EXCEPT !.m = y, !.ok = TRUE]
             j == [w EXCEPT !.m = y]
             r == IF w.v.conf THEN Si!ReferenceEnabled(i, FALSE) ELSE Si!Quiesce(j)
             z == [r EXCEPT !.m.latest = -1, !.m.faulted = TRUE]
  <1>1. Si!Pause(w) = IF w.v.ref = "disabled" THEN i ELSE IF r.ok THEN r ELSE z
    <2>1. Si!Idled(w.m) = y
      OBVIOUS
    <2> QED BY DEF Si!Pause, Si!After, Si!None
  <1>2. y \in Monitors /\ FreshResult(y)
    BY IdledIs DEF Dev, Devices, FreshResult
  <1> HIDE DEF y
  <1>3. Dev(i) /\ Quiet(i, w) /\ i.c = w.c /\ i.v = w.v /\ i.m = y /\ i.ok
    BY <1>2, WithMonitorOk
  <1>4. Dev(j) /\ Quiet(j, w) /\ j.c = w.c /\ j.v = w.v /\ j.m = y
    BY <1>2, WithMonitor
  <1> HIDE DEF i, j
  <1>5. Dev(r) /\ Quiet(r, w) /\ r.m = y /\ (r.ok => r.c.maskR)
        /\ (r.ok /\ r.v.conf => r.v.ref = "disabled")
    <2>1. CASE w.v.conf
      <3>1. Dev(r) /\ Silent(r, i)
            /\ (r.ok => r.c.maskR /\ (board.ref => r.v.ref = "disabled"))
        BY <1>3, <2>1, ReferenceOffIs
      <3> HIDE DEF r
      <3> QED BY <1>3, <3>1 DEF Dev, Believed, Quiet, Silent, Rest
    <2>2. CASE ~w.v.conf
      <3>1. Dev(r) /\ Silent(r, j) /\ (r.ok => r.c.maskR /\ r.v.ref = "disabled")
        BY <1>4, <2>2, QuiesceIs
      <3> HIDE DEF r
      <3> QED BY <1>4, <3>1 DEF Quiet, Silent, Rest
    <2> QED BY <2>1, <2>2
  <1> HIDE DEF r
  <1>6. CASE w.v.ref = "disabled"
    BY <1>1, <1>2, <1>3, <1>6 DEF Dev, Believed
  <1>7. CASE w.v.ref # "disabled" /\ r.ok
    BY <1>1, <1>2, <1>5, <1>7
  <1>8. CASE w.v.ref # "disabled" /\ ~r.ok
    <2> DEFINE n == -1
               s == [r.m EXCEPT !.latest = n, !.faulted = TRUE]
    <2>0. n \in Int /\ r.m \in Monitors
      BY <1>5 DEF Dev, Devices
    <2>3. z = [r EXCEPT !.m = s]
      BY <1>5 DEF Dev, Devices
    <2> HIDE DEF n, z
    <2>4. s \in Monitors /\ s.latest = n
      BY <2>0 DEF Monitors
    <2> HIDE DEF s
    <2>1. z \in Devices /\ z.ok = r.ok /\ z.c = r.c
          /\ z.v = r.v /\ z.g = r.g /\ z.e = r.e /\ z.amp = r.amp /\ z.fil = r.fil
          /\ z.f = r.f /\ z.m.latest = -1
      BY <1>5, <2>3, <2>4 DEF Dev, Devices, n
    <2>2. Si!Pause(w) = z
      BY <1>1, <1>8 DEF z, n
    <2> QED BY <1>5, <1>8, <2>1, <2>2 DEF Dev, Believed, Quiet, FreshResult
  <1> QED BY <1>6, <1>7, <1>8

\* A fault of the monitor: no result, and its output off as far as the bus allows.
LEMMA MonitorFaultIs ==
    ASSUME NEW w, Dev(w), clk \in Nat
    PROVE  LET x == Si!MonitorFault(w) IN
           Dev(x) /\ FreshResult(x.m) /\ Quiet(x, w)
  <1> DEFINE y == [Si!Idled(w.m) EXCEPT !.latest = -1, !.faulted = TRUE]
             i == [w EXCEPT !.m = y, !.ok = TRUE]
             r == Si!ReferenceEnabled(i, FALSE)
             z == [r EXCEPT !.m.retry = clk + 1]
  <1>1. Si!MonitorFault(w) = z
    BY DEF Si!MonitorFault, Si!None
  <1>2. y \in Monitors /\ y.latest = -1
    <2>1. Si!Idled(w.m) \in Monitors
      BY IdledIs DEF Dev, Devices
    <2> DEFINE n == -1
               o == Si!Idled(w.m)
    <2>2. n \in Int
      OBVIOUS
    <2> HIDE DEF n, o
    <2>3. [o EXCEPT !.latest = n, !.faulted = TRUE] \in Monitors
          /\ [o EXCEPT !.latest = n, !.faulted = TRUE].latest = n
      BY <2>1, <2>2 DEF Monitors, o
    <2> QED BY <2>3 DEF n, o
  <1> HIDE DEF y
  <1>3. Dev(i) /\ Quiet(i, w) /\ i.m = y /\ i.ok
    BY <1>2, WithMonitorOk
  <1> HIDE DEF i
  <1>4. Dev(r) /\ Silent(r, i)
    BY <1>3, ReferenceOffIs
  <1> HIDE DEF r
  <1>5. z \in Devices /\ z.c = r.c /\ z.v = r.v /\ z.g = r.g /\ z.e = r.e /\ z.amp = r.amp
        /\ z.fil = r.fil /\ z.f = r.f /\ z.m.latest = r.m.latest
    BY <1>4 DEF Dev, Devices, Monitors
  <1> HIDE DEF z
  <1> QED BY <1>1, <1>2, <1>3, <1>4, <1>5
          DEF Dev, Believed, Quiet, Silent, Rest, FreshResult

\* x is w but for the chip, the belief and the monitor.
Steady(x, w) == x.g = w.g /\ x.e = w.e /\ x.amp = w.amp /\ x.fil = w.fil

\* A window ends: its result is of the configuration it was measured under.
LEMMA ServiceWindowIs ==
    ASSUME NEW w, Dev(w), FreshResult(w.m), ~w.m.inhibited, clk \in Nat
    PROVE  LET x == Si!ServiceWindow(w) IN Dev(x) /\ FreshResult(x.m) /\ Steady(x, w)
  <1> DEFINE y == Si!Idled(w.m)
             i == [w EXCEPT !.m = y, !.ok = TRUE]
             r == Si!ReferenceEnabled(i, FALSE)
             s == [r.m EXCEPT !.latest = r.m.gen, !.faulted = FALSE]
             z == [r EXCEPT !.m = s]
  <1>1. Si!ServiceWindow(w) =
          IF ~w.v.conf \/ w.f = "capture" THEN Si!MonitorFault(w)
          ELSE IF clk - w.m.started < 1 THEN w
          ELSE IF ~r.ok \/ w.f = "measure" THEN Si!MonitorFault(r)
          ELSE [r EXCEPT !.m.latest = r.m.gen, !.m.faulted = FALSE]
    BY DEF Si!ServiceWindow, Si!After
  <1>2. y \in Monitors /\ ~y.inhibited
    BY IdledIs DEF Dev, Devices
  <1> HIDE DEF y
  <1>3. Dev(i) /\ Quiet(i, w) /\ i.m = y /\ i.ok
    BY <1>2, WithMonitorOk
  <1> HIDE DEF i
  <1>4. Dev(r) /\ Silent(r, i)
    BY <1>3, ReferenceOffIs
  <1> HIDE DEF r
  <1>5. r.m = y /\ Steady(r, w)
    BY <1>3, <1>4 DEF Silent, Rest, Quiet, Steady
  <1>6. s \in Monitors /\ FreshResult(s)
    BY <1>2, <1>5 DEF Monitors, FreshResult
  <1>7. [r EXCEPT !.m.latest = r.m.gen, !.m.faulted = FALSE] = z
    BY <1>4 DEF Dev, Devices
  <1> HIDE DEF s
  <1>8. Dev(z) /\ z.m = s /\ Quiet(z, r)
    BY <1>4, <1>6, WithMonitor
  <1> HIDE DEF z
  <1>9. Dev(Si!MonitorFault(w)) /\ FreshResult(Si!MonitorFault(w).m)
        /\ Steady(Si!MonitorFault(w), w)
    BY MonitorFaultIs DEF Quiet, Steady
  <1>10. Dev(Si!MonitorFault(r)) /\ FreshResult(Si!MonitorFault(r).m)
         /\ Steady(Si!MonitorFault(r), w)
    BY <1>4, <1>5, MonitorFaultIs DEF Quiet, Steady
  <1>11. Steady(z, w) /\ Steady(w, w)
    BY <1>5, <1>8 DEF Quiet, Steady
  <1> QED BY <1>1, <1>6, <1>7, <1>8, <1>9, <1>10, <1>11

\* A window begins; a new configuration has no result yet.
LEMMA ServiceStartIs ==
    ASSUME NEW w, Dev(w), FreshResult(w.m), clk \in Nat, board.ref
    PROVE  LET x == Si!ServiceStart(w) IN Dev(x) /\ FreshResult(x.m) /\ Steady(x, w)
  <1> DEFINE n == -1
             y == [w.m EXCEPT !.gen = 3 - w.m.gen, !.latest = n]
             i == [w EXCEPT !.m = y]
             r == IF w.v.conf THEN w
                  ELSE Si!ConfigureReference([w EXCEPT !.m.gen = 3 - @, !.m.latest = Si!None])
             x == Si!Locked(r)
             t == clk + 1
             mr == [x.m EXCEPT !.retry = t]
             a == Si!Again(x)
             z == Si!EnableRef(a, TRUE)
             ms == [z.m EXCEPT !.measuring = TRUE, !.started = clk]
  <1>0. n \in Int /\ t \in Int /\ w.m \in Monitors /\ clk \in Int
    BY DEF Dev, Devices
  <1>1. i = [w EXCEPT !.m.gen = 3 - @, !.m.latest = Si!None]
    BY DEF Si!None, Dev, Devices
  <1> HIDE DEF n, t
  <1>2. Si!ServiceStart(w) =
          IF ~x.v.conf THEN Si!MonitorFault(x)
          ELSE IF ~x.v.refLock THEN [x EXCEPT !.m.retry = t]
          ELSE IF ~z.ok \/ w.f = "capture" THEN Si!MonitorFault(z)
          ELSE [z EXCEPT !.m.measuring = TRUE, !.m.started = clk]
    BY DEF Si!ServiceStart, Si!After, t
  <1>3. y \in Monitors /\ FreshResult(y)
    <2> DEFINE h == 3 - w.m.gen
    <2>1. h \in Int
      BY <1>0 DEF Monitors
    <2> HIDE DEF h
    <2>2. y.latest = n
      BY <1>0 DEF Monitors
    <2>3. [w.m EXCEPT !.gen = h, !.latest = n] \in Monitors
      BY <1>0, <2>1 DEF Monitors
    <2> QED BY <2>2, <2>3 DEF FreshResult, n, h
  <1> HIDE DEF y
  <1>4. Dev(i) /\ Quiet(i, w) /\ i.m = y
    BY <1>3, WithMonitor
  <1> HIDE DEF i
  <1>5. Dev(r) /\ FreshResult(r.m) /\ Steady(r, w)
    <2>1. r = IF w.v.conf THEN w ELSE Si!ConfigureReference(i)
      BY <1>1
    <2> HIDE DEF r
    <2> QED BY <1>3, <1>4, <2>1, ConfigureReferenceIs DEF Silent, Rest, Quiet, Steady
  <1> HIDE DEF r
  <1>6. Dev(x) /\ FreshResult(x.m) /\ Steady(x, w)
    BY <1>5, LockedIs DEF Dev, Rest, Steady
  <1> HIDE DEF x
  <1>7. Dev(a) /\ a.m = x.m /\ Steady(a, w)
    BY <1>6, AgainIs DEF Dev, SameBoard, Steady
  <1> HIDE DEF a
  <1>8. Dev(z) /\ FreshResult(z.m) /\ Steady(z, w)
    BY <1>6, <1>7, EnableRefOnIs DEF Rest, Steady
  <1> HIDE DEF z
  <1>9. Dev(Si!MonitorFault(x)) /\ FreshResult(Si!MonitorFault(x).m)
        /\ Steady(Si!MonitorFault(x), w)
    BY <1>6, MonitorFaultIs DEF Quiet, Steady
  <1>10. Dev(Si!MonitorFault(z)) /\ FreshResult(Si!MonitorFault(z).m)
         /\ Steady(Si!MonitorFault(z), w)
    BY <1>8, MonitorFaultIs DEF Quiet, Steady
  <1>11. mr \in Monitors /\ FreshResult(mr)
    BY <1>0, <1>6 DEF Dev, Devices, Monitors, FreshResult
  <1>12. ms \in Monitors /\ FreshResult(ms)
    BY <1>0, <1>8 DEF Dev, Devices, Monitors, FreshResult
  <1>13. [x EXCEPT !.m.retry = t] = [x EXCEPT !.m = mr]
    BY <1>6 DEF Dev, Devices
  <1>14. [z EXCEPT !.m.measuring = TRUE, !.m.started = clk] = [z EXCEPT !.m = ms]
    BY <1>8 DEF Dev, Devices
  <1> HIDE DEF mr, ms
  <1> DEFINE p == [x EXCEPT !.m = mr]
             q == [z EXCEPT !.m = ms]
  <1>15. Dev(p) /\ p.m = mr /\ Quiet(p, x)
    BY <1>6, <1>11, WithMonitor
  <1>16. Dev(q) /\ q.m = ms /\ Quiet(q, z)
    BY <1>8, <1>12, WithMonitor
  <1>17. Si!ServiceStart(w) \in {Si!MonitorFault(x), p, Si!MonitorFault(z), q}
    BY <1>2, <1>13, <1>14
  <1> HIDE DEF p, q
  <1>18. Steady(p, w) /\ Steady(q, w)
    BY <1>6, <1>8, <1>15, <1>16 DEF Quiet, Steady
  <1> QED BY <1>9, <1>10, <1>11, <1>12, <1>15, <1>16, <1>17, <1>18

\* service: the chip, the belief and the monitor change, no more.
LEMMA ServiceIs ==
    ASSUME NEW w, Dev(w), FreshResult(w.m), clk \in Nat
    PROVE  LET x == Si!Service(w) IN Dev(x) /\ FreshResult(x.m) /\ Steady(x, w)
  <1>1. Si!Service(w) \in {w, Si!ServiceWindow(w), Si!ServiceStart(w)}
        /\ (Si!Service(w) = w
              \/ (~w.m.inhibited /\ Si!Service(w) = Si!ServiceWindow(w))
              \/ (board.ref /\ Si!Service(w) = Si!ServiceStart(w)))
    BY DEF Si!Service
  <1>2. CASE Si!Service(w) = w
    BY <1>2 DEF Steady
  <1>3. CASE ~w.m.inhibited /\ Si!Service(w) = Si!ServiceWindow(w)
    BY <1>3, ServiceWindowIs
  <1>4. CASE board.ref /\ Si!Service(w) = Si!ServiceStart(w)
    BY <1>4, ServiceStartIs
  <1> QED BY <1>1, <1>2, <1>3, <1>4

\* w with the engine y.
LEMMA WithEngine ==
    ASSUME NEW w, Dev(w), NEW y \in Engines
    PROVE  LET x == [w EXCEPT !.e = y] IN
           /\ Dev(x) /\ x.c = w.c /\ x.v = w.v /\ x.g = w.g /\ x.m = w.m /\ x.amp = w.amp
           /\ x.fil = w.fil /\ x.e = y /\ x.ok = w.ok /\ x.f = w.f
  <1> DEFINE x == [w EXCEPT !.e = y]
  <1>1. x \in Devices /\ x.c = w.c /\ x.v = w.v /\ x.g = w.g /\ x.m = w.m /\ x.amp = w.amp
        /\ x.fil = w.fil /\ x.e = y /\ x.ok = w.ok /\ x.f = w.f
    BY DEF Dev, Devices
  <1> HIDE DEF x
  <1> QED BY <1>1 DEF Dev, Believed, x

\* The engine without a job.
LEMMA ClearedIs ==
    ASSUME NEW y \in Engines
    PROVE  LET x == Si!Cleared(y) IN
           /\ x \in Engines /\ x.st = "Idle" /\ x.plan = Si!NoPlan /\ x.event = 1
           /\ x.release = -1 /\ x.selection = -1 /\ x.enable = -1
           /\ x.suspended = y.suspended
  <1> DEFINE n == -1
             o == 0
             i == 1
             p == Si!NoPlan
             a == [y EXCEPT !.st = "Idle", !.phase = "Inactive"]
             b == [a EXCEPT !.plan = p, !.primed = "none"]
             c == [b EXCEPT !.start = o, !.end = o, !.deadline = o]
             d0 == [c EXCEPT !.release = n, !.selection = n, !.enable = n]
             z == [d0 EXCEPT !.tail = n, !.launch = n, !.event = i]
  <1>1. Si!Cleared(y) = z
    BY DEF Si!Cleared, Si!None, Si!NoTone
  <1>2. n \in Int /\ o \in Int /\ i \in Nat
    OBVIOUS
  <1> HIDE DEF n, o, i, p
  <1>3. a \in Engines /\ a.st = "Idle" /\ a.suspended = y.suspended
    BY DEF Engines, Phases
  <1> HIDE DEF a
  <1>4. b \in Engines /\ b.st = a.st /\ b.plan = p /\ b.suspended = a.suspended
    BY <1>3 DEF Engines, Names, p
  <1> HIDE DEF b
  <1>5. c \in Engines /\ c.st = b.st /\ c.plan = b.plan /\ c.suspended = b.suspended
    BY <1>2, <1>4 DEF Engines
  <1> HIDE DEF c
  <1>6. d0 \in Engines /\ d0.st = c.st /\ d0.plan = c.plan /\ d0.suspended = c.suspended
        /\ d0.release = n /\ d0.selection = n /\ d0.enable = n
    BY <1>2, <1>5 DEF Engines
  <1> HIDE DEF d0
  <1>7. z \in Engines /\ z.st = d0.st /\ z.plan = d0.plan /\ z.suspended = d0.suspended
    BY <1>2, <1>6 DEF Engines
  <1>8. z.release = d0.release /\ z.selection = d0.selection /\ z.enable = d0.enable
        /\ z.event = i
    BY <1>2, <1>6 DEF Engines
  <1> HIDE DEF z
  <1> QED BY <1>1, <1>3, <1>4, <1>5, <1>6, <1>7, <1>8 DEF n, i, p

\* disable, the clocks: whatever fails, what is masked stays masked.
LEMMA ClocksIs ==
    ASSUME NEW w, Dev(w)
    PROVE  LET x == Si!Clocks(w) IN Dev(x) /\ Silent(x, w)
  <1> DEFINE a == Si!Again(w)
             x == Si!EnableTx(a, FALSE)
             b == Si!Again(x)
             y == Si!ReferenceEnabled(b, FALSE)
  <1>1. Si!Clocks(w) =
          IF w.f = "open" THEN Si!Refused(w)
          ELSE IF ~w.v.conf THEN Si!Quiesce(w)
          ELSE IF x.ok /\ y.ok THEN y ELSE IF y.v.conf THEN Si!Refused(y) ELSE Si!Quiesce(y)
    BY DEF Si!Clocks, Si!After
  <1>2. Dev(a) /\ Silent(a, w) /\ a.ok
    BY AgainIs DEF Dev, SameBoard, Silent, Rest
  <1> HIDE DEF a
  <1>3. Dev(x) /\ Silent(x, w)
    BY <1>2, EnableTxOffIs DEF Silent, Rest
  <1> HIDE DEF x
  <1>4. Dev(b) /\ Silent(b, w) /\ b.ok
    BY <1>3, AgainIs DEF Dev, SameBoard, Silent, Rest
  <1> HIDE DEF b
  <1>5. Dev(y) /\ Silent(y, w)
    BY <1>4, ReferenceOffIs DEF Silent, Rest
  <1> HIDE DEF y
  <1>6. Dev(Si!Refused(w)) /\ Silent(Si!Refused(w), w)
    BY RefusedIs DEF Dev
  <1>7. Dev(Si!Quiesce(w)) /\ Silent(Si!Quiesce(w), w)
    BY QuiesceIs
  <1>8. Dev(Si!Refused(y)) /\ Silent(Si!Refused(y), y)
    BY <1>5, RefusedIs DEF Dev
  <1>9. Dev(Si!Quiesce(y)) /\ Silent(Si!Quiesce(y), y)
    BY <1>5, QuiesceIs
  <1>10. Silent(Si!Refused(y), w) /\ Silent(Si!Quiesce(y), w)
    BY <1>5, <1>8, <1>9 DEF Silent, Rest
  <1> QED BY <1>1, <1>5, <1>6, <1>7, <1>8, <1>9, <1>10

\* No job, or a failed one.
Safe(x) ==
    /\ Dev(x) /\ FreshResult(x.m)
    /\ \/ x.e.st = "Failed"
       \/ x.e.st \in {"Idle", "Missed"} /\ x.e.plan = Si!NoPlan /\ x.c.maskR

\* disable: idle with the reference masked, or failed.
LEMMA DisableIs ==
    ASSUME NEW w, Dev(w), FreshResult(w.m)
    PROVE  LET x == Si!Disable(w) IN Safe(x) /\ (x.ok => x.e.st = "Idle")
  <1> DEFINE h == Si!Again(w)
             u == Si!CancelCutoff(h)
             a == Si!SetGate(u, FALSE)
             i == Si!Again(a)
             b == Si!AmpDrop(i)
             p == Si!Pause(b)
             k0 == Si!Clocks(p)
             z == IF k0.ok THEN Si!FilDrop(k0) ELSE k0
             y == [Si!Cleared(z.e) EXCEPT !.req = FALSE, !.ack = FALSE]
             on == [z EXCEPT !.e = y]
             q == [z.e EXCEPT !.st = "Failed", !.phase = "Fault"]
             off == [z EXCEPT !.e.st = "Failed", !.e.phase = "Fault", !.ok = FALSE]
             B == a.ok /\ p.ok /\ z.ok /\ ~Si!OutputActive(z)
  <1>1. Si!Disable(w) = IF B
                        THEN [z EXCEPT !.e = [Si!Cleared(@) EXCEPT !.req = FALSE, !.ack = FALSE]]
                        ELSE off
    BY DEF Si!Disable, Si!After, Si!Then
  <1>2. B => p.ok
    OBVIOUS
  <1> HIDE DEF B
  <1>3. Dev(h) /\ h.m = w.m
    BY AgainIs DEF Dev, SameBoard
  <1> HIDE DEF h
  <1>4. Dev(u) /\ u.m = w.m
    BY <1>3, CancelCutoffIs DEF Dev, SameBoard
  <1> HIDE DEF u
  <1>5. Dev(a) /\ a.m = w.m
    BY <1>4, SetGateIs DEF Dev, SameBoard
  <1> HIDE DEF a
  <1>6. Dev(i) /\ i.m = w.m
    BY <1>5, AgainIs DEF Dev, SameBoard
  <1> HIDE DEF i
  <1>7. Dev(b) /\ b.m = w.m
    BY <1>6, AmpDropIs DEF Dev, SameCore
  <1> HIDE DEF b
  <1>8. Dev(p) /\ FreshResult(p.m) /\ (p.ok => p.c.maskR)
    BY <1>7, PauseIs
  <1> HIDE DEF p
  <1>9. Dev(k0) /\ Silent(k0, p)
    BY <1>8, ClocksIs
  <1> HIDE DEF k0
  <1>10. Dev(z) /\ FreshResult(z.m) /\ (p.ok => z.c.maskR)
    BY <1>8, <1>9, FilDropIs DEF Dev, Silent, Rest, SameCore
  <1> HIDE DEF z
  <1>11. CASE B
    <2>1. Si!Disable(w) = on
      BY <1>1, <1>10, <1>11 DEF Dev, Devices
    <2> DEFINE r == Si!Cleared(z.e)
    <2>2. r \in Engines /\ r.st = "Idle" /\ r.plan = Si!NoPlan
      BY <1>10, ClearedIs DEF Dev, Devices
    <2> HIDE DEF r
    <2>3. [r EXCEPT !.req = FALSE, !.ack = FALSE] \in Engines
          /\ [r EXCEPT !.req = FALSE, !.ack = FALSE].st = "Idle"
          /\ [r EXCEPT !.req = FALSE, !.ack = FALSE].plan = Si!NoPlan
      BY <2>2 DEF Engines
    <2>4. y \in Engines /\ y.st = "Idle" /\ y.plan = Si!NoPlan
      BY <2>3 DEF r
    <2> HIDE DEF y
    <2>5. Dev(on) /\ on.e = y /\ on.c = z.c /\ on.m = z.m
      BY <1>10, <2>4, WithEngine
    <2> HIDE DEF on
    <2> QED BY <1>2, <1>10, <1>11, <2>1, <2>4, <2>5 DEF Safe
  <1>12. CASE ~B
    <2>1. q \in Engines /\ q.st = "Failed"
      BY <1>10 DEF Dev, Devices, Engines, Phases
    <2>2. off = [z EXCEPT !.e = q, !.ok = FALSE]
      BY <1>10 DEF Dev, Devices
    <2> HIDE DEF q, off
    <2>3. off \in Devices /\ off.c = z.c /\ off.v = z.v /\ off.m = z.m /\ off.e = q
          /\ ~off.ok
      BY <1>10, <2>1, <2>2 DEF Dev, Devices
    <2> QED BY <1>1, <1>10, <1>12, <2>1, <2>3 DEF Safe, Dev, Believed
  <1> QED BY <1>11, <1>12

\* fail
LEMMA FailIs ==
    ASSUME NEW w, Dev(w), FreshResult(w.m), NEW o \in {"Failed", "Missed"}
    PROVE  Safe(Si!Fail(w, o))
  <1> DEFINE x == Si!Disable(w)
             s == IF x.ok THEN o ELSE "Failed"
             q == [x.e EXCEPT !.st = s, !.phase = "Fault"]
             z == [x EXCEPT !.e.st = s, !.e.phase = "Fault", !.ok = FALSE]
  <1>1. Si!Fail(w, o) = z
    BY DEF Si!Fail, Si!After
  <1>2. Safe(x) /\ (x.ok => x.e.st = "Idle")
    BY DisableIs
  <1>8. s = "Failed" \/ (s = o /\ x.ok)
    OBVIOUS
  <1> HIDE DEF x
  <1> HIDE DEF s
  <1>3. s \in {"Failed", "Missed"} /\ (s # "Failed" => x.e.st = "Idle")
    BY <1>2, <1>8
  <1>4. q \in Engines /\ q.st = s /\ q.plan = x.e.plan
    BY <1>2, <1>3 DEF Safe, Dev, Devices, Engines, Phases
  <1>5. z = [x EXCEPT !.e = q, !.ok = FALSE]
    BY <1>2 DEF Safe, Dev, Devices
  <1> HIDE DEF q, z
  <1>6. z \in Devices /\ z.c = x.c /\ z.v = x.v /\ z.m = x.m /\ z.e = q
    BY <1>2, <1>4, <1>5 DEF Safe, Dev, Devices
  <1>7. Dev(z)
    BY <1>2, <1>6 DEF Safe, Dev, Believed
  <1> QED BY <1>1, <1>2, <1>3, <1>4, <1>6, <1>7 DEF Safe

\* A job is prepared: the chip is tuned to its first tone, both outputs are off.
Ready(w) ==
    /\ w.e.plan \in Jobs /\ Tuned(w, w.e.plan, w.e.primed)
    /\ w.e.primed = Si!FirstTone(w.e.plan)
    /\ w.v.tx = "disabled" /\ w.v.ref = "disabled"

\* The start is awaited: what is on has been since its phase.
Waiting(w, b) ==
    /\ Ready(w) /\ w.e.event = 1
    /\ b.amp /\ w.e.enable # -1 => w.amp.pad /\ w.amp.since = w.e.enable
    /\ w.e.release = -1 => w.e.selection = -1
    /\ b.fil /\ w.e.selection # -1 => w.fil.pad /\ w.fil.since = w.e.selection

\* The chip follows the events.
InTune(w) ==
    /\ w.e.plan \in Jobs /\ Tuned(w, w.e.plan, w.e.primed)
    /\ w.e.event \in DOMAIN w.e.plan.tone
    /\ IF w.e.plan.tone[w.e.event] = "off" THEN w.v.tx = "disabled"
       ELSE w.e.primed = w.e.plan.tone[w.e.event]
    /\ w.e.phase = "Tail" => w.v.tx = "disabled"

\* The chain is ready; a gate that is open has its cutoff ahead.
InChain(w, b, t) ==
    /\ w.e.end = w.e.start + Step * Len(w.e.plan.tone)
    /\ b.amp => w.amp.pad /\ t - w.amp.since >= AmpLead
    /\ b.fil => w.fil.pad /\ t - w.fil.since >= Settle
    /\ b.gate => \/ w.g.cutoff = w.e.end /\ t <= w.e.end
                 \/ w.g.expired /\ ~w.g.pad

\* The invariant of a world on the board b at time t.
SiGood(w, b, t) ==
    /\ w \in Devices /\ Believed(w, b) /\ FreshResult(w.m)
    /\ w.c.maskR \/ w.c.downR \/ w.e.st = "Failed" \/ (w.e.plan = Si!NoPlan /\ ~w.e.suspended)
    /\ w.e.st = "Idle" /\ w.e.plan # Si!NoPlan => Ready(w)
    /\ w.e.st = "Armed" => Waiting(w, b)
    /\ w.e.st = "Running" => InTune(w) /\ InChain(w, b, t)

\* No job is held to nothing but quiet.
LEMMA SafeIsGood ==
    ASSUME NEW x, Safe(x)
    PROVE  SiGood(x, board, clk)
  BY DEF Safe, SiGood, Dev

\* A step that is done, or the failure of the job.
LEMMA OrFailIs ==
    ASSUME NEW w, Dev(w), FreshResult(w.m), w.ok => SiGood(w, board, clk)
    PROVE  SiGood(Si!OrFail(w), board, clk)
  BY FailIs, SafeIsGood DEF Si!OrFail

\* No job is the plan of none.
LEMMA NoPlanIsNoJob == Si!NoPlan \notin Jobs
  <1>1. \A job \in Jobs : DOMAIN job.tone # {}
    BY SiAssumption
  <1>2. Si!NoPlan.tone = <<>>
    BY DEF Si!NoPlan
  <1> QED BY <1>1, <1>2

\* prepare
LEMMA PrepareIs ==
    ASSUME NEW w, Dev(w), FreshResult(w.m), w.e.st = "Idle", NEW job \in Jobs
    PROVE  SiGood(Si!PrepareOf(w, job), board, clk)
  <1> DEFINE t == Si!FirstTone(job)
             n == -1
             a == Si!Pause(w)
             s == Si!SetGate(a, FALSE)
             y == IF s.v.conf THEN Si!EnableTx(s, FALSE) ELSE Si!Quiesce(s)
             z == Si!Configure(y, job)
             l == Si!Locked(z)
             p == Si!PrimeTransmit(l)
             r == [p EXCEPT !.e.plan = job, !.e.primed = t, !.e.launch = n]
             f == IF s.ok THEN IF y.ok THEN IF z.ok THEN IF p.ok THEN r ELSE p ELSE z ELSE y ELSE s
  <1>1. Si!PrepareOf(w, job) = Si!OrFail(f)
    BY DEF Si!PrepareOf, Si!Then, Si!None
  <1>2. t \in Si!Tones(job) /\ t \in Names /\ n \in Int
    BY FirstToneIs, ToneNames
  <1> HIDE DEF t, n
  <1>3. Dev(a) /\ FreshResult(a.m) /\ a.e = w.e /\ (a.ok /\ a.v.conf => a.v.ref = "disabled")
    BY PauseIs DEF Quiet
  <1> HIDE DEF a
  <1>4. Dev(s) /\ FreshResult(s.m) /\ s.e = w.e
        /\ (s.ok /\ s.v.conf => s.v.ref = "disabled")
    BY <1>3, SetGateIs DEF Dev, SameBoard
  <1> HIDE DEF s
  <1>5. s.ok => Dev(y) /\ FreshResult(y.m) /\ y.e = w.e /\ (y.ok => y.v.ref = "disabled")
    <2> SUFFICES ASSUME s.ok PROVE Dev(y) /\ FreshResult(y.m) /\ y.e = w.e
                                   /\ (y.ok => y.v.ref = "disabled")
      OBVIOUS
    <2>1. CASE s.v.conf
      <3>1. Dev(y) /\ Silent(y, s) /\ (y.ok => y.v.ref = s.v.ref)
        BY <1>4, <2>1, EnableTxOffIs
      <3> HIDE DEF y
      <3> QED BY <1>4, <2>1, <3>1 DEF Silent, Rest
    <2>2. CASE ~s.v.conf
      <3>1. Dev(y) /\ Silent(y, s) /\ (y.ok => y.v.ref = "disabled")
        BY <1>4, <2>2, QuiesceIs
      <3> HIDE DEF y
      <3> QED BY <1>4, <3>1 DEF Silent, Rest
    <2> QED BY <2>1, <2>2
  <1> HIDE DEF y
  <1>6. s.ok /\ y.ok => Dev(z) /\ FreshResult(z.m) /\ z.e = w.e
                        /\ (z.ok => Tuned(z, job, t) /\ z.v.ref = "disabled")
    <2>1. Dev(y) => /\ Dev(z) /\ Silent(z, y)
                    /\ z.ok => Tuned(z, job, t) /\ (z.v.ref = y.v.ref \/ z.v.ref = "disabled")
      BY ConfigureIs DEF t
    <2> HIDE DEF z
    <2> QED BY <1>5, <2>1 DEF Silent, Rest
  <1> HIDE DEF z
  <1>7. s.ok /\ y.ok /\ z.ok =>
          Dev(p) /\ FreshResult(p.m) /\ p.e = w.e
          /\ (p.ok => p.v.tx = "disabled" /\ Tuned(p, job, t) /\ p.v.ref = "disabled")
    <2> SUFFICES ASSUME s.ok, y.ok, z.ok
                 PROVE  Dev(p) /\ FreshResult(p.m) /\ p.e = w.e
                        /\ (p.ok => p.v.tx = "disabled" /\ Tuned(p, job, t) /\ p.v.ref = "disabled")
      OBVIOUS
    <2>1. Dev(l) /\ Rest(l, z) /\ (Unknown(l.v) \/ Alike(l.v, z.v)) /\ (l.ok => Alike(l.v, z.v))
      BY <1>6, LockedIs DEF Dev
    <2>2. p.ok => l.ok
      BY DEF Si!PrimeTransmit, Si!Refused, Si!Then
    <2> HIDE DEF l
    <2>3. Dev(p) /\ Silent(p, l)
          /\ (p.ok => p.v.tx = "disabled" /\ p.v.pll = l.v.pll /\ p.v.ms = l.v.ms
                      /\ p.v.ref = l.v.ref)
      BY <2>1, PrimeTransmitIs
    <2> HIDE DEF p
    <2> QED BY <1>6, <2>1, <2>2, <2>3 DEF Silent, Rest, Alike, Tuned
  <1> HIDE DEF p
  <1>8. s.ok /\ y.ok /\ z.ok /\ p.ok => SiGood(r, board, clk) /\ Dev(r) /\ FreshResult(r.m)
    <2> SUFFICES ASSUME s.ok, y.ok, z.ok, p.ok
                 PROVE  SiGood(r, board, clk) /\ Dev(r) /\ FreshResult(r.m)
      OBVIOUS
    <2> DEFINE g == [p.e EXCEPT !.plan = job, !.primed = t, !.launch = n]
    <2>1. r = [p EXCEPT !.e = g]
      BY <1>7 DEF Dev, Devices
    <2>2. g \in Engines /\ g.plan = job /\ g.primed = t /\ g.st = "Idle"
      BY <1>2, <1>7 DEF Dev, Devices, Engines
    <2> HIDE DEF g, r
    <2>3. Dev(r) /\ r.c = p.c /\ r.v = p.v /\ r.m = p.m /\ r.e = g
      BY <1>7, <2>1, <2>2, WithEngine
    <2>4. p.c.maskR
      BY <1>7 DEF Dev, Believed
    <2>5. Ready(r)
      BY <1>7, <2>2, <2>3 DEF Ready, Tuned, t
    <2> QED BY <1>7, <2>2, <2>3, <2>4, <2>5 DEF SiGood, Dev
  <1> HIDE DEF r
  <1>9. Dev(f) /\ FreshResult(f.m) /\ (f.ok => SiGood(f, board, clk))
    BY <1>4, <1>5, <1>6, <1>7, <1>8
  <1> HIDE DEF f
  <1> QED BY <1>1, <1>9, OrFailIs

\* begin: a prepared job has nothing to pause.
LEMMA BeginIs ==
    ASSUME NEW w, SiGood(w, board, clk), w.e.st = "Idle", w.e.plan # Si!NoPlan, NEW start \in Int
    PROVE  SiGood(Si!BeginOf(w, start), board, clk)
  <1> DEFINE x == Si!Pause(w)
             l == start + Window
             k0 == Si!Cleared(x.e)
             y == [k0 EXCEPT !.st = "Armed", !.phase = "Waiting", !.plan = w.e.plan,
                             !.primed = w.e.primed, !.start = start, !.deadline = l]
             z == [x EXCEPT !.e = y]
  <1>1. Si!BeginOf(w, start) = Si!OrFail(IF x.ok THEN z ELSE x)
    BY DEF Si!BeginOf, Si!Then
  <1>2. Dev(w) /\ FreshResult(w.m) /\ Ready(w)
    BY DEF SiGood, Dev
  <1>3. Dev(x) /\ FreshResult(x.m) /\ x.e = w.e /\ x.c = w.c /\ x.v = w.v
    BY <1>2, PauseIs DEF Ready, Quiet
  <1> HIDE DEF x
  <1>4. l \in Int
    BY SinkAssumption
  <1> HIDE DEF l
  <1>5. k0 \in Engines /\ k0.event = 1 /\ k0.release = -1 /\ k0.selection = -1
        /\ k0.enable = -1
    BY <1>3, ClearedIs DEF Dev, Devices
  <1> HIDE DEF k0
  <1>6. w.e.plan \in Jobs /\ w.e.primed \in Names
    BY <1>2 DEF Ready, Dev, Devices, Engines
  <1>7. y \in Engines
    BY <1>4, <1>5, <1>6 DEF Engines, Phases
  <1>8. y.st = "Armed" /\ y.plan = w.e.plan /\ y.primed = w.e.primed /\ y.event = 1
        /\ y.release = -1 /\ y.selection = -1 /\ y.enable = -1
    BY <1>5 DEF Engines
  <1> HIDE DEF y
  <1>9. Dev(z) /\ z.c = w.c /\ z.v = w.v /\ z.m = x.m /\ z.e = y
    BY <1>3, <1>7, WithEngine
  <1> HIDE DEF z
  <1>10. w.c.maskR
    BY <1>2 DEF Ready, Dev, Believed
  <1>11. SiGood(z, board, clk)
    BY <1>2, <1>3, <1>8, <1>9, <1>10 DEF SiGood, Waiting, Ready, Tuned, Dev
  <1>12. FreshResult(z.m)
    BY <1>3, <1>9
  <1> QED BY <1>1, <1>3, <1>9, <1>11, <1>12, OrFailIs

\* suspend_background: only behind a masked reference.
LEMMA SuspendIs ==
    ASSUME NEW w, SiGood(w, board, clk), w.e.st = "Idle", ~w.e.suspended
    PROVE  SiGood(Si!SuspendOf(w), board, clk)
  <1> DEFINE x == Si!Pause(w)
             s == x.ok /\ ~Si!OutputActive(x)
             y == [x.e EXCEPT !.suspended = s]
             z == [x EXCEPT !.e = y]
  <1>1. Dev(w) /\ FreshResult(w.m)
    BY DEF SiGood, Dev
  <1>2. Dev(x) /\ FreshResult(x.m) /\ Quiet(x, w) /\ (x.ok => x.c.maskR)
        /\ (w.v.ref = "disabled" => x.c = w.c /\ x.v = w.v)
    BY <1>1, PauseIs
  <1>3. Si!SuspendOf(w) = [x EXCEPT !.e.suspended = s]
    BY DEF Si!SuspendOf, Si!After
  <1>4. s \in BOOLEAN /\ (s => x.ok)
    OBVIOUS
  <1> HIDE DEF x, s
  <1>5. Si!SuspendOf(w) = z
    BY <1>2, <1>3 DEF Dev, Devices
  <1>6. y \in Engines /\ y.st = "Idle" /\ y.plan = w.e.plan /\ y.primed = w.e.primed
        /\ y.suspended = s
    BY <1>2, <1>4 DEF Dev, Devices, Engines, Quiet
  <1> HIDE DEF y
  <1>7. Dev(z) /\ z.c = x.c /\ z.v = x.v /\ z.m = x.m /\ z.e = y
    BY <1>2, <1>6, WithEngine
  <1> HIDE DEF z
  <1>8. CASE w.e.plan = Si!NoPlan
    BY <1>2, <1>4, <1>5, <1>6, <1>7, <1>8 DEF SiGood, Dev
  <1>9. CASE w.e.plan # Si!NoPlan
    <2>1. Ready(w)
      BY <1>9 DEF SiGood
    <2>2. x.c = w.c /\ x.v = w.v /\ w.c.maskR
      BY <1>1, <1>2, <2>1 DEF Ready, Dev, Believed
    <2>3. Ready(z)
      BY <1>6, <1>7, <2>1, <2>2 DEF Ready, Tuned
    <2> QED BY <1>2, <1>5, <1>6, <1>7, <2>2, <2>3 DEF SiGood, Dev
  <1> QED BY <1>8, <1>9

\* The part of a launch up to its verification.
LEMMA LaunchedIs ==
    ASSUME NEW w, Dev(w), FreshResult(w.m), NEW key \in BOOLEAN, NEW end \in Int, clk \in Nat
    PROVE  LET x == Si!Launched(w, key, end) IN
           /\ Dev(x) /\ FreshResult(x.m) /\ x.amp = w.amp /\ x.fil = w.fil
           /\ (w.c.maskR => x.c.maskR)
           /\ x.ok => /\ x.e.st = "Running" /\ x.e.phase = "Rf" /\ x.e.plan = w.e.plan
                      /\ x.e.primed = w.e.primed /\ x.e.event = w.e.event
                      /\ x.e.start = clk /\ x.e.end = end
                      /\ x.g.cutoff = end /\ clk < end
                      /\ x.v.pll = w.v.pll /\ x.v.ms = w.v.ms /\ x.v.ref = w.v.ref
                      /\ ~key => x.v.tx = w.v.tx
  <1> DEFINE a == IF key THEN Si!Request(w, TRUE) ELSE w
             s == Si!SetGate(a, key)
             x == Si!ArmCutoff(s, end)
             y == [x.e EXCEPT !.st = "Running", !.phase = "Rf", !.launch = clk, !.start = clk,
                              !.end = end]
             z == [x EXCEPT !.e = y]
  <1>1. Si!Launched(w, key, end) =
          IF x.ok THEN [x EXCEPT !.e.st = "Running", !.e.phase = "Rf", !.e.launch = clk,
                                 !.e.start = clk, !.e.end = end]
          ELSE x
    BY DEF Si!Launched, Si!Then
  <1>2. Dev(a) /\ Silent(a, w)
        /\ (a.ok => a.v.pll = w.v.pll /\ a.v.ms = w.v.ms /\ a.v.ref = w.v.ref)
        /\ (~key => a = w)
    BY RequestIs DEF Silent, Rest
  <1> HIDE DEF a
  <1>3. Dev(s) /\ SameBoard(s, a) /\ (s.ok => a.ok)
    BY <1>2, SetGateIs DEF Dev
  <1> HIDE DEF s
  <1>4. Dev(x) /\ SameBoard(x, s) /\ (x.ok => s.ok /\ clk < end /\ x.g.cutoff = end)
    BY <1>3, ArmCutoffIs DEF Dev
  <1> HIDE DEF x
  <1>5. x.e = w.e /\ x.m = w.m /\ x.amp = w.amp /\ x.fil = w.fil
        /\ (w.c.maskR => x.c.maskR)
        /\ (x.ok => x.v.pll = w.v.pll /\ x.v.ms = w.v.ms /\ x.v.ref = w.v.ref
                    /\ (~key => x.v.tx = w.v.tx))
    BY <1>2, <1>3, <1>4 DEF SameBoard, Silent, Rest
  <1>6. x.e \in Engines /\ clk \in Int
    BY <1>4 DEF Dev, Devices
  <1>7. y \in Engines
    BY <1>6 DEF Engines, Phases
  <1>8. y.st = "Running" /\ y.phase = "Rf" /\ y.plan = x.e.plan /\ y.primed = x.e.primed
        /\ y.event = x.e.event /\ y.start = clk /\ y.end = end
    BY <1>6 DEF Engines
  <1>9. [x EXCEPT !.e.st = "Running", !.e.phase = "Rf", !.e.launch = clk,
                  !.e.start = clk, !.e.end = end] = z
    BY <1>4 DEF Dev, Devices
  <1> HIDE DEF y
  <1>10. Dev(z) /\ z.c = x.c /\ z.v = x.v /\ z.g = x.g /\ z.m = x.m /\ z.amp = x.amp
         /\ z.fil = x.fil /\ z.e = y /\ z.ok = x.ok
    BY <1>4, <1>7, WithEngine
  <1> HIDE DEF z
  <1>11. Si!Launched(w, key, end) = IF x.ok THEN z ELSE x
    BY <1>1, <1>9
  <1> QED BY <1>4, <1>5, <1>8, <1>10, <1>11

\* launch: asked for the indicator, out with the first tone, or failed.
LEMMA LaunchIs ==
    ASSUME NEW w, SiGood(w, board, clk), w.e.st = "Armed", clk \in Nat,
           board.amp => w.e.enable # -1 /\ clk - w.e.enable >= AmpLead,
           board.fil => w.e.selection # -1 /\ clk - w.e.selection >= Settle
    PROVE  SiGood(Si!Launch(w), board, clk)
  <1> DEFINE tones == w.e.plan.tone
             key == tones[1] # "off"
             end == clk + Step * Len(tones)
             b == [w.e EXCEPT !.req = TRUE]
             x == Si!Launched(w, key, end)
             y == IF key THEN Si!VerifyTransmit(x) ELSE x
             R == (board.fil /\ (~w.fil.on \/ w.f = "fil"))
                  \/ (board.amp /\ (~w.amp.on \/ w.f = "amp"))
             z == IF x.ok THEN y ELSE x
             r == Si!Refused(w)
  <1>1. Si!Launch(w) = IF ~w.e.ack THEN [w EXCEPT !.e.req = TRUE]
                       ELSE Si!OrFail(IF R THEN r ELSE z)
    BY DEF Si!Launch, Si!Then, Si!Off
  <1>2. Dev(w) /\ FreshResult(w.m) /\ Waiting(w, board) /\ Ready(w)
    BY DEF SiGood, Dev, Waiting
  <1> HIDE DEF R
  <1>3. key \in BOOLEAN
    OBVIOUS
  <1>4. w.e.plan \in Jobs /\ w.c.maskR
    BY <1>2 DEF Ready, Dev, Believed
  <1>5. 1 \in DOMAIN tones /\ Len(tones) \in Nat /\ (key => w.e.primed = tones[1])
    BY <1>2, <1>4, FirstToneIs DEF Ready
  <1>6. end \in Int
    BY <1>5, SiAssumption
  <1>7. end = clk + Step * Len(w.e.plan.tone)
    OBVIOUS
  <1> HIDE DEF key, end
  <1>8. CASE ~w.e.ack
    <2>1. b \in Engines /\ b.st = "Armed" /\ b.plan = w.e.plan /\ b.primed = w.e.primed
          /\ b.event = w.e.event /\ b.enable = w.e.enable /\ b.release = w.e.release
          /\ b.selection = w.e.selection
      BY <1>2, <1>8 DEF Dev, Devices, Engines
    <2>2. [w EXCEPT !.e.req = TRUE] = [w EXCEPT !.e = b]
      BY <1>2 DEF Dev, Devices
    <2> HIDE DEF b
    <2> DEFINE u == [w EXCEPT !.e = b]
    <2>3. Dev(u) /\ u.c = w.c /\ u.v = w.v /\ u.m = w.m /\ u.amp = w.amp /\ u.fil = w.fil /\ u.e = b
      BY <1>2, <2>1, WithEngine
    <2> HIDE DEF u
    <2>4. Ready(u)
      BY <1>2, <2>1, <2>3 DEF Ready, Tuned
    <2>5. Waiting(u, board)
      BY <1>2, <2>1, <2>3, <2>4 DEF Waiting
    <2>6. SiGood(u, board, clk)
      BY <1>2, <1>4, <2>1, <2>3, <2>5 DEF SiGood, Dev
    <2> QED BY <1>1, <1>8, <2>2, <2>6 DEF u
  <1>9. /\ Dev(x) /\ FreshResult(x.m) /\ x.amp = w.amp /\ x.fil = w.fil
        /\ (w.c.maskR => x.c.maskR)
        /\ x.ok => /\ x.e.st = "Running" /\ x.e.phase = "Rf" /\ x.e.plan = w.e.plan
                   /\ x.e.primed = w.e.primed /\ x.e.event = w.e.event
                   /\ x.e.start = clk /\ x.e.end = end
                   /\ x.g.cutoff = end /\ clk < end
                   /\ x.v.pll = w.v.pll /\ x.v.ms = w.v.ms /\ x.v.ref = w.v.ref
                   /\ ~key => x.v.tx = w.v.tx
    BY <1>2, <1>3, <1>6, LaunchedIs
  <1> HIDE DEF x
  <1>10. Dev(y) /\ FreshResult(y.m) /\ y.amp = w.amp /\ y.fil = w.fil /\ y.e = x.e /\ y.g = x.g
         /\ y.c.maskR
         /\ (y.ok => y.v.pll = x.v.pll /\ y.v.ms = x.v.ms /\ (~key => y.v.tx = x.v.tx))
    <2>1. CASE key
      <3>1. Dev(Si!VerifyTransmit(x)) /\ Silent(Si!VerifyTransmit(x), x)
            /\ (Si!VerifyTransmit(x).ok => Si!VerifyTransmit(x).v.pll = x.v.pll
                                           /\ Si!VerifyTransmit(x).v.ms = x.v.ms)
        BY <1>9, VerifyTransmitIs
      <3> QED BY <1>4, <1>9, <2>1, <3>1 DEF Silent, Rest
    <2>2. CASE ~key
      BY <1>4, <1>9, <2>2
    <2> QED BY <2>1, <2>2
  <1> HIDE DEF y
  <1>11. x.ok /\ y.ok => SiGood(y, board, clk)
    <2> SUFFICES ASSUME x.ok, y.ok PROVE SiGood(y, board, clk)
      OBVIOUS
    <2>1. y.e.plan = w.e.plan /\ y.e.primed = w.e.primed /\ y.e.event = 1 /\ y.e.phase = "Rf"
          /\ y.e.st = "Running" /\ y.e.start = clk /\ y.e.end = end /\ y.g.cutoff = end
      BY <1>2, <1>9, <1>10 DEF Waiting
    <2>2. Tuned(y, y.e.plan, y.e.primed)
      BY <1>2, <1>9, <1>10, <2>1 DEF Ready, Tuned
    <2>3. IF y.e.plan.tone[y.e.event] = "off" THEN y.v.tx = "disabled"
          ELSE y.e.primed = y.e.plan.tone[y.e.event]
      BY <1>2, <1>5, <1>9, <1>10, <2>1 DEF Ready, key
    <2>4. InTune(y)
      BY <1>4, <1>5, <2>1, <2>2, <2>3 DEF InTune
    <2>5. InChain(y, board, clk)
      BY <1>2, <1>7, <1>9, <1>10, <2>1 DEF InChain, Waiting
    <2> QED BY <1>10, <2>1, <2>4, <2>5 DEF SiGood, Dev
  <1>12. Dev(r) /\ FreshResult(r.m) /\ ~r.ok
    BY <1>2, RefusedIs DEF Dev, Rest
  <1> HIDE DEF r
  <1>13. SiGood(Si!OrFail(r), board, clk)
    BY <1>12, OrFailIs
  <1>14. Dev(z) /\ FreshResult(z.m) /\ (z.ok => SiGood(z, board, clk))
    BY <1>9, <1>10, <1>11
  <1> HIDE DEF z
  <1>15. SiGood(Si!OrFail(z), board, clk)
    BY <1>14, OrFailIs
  <1> QED BY <1>1, <1>8, <1>13, <1>15

\* An armed engine whose chip and job are the same and whose outputs are on
\* since their phases waits on.
LEMMA WaitingOn ==
    ASSUME NEW w, SiGood(w, board, clk), w.e.st = "Armed", NEW x \in Devices,
           x.c = w.c, x.v = w.v, x.m = w.m, x.e.st = "Armed", x.e.plan = w.e.plan,
           x.e.primed = w.e.primed, x.e.event = w.e.event,
           board.amp /\ x.e.enable # -1 => x.amp.pad /\ x.amp.since = x.e.enable,
           x.e.release = -1 => x.e.selection = -1,
           board.fil /\ x.e.selection # -1 => x.fil.pad /\ x.fil.since = x.e.selection
    PROVE  SiGood(x, board, clk) /\ Dev(x) /\ FreshResult(x.m)
  <1>1. Waiting(w, board) /\ Believed(w, board) /\ FreshResult(w.m)
    BY DEF SiGood
  <1>2. w.c.maskR
    BY <1>1 DEF Waiting, Ready, Believed
  <1>3. Ready(x)
    BY <1>1 DEF Waiting, Ready, Tuned
  <1>4. Waiting(x, board)
    BY <1>1, <1>3 DEF Waiting
  <1>5. Dev(x)
    BY <1>1 DEF Dev, Believed
  <1> QED BY <1>1, <1>2, <1>4, <1>5 DEF SiGood, Dev

\* The amplifier is enabled, now.
LEMMA LitIs ==
    ASSUME NEW w, SiGood(w, board, clk), w.e.st = "Armed", clk \in Nat
    PROVE  LET x == Si!Lit(w) IN
           /\ SiGood(x, board, clk) /\ Dev(x) /\ FreshResult(x.m) /\ x.e.st = "Armed"
           /\ x.e.selection = w.e.selection
  <1> DEFINE h == w.f # "amp"
             s == w.amp.off /\ w.f # "amp"
             o == Si!Raise(w.amp, h)
             y == [w.e EXCEPT !.enable = clk, !.phase = "Lead"]
             x == Si!Lit(w)
  <1>1. x = [w EXCEPT !.amp = o, !.e.enable = clk, !.e.phase = "Lead", !.ok = s]
    BY DEF Si!Lit
  <1>2. w \in Devices /\ w.e \in Engines /\ w.amp \in SiOutputs /\ Waiting(w, board)
    BY DEF SiGood, Devices
  <1>3. h \in BOOLEAN /\ s \in BOOLEAN
    BY <1>2 DEF SiOutputs
  <1> HIDE DEF h, s
  <1>4. o \in SiOutputs /\ o.pad /\ o.since = clk
    BY <1>2, <1>3, RaiseIs
  <1> HIDE DEF o
  <1>5. y \in Engines /\ y.st = "Armed" /\ y.plan = w.e.plan /\ y.primed = w.e.primed
        /\ y.event = w.e.event /\ y.enable = clk /\ y.release = w.e.release
        /\ y.selection = w.e.selection
    <2>1. clk \in Int
      OBVIOUS
    <2>2. y \in Engines
      BY <1>2, <2>1 DEF Engines, Phases
    <2>3. y.st = "Armed" /\ y.plan = w.e.plan /\ y.primed = w.e.primed
          /\ y.event = w.e.event /\ y.enable = clk
      BY <1>2 DEF Engines
    <2>4. y.release = w.e.release /\ y.selection = w.e.selection
      BY <1>2 DEF Engines
    <2> QED BY <2>2, <2>3, <2>4
  <1>6. x = [w EXCEPT !.amp = o, !.e = y, !.ok = s]
    BY <1>1, <1>2 DEF Devices
  <1> HIDE DEF y, x
  <1>7. x \in Devices
    BY <1>2, <1>3, <1>4, <1>5, <1>6 DEF Devices
  <1>8. x.c = w.c /\ x.v = w.v /\ x.m = w.m /\ x.e = y /\ x.amp = o /\ x.fil = w.fil
    BY <1>2, <1>6 DEF Devices
  <1>9. SiGood(x, board, clk) /\ Dev(x) /\ FreshResult(x.m)
    BY <1>2, <1>4, <1>5, <1>7, <1>8, WaitingOn DEF Waiting
  <1> QED BY <1>5, <1>8, <1>9 DEF x

\* The amplifier behind settled filters, then the launch.
LEMMA AmplifyIs ==
    ASSUME NEW w, SiGood(w, board, clk), w.e.st = "Armed", clk \in Nat,
           board.fil => w.e.selection # -1 /\ clk - w.e.selection >= Settle
    PROVE  SiGood(Si!Amplify(w), board, clk)
  <1> DEFINE lead == Si!LeadOf
             A == board.amp /\ w.e.enable = -1 /\ clk >= w.e.start - lead - 1
             x == IF A THEN Si!Lit(w) ELSE w
             L == board.amp /\ (x.e.enable = -1 \/ x.e.enable + lead > x.e.start)
             f == Si!Fail(x, "Failed")
             h == Si!Fail(x, "Missed")
             l == Si!Launch(x)
  <1>1. Si!Amplify(w) = IF ~x.ok THEN f
                        ELSE IF L THEN IF clk >= x.e.start THEN h ELSE x
                        ELSE IF clk >= x.e.start THEN l ELSE x
    BY DEF Si!Amplify, Si!After, Si!None
  <1>2. Dev(w) /\ FreshResult(w.m)
    BY DEF SiGood, Dev
  <1> HIDE DEF A
  <1>3. SiGood(x, board, clk) /\ Dev(x) /\ FreshResult(x.m) /\ x.e.st = "Armed"
        /\ x.e.selection = w.e.selection
    BY <1>2, LitIs
  <1> HIDE DEF x
  <1>4. SiGood(f, board, clk) /\ SiGood(h, board, clk)
    <2>1. Safe(f)
      BY <1>3, FailIs
    <2>2. Safe(h)
      BY <1>3, FailIs
    <2> QED BY <2>1, <2>2, SafeIsGood
  <1> HIDE DEF f, h
  <1>5. ~L /\ clk >= x.e.start => SiGood(l, board, clk)
    <2> SUFFICES ASSUME ~L, clk >= x.e.start PROVE SiGood(l, board, clk)
      OBVIOUS
    <2>1. board.amp => lead = AmpLead
      BY DEF Si!LeadOf
    <2>2. x.e.enable \in Int /\ x.e.start \in Int /\ AmpLead \in Int
      BY <1>3, SinkAssumption DEF Dev, Devices, Engines
    <2>3. board.amp => x.e.enable # -1 /\ x.e.enable + AmpLead <= x.e.start
      BY <2>1, <2>2
    <2>4. board.amp => x.e.enable # -1 /\ clk - x.e.enable >= AmpLead
      BY <2>2, <2>3
    <2>5. board.fil => x.e.selection # -1 /\ clk - x.e.selection >= Settle
      BY <1>3
    <2> QED BY <1>3, <2>4, <2>5, LaunchIs
  <1> HIDE DEF l, L
  <1> QED BY <1>1, <1>3, <1>4, <1>5

\* The filters are released, once, before anything is selected.
LEMMA ReleasedIs ==
    ASSUME NEW w, SiGood(w, board, clk), w.e.st = "Armed", clk \in Nat
    PROVE  LET x == Si!Released(w) IN
           /\ SiGood(x, board, clk) /\ Dev(x) /\ FreshResult(x.m) /\ x.e.st = "Armed"
  <1> DEFINE o == Si!FilDrop(w)
             s == w.f # "fil"
             y == [w.e EXCEPT !.release = clk, !.phase = "Selecting"]
             z == [o EXCEPT !.e.release = clk, !.e.phase = "Selecting", !.ok = s]
             A == w.e.release = -1 /\ clk >= w.e.start - Si!LeadOf - Si!Preparation
             x == Si!Released(w)
  <1>1. x = IF A THEN z ELSE w
    BY DEF Si!Released, Si!None
  <1>2. w \in Devices /\ w.e \in Engines /\ Waiting(w, board) /\ Dev(w) /\ FreshResult(w.m)
    BY DEF SiGood, Devices, Dev
  <1>3. s \in BOOLEAN /\ clk \in Int
    OBVIOUS
  <1>4. A => w.e.release = -1
    OBVIOUS
  <1> HIDE DEF s, A
  <1>5. o \in Devices /\ SameCore(o, w) /\ o.amp = w.amp
    BY <1>2, FilDropIs
  <1> HIDE DEF o
  <1>6. CASE A
    <2>1. w.e.selection = -1
      BY <1>2, <1>4, <1>6 DEF Waiting
    <2>2. y \in Engines
      BY <1>2, <1>3 DEF Engines, Phases
    <2>3. y.st = "Armed" /\ y.plan = w.e.plan /\ y.primed = w.e.primed /\ y.event = w.e.event
          /\ y.enable = w.e.enable
      BY <1>2 DEF Engines
    <2>4. y.selection = -1
      BY <1>2, <2>1 DEF Engines
    <2>5. z = [o EXCEPT !.e = y, !.ok = s]
      BY <1>5 DEF Devices, SameCore
    <2> HIDE DEF y, z
    <2>6. z \in Devices
      BY <1>3, <1>5, <2>2, <2>5 DEF Devices
    <2>7. z.c = w.c /\ z.v = w.v /\ z.m = w.m /\ z.e = y /\ z.amp = w.amp
      BY <1>5, <2>5 DEF Devices, SameCore
    <2>8. SiGood(z, board, clk) /\ Dev(z) /\ FreshResult(z.m)
      BY <1>2, <2>3, <2>4, <2>6, <2>7, WaitingOn DEF Waiting
    <2>9. x = z
      BY <1>1, <1>6
    <2> HIDE DEF x
    <2>10. SiGood(x, board, clk) /\ Dev(x) /\ FreshResult(x.m) /\ x.e.st = "Armed"
      BY <2>3, <2>7, <2>8, <2>9
    <2> QED BY <2>10 DEF x
  <1>7. CASE ~A
    BY <1>1, <1>2, <1>7
  <1> QED BY <1>6, <1>7

\* The filters are selected, once, after their release.
LEMMA SelectedIs ==
    ASSUME NEW w, SiGood(w, board, clk), w.e.st = "Armed", clk \in Nat
    PROVE  LET x == Si!Selected(w) IN
           /\ SiGood(x, board, clk) /\ Dev(x) /\ FreshResult(x.m) /\ x.e.st = "Armed"
  <1> DEFINE s == w.f # "fil"
             o == Si!Raise(w.fil, s)
             y == [w.e EXCEPT !.selection = clk]
             z == [w EXCEPT !.fil = o, !.e.selection = clk, !.ok = s]
             A == w.e.release # -1 /\ w.e.selection = -1 /\ clk >= w.e.release + Release
             x == Si!Selected(w)
  <1>1. x = IF A THEN z ELSE w
    BY DEF Si!Selected, Si!None
  <1>2. w \in Devices /\ w.e \in Engines /\ Waiting(w, board) /\ Dev(w) /\ FreshResult(w.m)
        /\ w.fil \in SiOutputs
    BY DEF SiGood, Devices, Dev
  <1>3. s \in BOOLEAN /\ clk \in Int
    OBVIOUS
  <1>4. A => w.e.release # -1
    OBVIOUS
  <1> HIDE DEF s, A
  <1>5. o \in SiOutputs /\ o.pad /\ o.since = clk
    BY <1>2, <1>3, RaiseIs
  <1> HIDE DEF o
  <1>6. CASE A
    <2>1. y \in Engines
      BY <1>2, <1>3 DEF Engines
    <2>2. y.st = "Armed" /\ y.plan = w.e.plan /\ y.primed = w.e.primed /\ y.event = w.e.event
      BY <1>2 DEF Engines
    <2>3. y.selection = clk /\ y.release = w.e.release /\ y.enable = w.e.enable
      BY <1>2 DEF Engines
    <2>4. z = [w EXCEPT !.fil = o, !.e = y, !.ok = s]
      BY <1>2 DEF Devices
    <2> HIDE DEF y, z
    <2>5. z \in Devices
      BY <1>2, <1>3, <1>5, <2>1, <2>4 DEF Devices
    <2>6. z.c = w.c /\ z.v = w.v /\ z.m = w.m /\ z.e = y /\ z.amp = w.amp /\ z.fil = o
      BY <1>2, <2>4 DEF Devices
    <2>7. SiGood(z, board, clk) /\ Dev(z) /\ FreshResult(z.m)
      BY <1>2, <1>4, <1>5, <1>6, <2>2, <2>3, <2>5, <2>6, WaitingOn DEF Waiting
    <2>8. x = z
      BY <1>1, <1>6
    <2> HIDE DEF x
    <2>9. SiGood(x, board, clk) /\ Dev(x) /\ FreshResult(x.m) /\ x.e.st = "Armed"
      BY <2>2, <2>6, <2>7, <2>8
    <2> QED BY <2>9 DEF x
  <1>7. CASE ~A
    BY <1>1, <1>2, <1>7
  <1> QED BY <1>6, <1>7

\* The filters, then the amplifier.
LEMMA FiltersIs ==
    ASSUME NEW w, SiGood(w, board, clk), w.e.st = "Armed", clk \in Nat
    PROVE  SiGood(Si!Filters(w), board, clk)
  <1> DEFINE y == Si!Released(w)
             x == IF y.ok THEN Si!Selected(y) ELSE y
             f == Si!Fail(x, "Failed")
             a == Si!Amplify(x)
             q == Si!Amplify(w)
             S == x.e.selection = -1 \/ clk < x.e.selection + Settle
  <1>1. Si!Filters(w) = IF ~board.fil THEN q ELSE IF ~x.ok THEN f ELSE IF S THEN x ELSE a
    BY DEF Si!Filters, Si!After, Si!Then, Si!None
  <1>2. ~board.fil => SiGood(q, board, clk)
    BY AmplifyIs
  <1> HIDE DEF q
  <1>3. SiGood(y, board, clk) /\ Dev(y) /\ FreshResult(y.m) /\ y.e.st = "Armed"
    BY ReleasedIs
  <1> HIDE DEF y
  <1>4. SiGood(x, board, clk) /\ Dev(x) /\ FreshResult(x.m) /\ x.e.st = "Armed"
    BY <1>3, SelectedIs
  <1> HIDE DEF x
  <1>5. SiGood(f, board, clk)
    BY <1>4, FailIs, SafeIsGood
  <1> HIDE DEF f
  <1>6. ~S => SiGood(a, board, clk)
    <2>1. x.e.selection \in Int /\ Settle \in Int
      BY <1>4, SinkAssumption DEF Dev, Devices, Engines
    <2>2. ~S => x.e.selection # -1 /\ clk - x.e.selection >= Settle
      BY <2>1
    <2> HIDE DEF S, a
    <2>3. ASSUME ~S PROVE SiGood(a, board, clk)
      <3>1. SiGood(Si!Amplify(x), board, clk)
        BY <1>4, <2>2, <2>3, AmplifyIs
      <3> QED BY <3>1 DEF a
    <2> QED BY <2>3
  <1> HIDE DEF a, S
  <1> QED BY <1>1, <1>2, <1>4, <1>5, <1>6

\* The tone that is keyed next is of the job.
LEMMA FollowingIs ==
    ASSUME NEW job \in Jobs, NEW i \in DOMAIN job.tone, Si!Following(job, i) # "none"
    PROVE  Si!Following(job, i) \in Si!Tones(job)
  <1> DEFINE S == {j \in (i + 1)..Len(job.tone) : job.tone[j] # "off"}
             h == CHOOSE j \in S : \A k0 \in S : j <= k0
  <1>1. DOMAIN job.tone = 1..Len(job.tone) /\ Len(job.tone) \in Nat
        /\ \A j \in DOMAIN job.tone : job.tone[j] # "off" => job.tone[j] \in Si!Tones(job)
    BY FirstToneIs
  <1>2. Si!Following(job, i) = IF S = {} THEN "none" ELSE job.tone[h]
    BY DEF Si!Following, Si!NoTone, Si!Off
  <1>3. S # {}
    BY <1>2
  <1>4. S \subseteq DOMAIN job.tone /\ S \subseteq Nat
    BY <1>1
  <1>5. \A j \in S : job.tone[j] # "off"
    OBVIOUS
  <1> HIDE DEF S
  <1>6. \E j \in S : \A k0 \in S : j <= k0
    BY <1>3, <1>4, LeastOf
  <1>7. h \in S
    BY <1>6
  <1> HIDE DEF h
  <1> QED BY <1>1, <1>2, <1>3, <1>4, <1>5, <1>7

\* x is w, which is running, after its transition to event i: the chip follows
\* and the chain stays ready, or it failed.
Moved(x, w, i) ==
    /\ Dev(x) /\ FreshResult(x.m) /\ (w.c.maskR => x.c.maskR) /\ (w.c.downR => x.c.downR)
    /\ x.ok => /\ x.e.st = "Running" /\ x.e.plan = w.e.plan /\ x.e.event = w.e.event
               /\ x.e.phase = w.e.phase
               /\ Tuned(x, w.e.plan, x.e.primed)
               /\ IF w.e.plan.tone[i] = "off" THEN x.v.tx = "disabled"
                  ELSE x.e.primed = w.e.plan.tone[i]
               /\ InChain(x, board, clk)

\* x is w but for what is primed.
LEMMA WithPrimed ==
    ASSUME NEW w, Dev(w), NEW t \in Names
    PROVE  LET x == [w EXCEPT !.e.primed = t] IN
           /\ Dev(x) /\ x.c = w.c /\ x.v = w.v /\ x.g = w.g /\ x.m = w.m /\ x.amp = w.amp
           /\ x.fil = w.fil /\ x.ok = w.ok
           /\ x.e.st = w.e.st /\ x.e.plan = w.e.plan /\ x.e.event = w.e.event
           /\ x.e.phase = w.e.phase /\ x.e.start = w.e.start /\ x.e.end = w.e.end
           /\ x.e.primed = t
  <1> DEFINE y == [w.e EXCEPT !.primed = t]
             x == [w EXCEPT !.e = y]
  <1>1. w.e \in Engines
    BY DEF Dev, Devices
  <1>2. y \in Engines
    BY <1>1 DEF Engines
  <1>3. y.st = w.e.st /\ y.plan = w.e.plan /\ y.event = w.e.event /\ y.phase = w.e.phase
        /\ y.start = w.e.start /\ y.end = w.e.end /\ y.primed = t
    BY <1>1 DEF Engines
  <1>4. [w EXCEPT !.e.primed = t] = x
    BY DEF Dev, Devices
  <1> HIDE DEF y
  <1>5. Dev(x) /\ x.c = w.c /\ x.v = w.v /\ x.g = w.g /\ x.m = w.m /\ x.amp = w.amp
        /\ x.fil = w.fil /\ x.e = y /\ x.ok = w.ok
    BY <1>2, WithEngine
  <1> HIDE DEF x
  <1> QED BY <1>3, <1>4, <1>5

\* transition to silence: gated, masked, verified, and tuned to what follows.
LEMMA KeyUpIs ==
    ASSUME NEW w, SiGood(w, board, clk), w.e.st = "Running", NEW i \in DOMAIN w.e.plan.tone,
           w.e.plan.tone[i] = "off"
    PROVE  Moved(Si!KeyUp(w, i), w, i)
  <1> DEFINE s == Si!SetGate(w, FALSE)
             q == Si!Request(s, FALSE)
             x == Si!VerifyTransmit(q)
             t == Si!Following(w.e.plan, i)
             u == Si!TransmitTone(x, w.e.plan, t)
             p == Si!PrimeTransmit(u)
             z == [p EXCEPT !.e.primed = t]
             r == IF x.ok THEN IF t = "none" THEN x ELSE z ELSE x
  <1>1. Si!KeyUp(w, i) = r
    BY DEF Si!KeyUp, Si!Then, Si!NoTone
  <1>2. Dev(w) /\ FreshResult(w.m) /\ InTune(w) /\ InChain(w, board, clk) /\ w.e.plan \in Jobs
    BY DEF SiGood, Dev, InTune
  <1>3. Dev(s) /\ SameBoard(s, w) /\ s.g.cutoff = w.g.cutoff /\ s.g.expired = w.g.expired
        /\ (s.ok => (board.gate => ~s.g.pad))
    BY <1>2, SetGateIs DEF Dev
  <1> HIDE DEF s
  <1>4. Dev(q) /\ Silent(q, s)
        /\ (q.ok => s.ok /\ q.v.pll = s.v.pll /\ q.v.ms = s.v.ms /\ q.v.pending = "disable")
    BY <1>3, RequestIs
  <1>5. x.ok => q.ok
    <2>1. ~q.ok => x = Si!Refused(q)
      BY DEF Si!VerifyTransmit
    <2>2. ~Si!Refused(q).ok
      BY <1>4, RefusedIs DEF Dev
    <2> QED BY <2>1, <2>2
  <1> HIDE DEF q
  <1>6. Dev(x) /\ Silent(x, q)
        /\ (x.ok => x.v.pll = q.v.pll /\ x.v.ms = q.v.ms /\ x.v.tx = "disabled")
    BY <1>4, <1>5, VerifyTransmitIs
  <1> HIDE DEF x
  <1>7. x.e = w.e /\ x.m = w.m /\ x.amp = w.amp /\ x.fil = w.fil /\ x.g = s.g
        /\ (w.c.maskR => x.c.maskR) /\ (w.c.downR => x.c.downR)
    BY <1>3, <1>4, <1>6 DEF Silent, Rest, SameBoard
  <1>8. x.ok => Tuned(x, w.e.plan, w.e.primed) /\ InChain(x, board, clk) /\ x.v.tx = "disabled"
    BY <1>2, <1>3, <1>4, <1>5, <1>6, <1>7 DEF InTune, Tuned, InChain, SameBoard
  <1>9. Moved(x, w, i)
    BY <1>2, <1>6, <1>7, <1>8 DEF Moved
  <1>10. CASE x.ok /\ t # "none"
    <2>1. t \in Si!Tones(w.e.plan) /\ t \in Names
      BY <1>2, <1>10, FollowingIs, ToneNames
    <2> HIDE DEF t
    <2>2. Dev(u) /\ Silent(u, x)
          /\ (u.ok => u.v.ms = Si!ToneMs(w.e.plan, t)
                      /\ u.v.pll = IF w.e.plan.band = "vhf" THEN t ELSE x.v.pll)
      BY <1>2, <1>6, <2>1, TransmitToneIs
    <2>3. p.ok => u.ok
      <3>1. ~u.ok => p = Si!Refused(u)
        BY DEF Si!PrimeTransmit
      <3>2. ~Si!Refused(u).ok
        BY <2>2, RefusedIs DEF Dev
      <3> QED BY <3>1, <3>2
    <2>4. u.ok => u.v.pll = Si!TonePll(w.e.plan, t)
      BY <1>8, <1>10, <2>2 DEF Tuned, Si!TonePll
    <2> HIDE DEF u
    <2>5. Dev(p) /\ Silent(p, u)
          /\ (p.ok => p.v.tx = "disabled" /\ p.v.pll = u.v.pll /\ p.v.ms = u.v.ms)
      BY <2>2, PrimeTransmitIs
    <2> HIDE DEF p
    <2>6. /\ Dev(z) /\ z.c = p.c /\ z.v = p.v /\ z.g = p.g /\ z.m = p.m /\ z.amp = p.amp
          /\ z.fil = p.fil /\ z.ok = p.ok
          /\ z.e.st = p.e.st /\ z.e.plan = p.e.plan /\ z.e.event = p.e.event
          /\ z.e.phase = p.e.phase /\ z.e.start = p.e.start /\ z.e.end = p.e.end
          /\ z.e.primed = t
      BY <2>1, <2>5, WithPrimed
    <2> HIDE DEF z
    <2>7. p.e = w.e /\ p.m = w.m /\ p.amp = w.amp /\ p.fil = w.fil /\ p.g = x.g
          /\ (w.c.maskR => p.c.maskR) /\ (w.c.downR => p.c.downR)
      BY <1>7, <2>2, <2>5 DEF Silent, Rest
    <2>8. z.ok => Tuned(z, w.e.plan, t) /\ z.v.tx = "disabled"
      BY <2>1, <2>2, <2>3, <2>4, <2>5, <2>6 DEF Tuned
    <2>9. InChain(z, board, clk)
      BY <1>7, <1>8, <1>10, <2>6, <2>7 DEF InChain
    <2>10. Moved(z, w, i)
      BY <1>2, <2>6, <2>7, <2>8, <2>9 DEF Moved
    <2> QED BY <1>1, <1>10, <2>10
  <1>11. CASE ~(x.ok /\ t # "none")
    BY <1>1, <1>9, <1>11
  <1> QED BY <1>10, <1>11

\* The output is keyed: primed, requested, gated, verified.
LEMMA KeyedIs ==
    ASSUME NEW w, Dev(w), FreshResult(w.m)
    PROVE  LET x == Si!VerifyTransmit(Si!SetGate(Si!Request(Si!PrimeTransmit(w), TRUE), TRUE)) IN
           /\ Dev(x) /\ x.e = w.e /\ x.m = w.m /\ x.amp = w.amp /\ x.fil = w.fil
           /\ (w.c.maskR => x.c.maskR) /\ (w.c.downR => x.c.downR)
           /\ x.ok => /\ x.v.pll = w.v.pll /\ x.v.ms = w.v.ms
                      /\ x.g.cutoff = w.g.cutoff /\ ~w.g.expired
  <1> DEFINE p == Si!PrimeTransmit(w)
             q == Si!Request(p, TRUE)
             s == Si!SetGate(q, TRUE)
             x == Si!VerifyTransmit(s)
  <1>1. Dev(p) /\ Silent(p, w) /\ (p.ok => p.v.pll = w.v.pll /\ p.v.ms = w.v.ms)
    BY PrimeTransmitIs
  <1> HIDE DEF p
  <1>2. Dev(q) /\ Silent(q, p) /\ (q.ok => p.ok /\ q.v.pll = p.v.pll /\ q.v.ms = p.v.ms)
    BY <1>1, RequestIs
  <1> HIDE DEF q
  <1>3. Dev(s) /\ SameBoard(s, q) /\ s.g.cutoff = q.g.cutoff /\ (s.ok => q.ok /\ ~q.g.expired)
    BY <1>2, SetGateIs DEF Dev
  <1> HIDE DEF s
  <1>4. x.ok => s.ok
    <2>1. ~s.ok => x = Si!Refused(s)
      BY DEF Si!VerifyTransmit
    <2>2. ~Si!Refused(s).ok
      BY <1>3, RefusedIs DEF Dev
    <2> QED BY <2>1, <2>2
  <1>5. Dev(x) /\ Silent(x, s) /\ (x.ok => x.v.pll = s.v.pll /\ x.v.ms = s.v.ms)
    BY <1>3, VerifyTransmitIs
  <1> HIDE DEF x
  <1>6. /\ Dev(x) /\ x.e = w.e /\ x.m = w.m /\ x.amp = w.amp /\ x.fil = w.fil
        /\ (w.c.maskR => x.c.maskR) /\ (w.c.downR => x.c.downR)
        /\ x.ok => /\ x.v.pll = w.v.pll /\ x.v.ms = w.v.ms
                   /\ x.g.cutoff = w.g.cutoff /\ ~w.g.expired
    BY <1>1, <1>2, <1>3, <1>4, <1>5 DEF Silent, Rest, SameBoard
  <1> QED BY <1>6 DEF x, s, q, p

\* transition to a tone: tuned, and keyed after a silence.
LEMMA KeyDownIs ==
    ASSUME NEW w, SiGood(w, board, clk), w.e.st = "Running", NEW i \in DOMAIN w.e.plan.tone,
           w.e.plan.tone[i] # "off"
    PROVE  Moved(Si!KeyDown(w, i), w, i)
  <1> DEFINE t == w.e.plan.tone[i]
             A == w.e.plan.tone[i - 1] # "off" \/ w.e.primed # t
             B == w.e.plan.tone[i - 1] = "off"
             x == IF A THEN Si!TransmitTone(w, w.e.plan, t) ELSE w
             k0 == Si!VerifyTransmit(Si!SetGate(Si!Request(Si!PrimeTransmit(x), TRUE), TRUE))
             y == IF B THEN k0 ELSE x
             z == [y EXCEPT !.e.primed = t]
             r == IF x.ok THEN z ELSE x
  <1>1. Si!KeyDown(w, i) = r
    BY DEF Si!KeyDown, Si!Then, Si!Off
  <1>2. Dev(w) /\ FreshResult(w.m) /\ InTune(w) /\ InChain(w, board, clk) /\ w.e.plan \in Jobs
    BY DEF SiGood, Dev, InTune
  <1>3. t \in Si!Tones(w.e.plan) /\ t \in Names
    BY <1>2, FirstToneIs, ToneNames
  <1>4. Tuned(w, w.e.plan, w.e.primed) /\ (~A => w.e.primed = t)
    BY <1>2 DEF InTune
  <1>44. w.e.plan.tone[i] = t
    OBVIOUS
  <1> HIDE DEF t, A, B
  <1>5. /\ Dev(x) /\ x.e = w.e /\ x.m = w.m /\ x.amp = w.amp /\ x.fil = w.fil /\ x.g = w.g
        /\ (w.c.maskR => x.c.maskR) /\ (w.c.downR => x.c.downR)
        /\ x.ok => Tuned(x, w.e.plan, t)
    <2>1. CASE A
      <3> DEFINE u == Si!TransmitTone(w, w.e.plan, t)
      <3>1. Dev(u) /\ Silent(u, w)
            /\ (u.ok => u.v.ms = Si!ToneMs(w.e.plan, t)
                        /\ u.v.pll = IF w.e.plan.band = "vhf" THEN t ELSE w.v.pll)
        BY <1>2, <1>3, TransmitToneIs
      <3>2. x = u
        BY <2>1
      <3> HIDE DEF u, x
      <3>3. u.ok => Tuned(u, w.e.plan, t)
        BY <1>3, <1>4, <3>1 DEF Tuned, Si!TonePll
      <3> QED BY <3>1, <3>2, <3>3 DEF Silent, Rest
    <2>2. CASE ~A
      BY <1>2, <1>4, <2>2
    <2> QED BY <2>1, <2>2
  <1> HIDE DEF x
  <1>6. /\ Dev(k0) /\ k0.e = x.e /\ k0.m = x.m /\ k0.amp = x.amp /\ k0.fil = x.fil
        /\ (x.c.maskR => k0.c.maskR) /\ (x.c.downR => k0.c.downR)
        /\ k0.ok => /\ k0.v.pll = x.v.pll /\ k0.v.ms = x.v.ms
                    /\ k0.g.cutoff = x.g.cutoff /\ ~x.g.expired
    BY <1>2, <1>5, KeyedIs
  <1> HIDE DEF k0
  <1>7. /\ Dev(y) /\ y.e = w.e /\ y.m = w.m /\ y.amp = w.amp /\ y.fil = w.fil
        /\ (w.c.maskR => y.c.maskR) /\ (w.c.downR => y.c.downR)
        /\ x.ok /\ y.ok => Tuned(y, w.e.plan, t) /\ InChain(y, board, clk)
    <2>1. CASE B
      <3>1. y = k0
        BY <2>1
      <3> HIDE DEF y
      <3>2. x.ok /\ k0.ok => Tuned(k0, w.e.plan, t)
        BY <1>5, <1>6 DEF Tuned
      <3>3. k0.ok => InChain(k0, board, clk)
        BY <1>2, <1>5, <1>6 DEF InChain
      <3> QED BY <1>5, <1>6, <3>1, <3>2, <3>3
    <2>2. CASE ~B
      <3>1. y = x
        BY <2>2
      <3> HIDE DEF y
      <3>2. InChain(x, board, clk)
        BY <1>2, <1>5 DEF InChain
      <3> QED BY <1>5, <3>1, <3>2
    <2> QED BY <2>1, <2>2
  <1> HIDE DEF y
  <1>8. /\ Dev(z) /\ z.c = y.c /\ z.v = y.v /\ z.g = y.g /\ z.m = y.m /\ z.amp = y.amp
        /\ z.fil = y.fil /\ z.ok = y.ok
        /\ z.e.st = y.e.st /\ z.e.plan = y.e.plan /\ z.e.event = y.e.event
        /\ z.e.phase = y.e.phase /\ z.e.start = y.e.start /\ z.e.end = y.e.end
        /\ z.e.primed = t
    BY <1>3, <1>7, WithPrimed
  <1> HIDE DEF z
  <1>9. CASE x.ok
    <2>1. z.ok => Tuned(z, w.e.plan, t) /\ InChain(z, board, clk)
      BY <1>7, <1>8, <1>9 DEF Tuned, InChain
    <2>2. t # "off"
      BY <1>44
    <2>3. Moved(z, w, i)
      BY <1>2, <1>7, <1>8, <1>44, <2>1, <2>2 DEF Moved
    <2> QED BY <1>1, <1>9, <2>3
  <1>10. CASE ~x.ok
    <2>1. Moved(x, w, i)
      BY <1>2, <1>5, <1>10 DEF Moved
    <2> QED BY <1>1, <1>10, <2>1
  <1> QED BY <1>9, <1>10

\* transition: from the event before it.
LEMMA TransitionIs ==
    ASSUME NEW w, SiGood(w, board, clk), w.e.st = "Running", w.e.event + 1 \in DOMAIN w.e.plan.tone
    PROVE  Moved(Si!Transition(w, w.e.event + 1), w, w.e.event + 1)
  <1> DEFINE i == w.e.event + 1
             u == Si!KeyUp(w, i)
             d0 == Si!KeyDown(w, i)
  <1>1. Dev(w) /\ FreshResult(w.m) /\ InTune(w) /\ InChain(w, board, clk) /\ w.e.event \in Nat
    BY DEF SiGood, Dev, Devices, Engines
  <1>2. i - 1 = w.e.event /\ i \in DOMAIN w.e.plan.tone
    BY <1>1
  <1> HIDE DEF i
  <1>3. Si!Transition(w, i) = IF w.e.plan.tone[i] = w.e.plan.tone[i - 1] THEN w
                              ELSE IF w.e.plan.tone[i] = "off" THEN u ELSE d0
    BY DEF Si!Transition, Si!Off
  <1>4. w.e.plan.tone[i] = "off" => Moved(u, w, i)
    BY <1>2, KeyUpIs
  <1>5. w.e.plan.tone[i] # "off" => Moved(d0, w, i)
    BY <1>2, KeyDownIs
  <1> HIDE DEF u, d0
  <1>6. w.e.plan.tone[i] = w.e.plan.tone[i - 1] => Moved(w, w, i)
    BY <1>1, <1>2 DEF Moved, InTune
  <1>7. Moved(Si!Transition(w, i), w, i)
    BY <1>3, <1>4, <1>5, <1>6
  <1> QED BY <1>7 DEF i

\* A job that is over leaves the reference as quiet as it was.
LEMMA OverIsGood ==
    ASSUME NEW x, Dev(x), FreshResult(x.m), x.e.st = "Complete", x.c.maskR \/ x.c.downR
    PROVE  SiGood(x, board, clk)
  BY DEF SiGood, Dev

\* finish_rf
LEMMA FinishRfIs ==
    ASSUME NEW w, SiGood(w, board, clk), w.e.st = "Running", clk \in Nat
    PROVE  SiGood(Si!FinishRf(w), board, clk)
  <1> DEFINE s == Si!SetGate(w, FALSE)
             x == IF w.v.tx = "disabled" THEN s ELSE Si!Request(s, FALSE)
             L == clk > w.e.end + Budget
             f == Si!Refused(x)
             d0 == [x EXCEPT !.e.st = "Complete"]
             y == Si!VerifyTransmit(x)
             n == clk + Si!TailOf
             z == [y EXCEPT !.e.tail = n, !.e.phase = "Tail"]
             T == Si!TailOf = 0
             r == IF x.ok THEN IF L THEN f ELSE IF T THEN d0 ELSE IF y.ok THEN z ELSE y ELSE x
  <1>1. Si!FinishRf(w) = Si!OrFail(r)
    BY DEF Si!FinishRf, Si!Then, Si!After
  <1>2. Dev(w) /\ FreshResult(w.m) /\ InTune(w) /\ InChain(w, board, clk) /\ w.e.plan \in Jobs
        /\ (w.c.maskR \/ w.c.downR)
    BY NoPlanIsNoJob DEF SiGood, Dev, InTune
  <1>3. n \in Int
    BY SinkAssumption DEF Si!TailOf
  <1> HIDE DEF n, L, T
  <1>4. Dev(s) /\ SameBoard(s, w) /\ s.g.cutoff = w.g.cutoff /\ s.g.expired = w.g.expired
        /\ (s.ok => (board.gate => ~s.g.pad))
    BY <1>2, SetGateIs DEF Dev
  <1> HIDE DEF s
  <1>5. Dev(x) /\ Silent(x, s)
        /\ (x.ok => /\ s.ok /\ x.v.pll = s.v.pll /\ x.v.ms = s.v.ms
                    /\ x.v.tx = "disabled" \/ x.v.pending = "disable")
    <2>1. Dev(Si!Request(s, FALSE)) /\ Silent(Si!Request(s, FALSE), s)
          /\ (Si!Request(s, FALSE).ok =>
                /\ s.ok /\ Si!Request(s, FALSE).v.pll = s.v.pll
                /\ Si!Request(s, FALSE).v.ms = s.v.ms
                /\ Si!Request(s, FALSE).v.pending = "disable")
      BY <1>4, RequestIs
    <2>2. Silent(s, s)
      BY DEF Silent, Rest
    <2> QED BY <1>4, <2>1, <2>2 DEF SameBoard
  <1> HIDE DEF x
  <1>6. x.e = w.e /\ x.m = w.m /\ x.amp = w.amp /\ x.fil = w.fil /\ x.g = s.g
        /\ (x.c.maskR \/ x.c.downR)
        /\ (x.ok => Tuned(x, w.e.plan, w.e.primed) /\ InChain(x, board, clk))
    <2>1. x.e = w.e /\ x.m = w.m /\ x.amp = w.amp /\ x.fil = w.fil /\ x.g = s.g
          /\ (x.c.maskR \/ x.c.downR)
      BY <1>2, <1>4, <1>5 DEF Silent, Rest, SameBoard
    <2>2. x.ok => Tuned(x, w.e.plan, w.e.primed)
      BY <1>2, <1>4, <1>5 DEF InTune, Tuned, SameBoard
    <2>3. x.ok => InChain(x, board, clk)
      BY <1>2, <1>4, <1>5, <2>1 DEF InChain
    <2> QED BY <2>1, <2>2, <2>3
  <1>7. Dev(f) /\ FreshResult(f.m) /\ ~f.ok
    BY <1>2, <1>5, <1>6, RefusedIs DEF Dev, Rest
  <1> HIDE DEF f
  <1>8. Dev(d0) /\ FreshResult(d0.m) /\ SiGood(d0, board, clk)
    <2> DEFINE u == [x.e EXCEPT !.st = "Complete"]
    <2>1. u \in Engines /\ u.st = "Complete"
      BY <1>5 DEF Dev, Devices, Engines
    <2>2. d0 = [x EXCEPT !.e = u]
      BY <1>5 DEF Dev, Devices
    <2> HIDE DEF u, d0
    <2>3. Dev(d0) /\ d0.c = x.c /\ d0.m = x.m /\ d0.e = u
      BY <1>5, <2>1, <2>2, WithEngine
    <2> QED BY <1>2, <1>6, <2>1, <2>3, OverIsGood
  <1> HIDE DEF d0
  <1>9. Dev(y) /\ Silent(y, x)
        /\ (y.ok => y.v.pll = x.v.pll /\ y.v.ms = x.v.ms
                    /\ (x.v.tx = "disabled" \/ x.v.pending = "disable" => y.v.tx = "disabled"))
    BY <1>5, VerifyTransmitIs
  <1> HIDE DEF y
  <1>10. FreshResult(y.m) /\ y.e = w.e
    BY <1>2, <1>6, <1>9 DEF Silent, Rest
  <1>11. ASSUME x.ok, y.ok PROVE Dev(z) /\ FreshResult(z.m) /\ SiGood(z, board, clk)
    <2> DEFINE st == "Running"
               p == "Tail"
               q == [y.e EXCEPT !.st = st, !.tail = n, !.phase = p]
               l == [y.e EXCEPT !.tail = n, !.phase = p]
               u == [y EXCEPT !.e = q]
    <2>1. z = u
      <3>1. z = [y EXCEPT !.e = l]
        BY <1>9 DEF Dev, Devices
      <3>2. y.e \in Engines /\ y.e.st = st
        BY <1>9, <1>10 DEF Dev, Devices
      <3>3. l = q
        BY <3>2 DEF Engines
      <3> QED BY <3>1, <3>3
    <2>2. p \in Phases /\ st \in {"Running", "Complete"} /\ st = "Running" /\ p = "Tail"
      BY DEF Phases
    <2> HIDE DEF st, p
    <2>3. /\ Dev(u) /\ u.c = y.c /\ u.v = y.v /\ u.g = y.g /\ u.m = y.m /\ u.amp = y.amp
          /\ u.fil = y.fil /\ u.ok = y.ok
          /\ u.e.st = st /\ u.e.plan = y.e.plan /\ u.e.event = y.e.event
          /\ u.e.phase = p /\ u.e.start = y.e.start /\ u.e.end = y.e.end
          /\ u.e.primed = y.e.primed
      <3>1. y.e \in Engines
        BY <1>9 DEF Dev, Devices
      <3>2. q \in Engines
        BY <1>3, <2>2, <3>1 DEF Engines
      <3>3. q.st = st /\ q.plan = y.e.plan /\ q.event = y.e.event /\ q.phase = p
            /\ q.start = y.e.start /\ q.end = y.e.end /\ q.primed = y.e.primed
        BY <3>1 DEF Engines
      <3> HIDE DEF q
      <3>4. Dev(u) /\ u.c = y.c /\ u.v = y.v /\ u.g = y.g /\ u.m = y.m /\ u.amp = y.amp
            /\ u.fil = y.fil /\ u.e = q /\ u.ok = y.ok
        BY <1>9, <3>2, WithEngine
      <3> HIDE DEF u
      <3> QED BY <3>3, <3>4
    <2> HIDE DEF u, z
    <2>4. u.v.tx = "disabled" /\ Tuned(u, u.e.plan, u.e.primed)
      BY <1>5, <1>6, <1>9, <1>10, <1>11, <2>3 DEF Tuned
    <2>5. InTune(u)
      BY <1>2, <1>10, <2>3, <2>4 DEF InTune
    <2>6. u.amp = x.amp /\ u.fil = x.fil /\ u.g = x.g /\ (u.c.maskR \/ u.c.downR)
      BY <1>6, <1>9, <2>3 DEF Silent, Rest
    <2>7. InChain(u, board, clk)
      BY <1>6, <1>10, <1>11, <2>3, <2>6 DEF InChain
    <2>8. SiGood(u, board, clk)
      BY <1>10, <2>2, <2>3, <2>5, <2>6, <2>7 DEF SiGood, Dev
    <2> QED BY <1>10, <2>1, <2>3, <2>8
  <1> HIDE DEF z
  <1>12. Dev(r) /\ FreshResult(r.m) /\ (r.ok => SiGood(r, board, clk))
    BY <1>2, <1>5, <1>6, <1>7, <1>8, <1>9, <1>10, <1>11
  <1> HIDE DEF r
  <1> QED BY <1>1, <1>12, OrFailIs

\* poll of a running engine: the event that is due exists.
LEMMA PollRunningIs ==
    ASSUME NEW w, SiGood(w, board, clk), w.e.st = "Running", clk \in Nat
    PROVE  SiGood(Si!PollRunning(w), board, clk)
  <1> DEFINE a == Si!AmpDrop(w)
             b == Si!FilDrop(a)
             s == w.f \notin {"amp", "fil"}
             d0 == [b EXCEPT !.e.st = "Complete", !.ok = s]
             h == Si!FinishRf(w)
             f == Si!Refused(w)
             i == w.e.event + 1
             x == Si!Transition(w, i)
             z == [x EXCEPT !.e.event = @ + 1]
             r == IF x.ok THEN z ELSE x
             L == clk > Si!EventEnd(w) + Budget
  <1>1. Si!PollRunning(w) =
          IF w.e.phase = "Tail" THEN IF clk < w.e.tail THEN w ELSE Si!OrFail(d0)
          ELSE IF clk >= w.e.end THEN h
          ELSE IF clk < Si!EventEnd(w) THEN w
          ELSE Si!OrFail(IF L THEN f ELSE r)
    BY DEF Si!PollRunning, Si!Then
  <1>2. Dev(w) /\ FreshResult(w.m) /\ InTune(w) /\ InChain(w, board, clk) /\ w.e.plan \in Jobs
        /\ (w.c.maskR \/ w.c.downR)
    BY NoPlanIsNoJob DEF SiGood, Dev, InTune
  <1> HIDE DEF L
  <1>3. SiGood(Si!OrFail(d0), board, clk)
    <2>1. a \in Devices /\ SameCore(a, w) /\ Dev(a)
      BY <1>2, AmpDropIs DEF Dev
    <2> HIDE DEF a
    <2>2. b \in Devices /\ SameCore(b, w) /\ Dev(b)
      BY <2>1, FilDropIs DEF SameCore
    <2> HIDE DEF b
    <2> DEFINE u == [b.e EXCEPT !.st = "Complete"]
    <2>3. s \in BOOLEAN
      OBVIOUS
    <2>4. u \in Engines /\ u.st = "Complete"
      BY <2>2 DEF Devices, Engines
    <2>5. d0 = [b EXCEPT !.e = u, !.ok = s]
      BY <2>2 DEF Devices
    <2> HIDE DEF s, u, d0
    <2>6. d0 \in Devices /\ d0.c = b.c /\ d0.v = b.v /\ d0.m = b.m /\ d0.e = u
      BY <2>2, <2>3, <2>4, <2>5 DEF Devices
    <2>7. Dev(d0)
      BY <2>2, <2>6 DEF Dev, Believed
    <2>8. FreshResult(d0.m) /\ (d0.c.maskR \/ d0.c.downR)
      BY <1>2, <2>2, <2>6 DEF SameCore
    <2> QED BY <2>4, <2>6, <2>7, <2>8, OverIsGood, OrFailIs
  <1> HIDE DEF d0
  <1>4. SiGood(h, board, clk)
    BY FinishRfIs
  <1> HIDE DEF h
  <1>5. SiGood(Si!OrFail(f), board, clk)
    <2>1. Dev(f) /\ FreshResult(f.m) /\ ~f.ok
      BY <1>2, RefusedIs DEF Dev, Rest
    <2> HIDE DEF f
    <2> QED BY <2>1, OrFailIs
  <1> HIDE DEF f
  <1>6. ASSUME w.e.phase # "Tail", clk < w.e.end, ~(clk < Si!EventEnd(w))
        PROVE  SiGood(Si!OrFail(r), board, clk)
    <2> DEFINE n == Len(w.e.plan.tone)
    <2>1. n \in Nat /\ DOMAIN w.e.plan.tone = 1..n
      BY <1>2, FirstToneIs
    <2>2. w.e.end = w.e.start + Step * n /\ Si!EventEnd(w) = w.e.start + Step * w.e.event
      BY <1>2 DEF InChain, Si!EventEnd
    <2>3. w.e.event \in 1..n
      BY <1>2, <2>1 DEF InTune
    <2> HIDE DEF n
    <2>4. w.e.event # n
      <3>1. w.e.start \in Int
        BY <1>2 DEF Dev, Devices, Engines
      <3> QED BY <1>6, <2>2
    <2>5. i \in DOMAIN w.e.plan.tone
      BY <2>1, <2>3, <2>4
    <2>6. Moved(x, w, i)
      BY <2>5, TransitionIs
    <2>7. i = w.e.event + 1 /\ i \in Nat
      BY <2>3
    <2> HIDE DEF x, i
    <2>8. ASSUME x.ok PROVE Dev(z) /\ FreshResult(z.m) /\ SiGood(z, board, clk)
      <3> DEFINE y == [x.e EXCEPT !.event = i]
                 u == [x EXCEPT !.e = y]
      <3>1. Dev(x) /\ x.e \in Engines /\ x.e.event + 1 = i
        BY <2>6, <2>7, <2>8 DEF Moved, Dev, Devices
      <3>2. z = u
        BY <3>1 DEF Dev, Devices, Engines
      <3>3. y \in Engines
        BY <2>7, <3>1 DEF Engines
      <3>4. y.st = x.e.st /\ y.plan = x.e.plan /\ y.primed = x.e.primed /\ y.event = i
            /\ y.phase = x.e.phase /\ y.start = x.e.start /\ y.end = x.e.end
        BY <3>1 DEF Engines
      <3> HIDE DEF y, z
      <3>5. Dev(u) /\ u.c = x.c /\ u.v = x.v /\ u.g = x.g /\ u.m = x.m /\ u.amp = x.amp
            /\ u.fil = x.fil /\ u.e = y
        BY <3>1, <3>3, WithEngine
      <3> HIDE DEF u
      <3>6. InTune(u)
        BY <1>2, <1>6, <2>5, <2>6, <2>8, <3>4, <3>5 DEF InTune, Moved, Tuned
      <3>7. InChain(u, board, clk)
        BY <2>6, <2>8, <3>4, <3>5 DEF Moved, InChain
      <3>8. u.e.st = "Running" /\ FreshResult(u.m) /\ (u.c.maskR \/ u.c.downR)
        BY <1>2, <2>6, <2>8, <3>4, <3>5 DEF Moved
      <3> QED BY <3>2, <3>5, <3>6, <3>7, <3>8 DEF SiGood, Dev
    <2> HIDE DEF z
    <2>9. Dev(r) /\ FreshResult(r.m) /\ (r.ok => SiGood(r, board, clk))
      BY <2>6, <2>8 DEF Moved
    <2> HIDE DEF r
    <2> QED BY <2>9, OrFailIs
  <1> HIDE DEF x, z, r
  <1>7. clk < w.e.end \/ clk >= w.e.end
    BY <1>2 DEF Dev, Devices, Engines
  <1> QED BY <1>1, <1>3, <1>4, <1>5, <1>6, <1>7

\* poll
LEMMA PollIs ==
    ASSUME NEW w, SiGood(w, board, clk), clk \in Nat, NEW h \in BOOLEAN, NEW n \in Int
    PROVE  SiGood(Si!PollOf(w, h, n), board, clk)
  <1>1. Dev(w) /\ FreshResult(w.m)
    BY DEF SiGood, Dev
  <1>2. CASE w.e.st = "Idle"
    <2> DEFINE x == Si!Service(w)
    <2>1. Dev(x) /\ FreshResult(x.m) /\ Steady(x, w)
      BY <1>1, ServiceIs
    <2>2. Si!PollOf(w, h, n) =
            IF w.e.plan = Si!NoPlan /\ ~w.e.inhibited /\ ~w.e.suspended THEN x ELSE w
      BY <1>2 DEF Si!PollOf
    <2> HIDE DEF x
    <2>3. w.e.plan = Si!NoPlan /\ ~w.e.suspended => SiGood(x, board, clk)
      BY <1>2, <2>1 DEF SiGood, Dev, Steady
    <2> QED BY <2>2, <2>3
  <1>3. CASE w.e.st = "Armed"
    <2> DEFINE y == [w.e EXCEPT !.start = n]
               x == [w EXCEPT !.e.start = n]
               f == Si!Fail(w, "Missed")
               z == Si!Filters(x)
    <2>1. Si!PollOf(w, h, n) = IF ~h \/ n >= w.e.deadline THEN f ELSE z
      BY <1>3 DEF Si!PollOf
    <2>2. SiGood(f, board, clk)
      BY <1>1, FailIs, SafeIsGood
    <2> HIDE DEF f
    <2>3. w.e \in Engines
      BY <1>1 DEF Dev, Devices
    <2>4. y \in Engines
      BY <2>3 DEF Engines
    <2>5. y.st = "Armed" /\ y.plan = w.e.plan /\ y.primed = w.e.primed /\ y.event = w.e.event
      BY <1>3, <2>3 DEF Engines
    <2>6. y.enable = w.e.enable /\ y.release = w.e.release /\ y.selection = w.e.selection
      BY <2>3 DEF Engines
    <2>7. x = [w EXCEPT !.e = y]
      BY <1>1 DEF Dev, Devices
    <2> HIDE DEF x, y
    <2>8. x \in Devices /\ x.c = w.c /\ x.v = w.v /\ x.m = w.m /\ x.amp = w.amp
          /\ x.fil = w.fil /\ x.e = y
      BY <1>1, <2>4, <2>7 DEF Dev, Devices
    <2>9. SiGood(x, board, clk) /\ x.e.st = "Armed"
      BY <1>3, <2>5, <2>6, <2>8, WaitingOn DEF SiGood, Waiting
    <2>10. SiGood(z, board, clk)
      BY <2>9, FiltersIs
    <2> HIDE DEF z
    <2> QED BY <2>1, <2>2, <2>10
  <1>4. CASE w.e.st = "Running"
    <2>1. Si!PollOf(w, h, n) = Si!PollRunning(w)
      BY <1>4 DEF Si!PollOf
    <2> QED BY <1>4, <2>1, PollRunningIs
  <1>5. CASE w.e.st \notin {"Idle", "Armed", "Running"}
    <2>1. Si!PollOf(w, h, n) = w
      BY <1>5 DEF Si!PollOf
    <2> QED BY <2>1
  <1> QED BY <1>2, <1>3, <1>4, <1>5

\* The state of the Si5351 board as a world in which nothing fails.
SiState == Si!World(Si!Fine)

\* The inductive invariant of the Si5351 board.
SiInv ==
    focus = "si5351" =>
        clk \in Nat /\ SiGood(SiState, board, clk)

\* The parts of the state.
SameParts(x, w) ==
    /\ x.c = w.c /\ x.v = w.v /\ x.g = w.g /\ x.e = w.e /\ x.m = w.m /\ x.amp = w.amp
    /\ x.fil = w.fil

\* The invariant speaks of the parts of the state.
LEMMA GoodParts ==
    ASSUME NEW w, NEW b, NEW t, SiGood(w, b, t), NEW x \in Devices, SameParts(x, w)
    PROVE  SiGood(x, b, t)
  <1>1. Believed(x, b) /\ FreshResult(x.m)
    BY DEF SiGood, Believed, SameParts
  <1>2. Ready(w) => Ready(x)
    BY DEF Ready, Tuned, SameParts
  <1>3. Waiting(w, b) => Waiting(x, b)
    BY <1>2 DEF Waiting, SameParts
  <1>4. InTune(w) => InTune(x)
    BY DEF InTune, Tuned, SameParts
  <1>5. InChain(w, b, t) => InChain(x, b, t)
    BY DEF InChain, SameParts
  <1> QED BY <1>1, <1>2, <1>3, <1>4, <1>5 DEF SiGood, SameParts

\* What a mode says of the call.
LEMMA ModesAre ==
    ASSUME NEW q \in Si!Modes
    PROVE  q.at \in Int /\ q.applied \in BOOLEAN /\ q.dead \in BOOLEAN /\ q.f \in Faults
           /\ q.lock \in BOOLEAN
  <1> DEFINE n == -1
             o == Si!Fine
             Failing(i, a, d0) == [o EXCEPT !.at = i, !.applied = a, !.dead = d0]
             A == {Failing(i, a, d0) :
                     i \in 0..MaxTransactions, a \in BOOLEAN, d0 \in BOOLEAN}
             B == {[o EXCEPT !.f = x] :
                     x \in {"gate", "alarm", "amp", "fil", "capture", "measure", "open"}}
             C == {[o EXCEPT !.lock = FALSE]}
  <1>1. q = o \/ q \in A \/ q \in B \/ q \in C
    <2>1. Si!Failures = A \cup B \cup C
      BY DEF Si!Failures
    <2> HIDE DEF o, A, B, C
    <2>2. q = o \/ q \in Si!Failures
      BY DEF Si!Modes, o
    <2> QED BY <2>1, <2>2
  <1>2. n \in Int /\ o = [at |-> n, applied |-> FALSE, dead |-> FALSE, f |-> "none", lock |-> TRUE]
    BY DEF Si!Fine, Si!None
  <1> HIDE DEF n, o
  <1>3. CASE q = o
    BY <1>2, <1>3 DEF Faults
  <1>4. CASE q \in A
    <2> HIDE DEF Failing
    <2>1. PICK i \in 0..MaxTransactions, a \in BOOLEAN, d0 \in BOOLEAN : q = Failing(i, a, d0)
      BY <1>4
    <2> USE DEF Failing
    <2>2. q = [o EXCEPT !.at = i, !.applied = a, !.dead = d0]
      BY <2>1
    <2> QED BY <1>2, <2>2 DEF Faults
  <1>5. CASE q \in B
    <2>1. PICK x \in {"gate", "alarm", "amp", "fil", "capture", "measure", "open"} :
            q = [o EXCEPT !.f = x]
      BY <1>5
    <2> QED BY <1>2, <2>1 DEF Faults
  <1>6. CASE q \in C
    BY <1>2, <1>6 DEF Faults
  <1> HIDE DEF A, B, C
  <1> QED BY <1>1, <1>3, <1>4, <1>5, <1>6

\* Whatever is to fail, a call begins in a good world.
LEMMA SiWorldIs ==
    ASSUME SiGood(SiState, board, clk), NEW q \in Si!Modes
    PROVE  /\ SiGood(Si!World(q), board, clk) /\ Dev(Si!World(q)) /\ FreshResult(Si!World(q).m)
           /\ Si!World(q).e = engine
  <1> DEFINE w == Si!World(q)
  <1>1. SameParts(w, SiState) /\ w.e = engine
    BY DEF SameParts, SiState, Si!World
  <1>2. chip \in Chips /\ belief \in Beliefs /\ gating \in Gatings /\ engine \in Engines
        /\ monitor \in Monitors /\ pa \in SiOutputs /\ lpf \in SiOutputs
    BY DEF SiGood, Devices, SiState, Si!World
  <1>3. w \in Devices
    BY <1>2, ModesAre DEF Devices, Si!World
  <1> HIDE DEF w
  <1>4. SiGood(w, board, clk)
    BY <1>1, <1>3, GoodParts
  <1> QED BY <1>1, <1>4 DEF SiGood, Dev, w

\* What a call leaves.
LEMMA CallIs ==
    ASSUME NEW w, SiGood(w, board, clk), NEW q, Si!Call(w, q)
    PROVE  SiGood(SiState, board, clk)' /\ board' = board /\ clk' = clk
  <1> DEFINE x == SiState'
             n == -1
  <1>1. board' = board /\ clk' = clk
    BY DEF Si!Call
  <1>2. chip' = w.c /\ belief' = w.v /\ gating' = w.g /\ engine' = w.e /\ monitor' = w.m
        /\ pa' = w.amp /\ lpf' = w.fil
    BY DEF Si!Call, Si!Became
  <1>3. x = [c |-> chip', v |-> belief', g |-> gating', e |-> engine', m |-> monitor',
             amp |-> pa', fil |-> lpf', at |-> n, applied |-> FALSE, dead |-> FALSE, f |-> "none",
             lock |-> TRUE, ok |-> TRUE]
    BY DEF SiState, Si!World, Si!Fine, Si!None
  <1>4. n \in Int /\ "none" \in Faults
    BY DEF Faults
  <1> HIDE DEF x, n
  <1>5. w \in Devices
    BY DEF SiGood
  <1>6. x \in Devices
    BY <1>2, <1>3, <1>4, <1>5 DEF Devices
  <1>7. SameParts(x, w)
    BY <1>2, <1>3 DEF SameParts
  <1>8. SiGood(x, board, clk)
    BY <1>6, <1>7, GoodParts
  <1> QED BY <1>1, <1>8 DEF x

\* What an action leaves that is no call: a good world.
LEMMA NoCallIs ==
    ASSUME NEW w, SiGood(w, board', clk'), w.at = -1, ~w.applied, ~w.dead, w.f = "none", w.lock,
           w.ok, chip' = w.c, belief' = w.v, gating' = w.g, engine' = w.e, monitor' = w.m,
           pa' = w.amp, lpf' = w.fil
    PROVE  SiGood(SiState, board, clk)'
  <1> DEFINE x == SiState'
             n == -1
  <1>1. x = [c |-> chip', v |-> belief', g |-> gating', e |-> engine', m |-> monitor',
             amp |-> pa', fil |-> lpf', at |-> n, applied |-> FALSE, dead |-> FALSE, f |-> "none",
             lock |-> TRUE, ok |-> TRUE]
    BY DEF SiState, Si!World, Si!Fine, Si!None
  <1>2. n \in Int /\ "none" \in Faults
    BY DEF Faults
  <1> HIDE DEF x, n
  <1>3. w \in Devices
    BY DEF SiGood
  <1>4. x \in Devices
    BY <1>1, <1>2, <1>3 DEF Devices
  <1>5. SameParts(x, w)
    BY <1>1 DEF SameParts
  <1>6. SiGood(x, board', clk')
    BY <1>4, <1>5, GoodParts
  <1> QED BY <1>6 DEF x

\* The present state.
LEMMA StateIs ==
    ASSUME SiGood(SiState, board, clk)
    PROVE  /\ SiState.c = chip /\ SiState.v = belief /\ SiState.g = gating /\ SiState.e = engine
           /\ SiState.m = monitor /\ SiState.amp = pa /\ SiState.fil = lpf
           /\ SiState.at = -1 /\ ~SiState.applied /\ ~SiState.dead /\ SiState.f = "none"
           /\ SiState.lock /\ SiState.ok
           /\ Dev(SiState) /\ FreshResult(monitor)
           /\ chip \in Chips /\ belief \in Beliefs /\ gating \in Gatings /\ engine \in Engines
           /\ monitor \in Monitors /\ pa \in SiOutputs /\ lpf \in SiOutputs
  <1>1. /\ SiState.c = chip /\ SiState.v = belief /\ SiState.g = gating /\ SiState.e = engine
        /\ SiState.m = monitor /\ SiState.amp = pa /\ SiState.fil = lpf
        /\ SiState.at = -1 /\ ~SiState.applied /\ ~SiState.dead /\ SiState.f = "none"
        /\ SiState.lock /\ SiState.ok
    BY DEF SiState, Si!World, Si!Fine, Si!None
  <1>2. SiState \in Devices
    BY DEF SiGood
  <1>3. Dev(SiState) /\ FreshResult(monitor)
    BY <1>1 DEF SiGood, Dev
  <1>4. /\ chip \in Chips /\ belief \in Beliefs /\ gating \in Gatings /\ engine \in Engines
        /\ monitor \in Monitors /\ pa \in SiOutputs /\ lpf \in SiOutputs
    BY <1>1, <1>2 DEF Devices
  <1> QED BY <1>1, <1>3, <1>4

\* prepare, begin, poll, disable, suspend_background: any of them, with a failure.
LEMMA CallsAreGood ==
    ASSUME SiGood(SiState, board, clk), clk \in Nat,
           Si!Prepare \/ Si!Begin \/ Si!Poll \/ Si!DisableOutput \/ Si!SuspendBackground
    PROVE  SiGood(SiState, board, clk)' /\ board' = board /\ clk' = clk
  <1>1. CASE Si!Prepare
    <2>1. PICK job \in Jobs, q \in Si!Modes : Si!Call(Si!PrepareOf(Si!World(q), job), q)
      BY <1>1 DEF Si!Prepare
    <2>2. engine.st = "Idle"
      BY <1>1 DEF Si!Prepare
    <2>3. Dev(Si!World(q)) /\ FreshResult(Si!World(q).m) /\ Si!World(q).e = engine
      BY SiWorldIs
    <2> DEFINE w == Si!World(q)
               x == Si!PrepareOf(w, job)
    <2> HIDE DEF w
    <2>4. SiGood(x, board, clk)
      BY <2>2, <2>3, PrepareIs DEF w
    <2>5. Si!Call(x, q)
      BY <2>1 DEF w
    <2> HIDE DEF x
    <2> QED BY <2>4, <2>5, CallIs
  <1>2. CASE Si!Begin
    <2> DEFINE n == clk + Si!LeadOf + Si!Preparation + 1
    <2>1. PICK q \in Si!Modes : Si!Call(Si!BeginOf(Si!World(q), n), q)
      BY <1>2 DEF Si!Begin
    <2>2. engine.st = "Idle" /\ engine.plan # Si!NoPlan
      BY <1>2 DEF Si!Begin
    <2>3. n \in Int
      BY SinkAssumption DEF Si!LeadOf, Si!Preparation
    <2> HIDE DEF n
    <2>4. SiGood(Si!World(q), board, clk) /\ Si!World(q).e = engine
      BY SiWorldIs
    <2> DEFINE w == Si!World(q)
               x == Si!BeginOf(w, n)
    <2> HIDE DEF w
    <2>5. SiGood(x, board, clk)
      BY <2>2, <2>3, <2>4, BeginIs DEF w
    <2>6. Si!Call(x, q)
      BY <2>1 DEF w
    <2> HIDE DEF x
    <2> QED BY <2>5, <2>6, CallIs
  <1>3. CASE Si!Poll
    <2>1. PICK q \in Si!Modes, shift \in {0, 1}, h \in BOOLEAN :
            Si!Call(Si!PollOf(Si!World(q), h, Si!Start(shift)), q)
      BY <1>3 DEF Si!Poll
    <2> DEFINE n == Si!Start(shift)
    <2>2. n \in Int
      BY StateIs DEF Si!Start, Engines
    <2>3. Si!Call(Si!PollOf(Si!World(q), h, n), q)
      BY <2>1
    <2> HIDE DEF n
    <2>4. SiGood(Si!World(q), board, clk)
      BY SiWorldIs
    <2> DEFINE w == Si!World(q)
               x == Si!PollOf(w, h, n)
    <2> HIDE DEF w
    <2>5. SiGood(x, board, clk)
      BY <2>2, <2>4, PollIs DEF w
    <2>6. Si!Call(x, q)
      BY <2>3 DEF w
    <2> HIDE DEF x
    <2> QED BY <2>5, <2>6, CallIs
  <1>4. CASE Si!DisableOutput
    <2>1. PICK q \in Si!Modes : Si!Call(Si!Disable(Si!World(q)), q)
      BY <1>4 DEF Si!DisableOutput
    <2>2. Dev(Si!World(q)) /\ FreshResult(Si!World(q).m)
      BY SiWorldIs
    <2> DEFINE w == Si!World(q)
               x == Si!Disable(w)
    <2> HIDE DEF w
    <2>3. Safe(x)
      BY <2>2, DisableIs DEF w
    <2>4. Si!Call(x, q)
      BY <2>1 DEF w
    <2> HIDE DEF x
    <2> QED BY <2>3, <2>4, SafeIsGood, CallIs
  <1>5. CASE Si!SuspendBackground
    <2>1. PICK q \in Si!Modes : Si!Call(Si!SuspendOf(Si!World(q)), q)
      BY <1>5 DEF Si!SuspendBackground
    <2>2. engine.st = "Idle" /\ ~engine.suspended
      BY <1>5 DEF Si!SuspendBackground
    <2>3. SiGood(Si!World(q), board, clk) /\ Si!World(q).e = engine
      BY SiWorldIs
    <2> DEFINE w == Si!World(q)
               x == Si!SuspendOf(w)
    <2> HIDE DEF w
    <2>4. SiGood(x, board, clk)
      BY <2>2, <2>3, SuspendIs DEF w
    <2>5. Si!Call(x, q)
      BY <2>1 DEF w
    <2> HIDE DEF x
    <2> QED BY <2>4, <2>5, CallIs
  <1> QED BY <1>1, <1>2, <1>3, <1>4, <1>5

\* y has of the engine z what the invariant speaks of.
SameJob(y, z) ==
    /\ y.st = z.st /\ y.phase = z.phase /\ y.plan = z.plan /\ y.primed = z.primed
    /\ y.event = z.event /\ y.start = z.start /\ y.end = z.end /\ y.enable = z.enable
    /\ y.release = z.release /\ y.selection = z.selection /\ (y.suspended => z.suspended)

\* The engine may change in all else.
LEMMA OtherFields ==
    ASSUME NEW w, SiGood(w, board, clk), NEW x \in Devices, FreshResult(x.m), SameJob(x.e, w.e),
           x.c = w.c, x.v = w.v, x.g = w.g, x.amp = w.amp, x.fil = w.fil
    PROVE  SiGood(x, board, clk)
  <1>1. Believed(x, board)
    BY DEF SiGood, Believed
  <1>2. Ready(w) => Ready(x)
    BY DEF Ready, Tuned, SameJob
  <1>3. Waiting(w, board) => Waiting(x, board)
    BY <1>2 DEF Waiting, SameJob
  <1>4. InTune(w) => InTune(x)
    BY DEF InTune, Tuned, SameJob
  <1>5. InChain(w, board, clk) => InChain(x, board, clk)
    BY DEF InChain, SameJob
  <1> QED BY <1>1, <1>2, <1>3, <1>4, <1>5 DEF SiGood, SameJob

\* inhibit_output, resume_background and the indicator's answer.
LEMMA FlagsAreGood ==
    ASSUME SiGood(SiState, board, clk),
           Si!InhibitOutput \/ Si!ResumeBackground \/ Si!IndicatorAcknowledges
    PROVE  SiGood(SiState, board, clk)' /\ board' = board /\ clk' = clk
  <1>0. /\ SiState.c = chip /\ SiState.v = belief /\ SiState.g = gating /\ SiState.e = engine
        /\ SiState.m = monitor /\ SiState.amp = pa /\ SiState.fil = lpf
        /\ SiState.at = -1 /\ ~SiState.applied /\ ~SiState.dead /\ SiState.f = "none"
        /\ SiState.lock /\ SiState.ok
        /\ engine \in Engines /\ monitor \in Monitors /\ FreshResult(monitor)
    BY StateIs
  <1>1. CASE Si!InhibitOutput
    <2> DEFINE n == -1
               y == [engine EXCEPT !.inhibited = TRUE]
               z == [monitor EXCEPT !.inhibited = TRUE, !.latest = n]
               w == [SiState EXCEPT !.e = y, !.m = z]
    <2>1. engine' = y /\ monitor' = z
      BY <1>1 DEF Si!InhibitOutput, Si!None
    <2>2. board' = board /\ clk' = clk /\ chip' = chip /\ belief' = belief /\ gating' = gating
          /\ pa' = pa /\ lpf' = lpf
      BY <1>1 DEF Si!InhibitOutput
    <2>3. n \in Int /\ n = -1
      OBVIOUS
    <2> HIDE DEF n
    <2>4. z \in Monitors /\ z.latest = n
      BY <1>0, <2>3 DEF Monitors
    <2>5. y \in Engines
      BY <1>0 DEF Engines
    <2>6. SameJob(y, SiState.e)
      BY <1>0 DEF Engines, SameJob
    <2>7. FreshResult(z)
      BY <2>3, <2>4 DEF FreshResult
    <2> HIDE DEF y, z
    <2>8. /\ SiGood(w, board, clk) /\ w.c = chip /\ w.v = belief /\ w.g = gating /\ w.e = y
          /\ w.m = z /\ w.amp = pa /\ w.fil = lpf /\ w.at = -1 /\ ~w.applied
          /\ ~w.dead /\ w.f = "none" /\ w.lock /\ w.ok
      <3>1. SiState \in Devices
        BY DEF SiGood
      <3>2. w \in Devices
        BY <1>0, <2>4, <2>5, <3>1 DEF Devices
      <3>3. /\ w.c = chip /\ w.v = belief /\ w.g = gating
            /\ w.e = y /\ w.m = z /\ w.amp = pa /\ w.fil = lpf
        BY <1>0, <3>1 DEF Devices
      <3>4. w.at = -1 /\ ~w.applied /\ ~w.dead /\ w.f = "none" /\ w.lock /\ w.ok
        BY <1>0, <3>1 DEF Devices
      <3> HIDE DEF w
      <3>5. SiGood(w, board, clk)
        BY <1>0, <2>6, <2>7, <3>2, <3>3, OtherFields
      <3> QED BY <3>3, <3>4, <3>5
    <2> HIDE DEF w
    <2>9. SiGood(SiState, board, clk)'
      BY <2>1, <2>2, <2>8, NoCallIs
    <2> QED BY <2>2, <2>9
  <1>2. CASE Si!ResumeBackground \/ Si!IndicatorAcknowledges
    <2> DEFINE y == IF Si!ResumeBackground THEN [engine EXCEPT !.suspended = FALSE]
                    ELSE [engine EXCEPT !.ack = TRUE]
               w == [SiState EXCEPT !.e = y]
    <2>1. engine' = y
      BY <1>2 DEF Si!ResumeBackground, Si!IndicatorAcknowledges
    <2>2. board' = board /\ clk' = clk /\ chip' = chip /\ belief' = belief /\ gating' = gating
          /\ pa' = pa /\ lpf' = lpf /\ monitor' = monitor
      BY <1>2 DEF Si!ResumeBackground, Si!IndicatorAcknowledges
    <2>3. y = [engine EXCEPT !.suspended = FALSE] \/ y = [engine EXCEPT !.ack = TRUE]
      OBVIOUS
    <2> HIDE DEF y
    <2>5. y \in Engines
      <3>1. [engine EXCEPT !.suspended = FALSE] \in Engines
        BY <1>0 DEF Engines
      <3>2. [engine EXCEPT !.ack = TRUE] \in Engines
        BY <1>0 DEF Engines
      <3> QED BY <2>3, <3>1, <3>2
    <2>6. SameJob(y, SiState.e)
      <3>1. CASE y = [engine EXCEPT !.suspended = FALSE]
        <4>1. ~y.suspended
          BY <1>0, <3>1 DEF Engines
        <4>2. /\ y.st = engine.st /\ y.phase = engine.phase /\ y.plan = engine.plan
              /\ y.primed = engine.primed /\ y.event = engine.event /\ y.start = engine.start
              /\ y.end = engine.end /\ y.enable = engine.enable /\ y.release = engine.release
              /\ y.selection = engine.selection
          BY <1>0, <3>1 DEF Engines
        <4> QED BY <1>0, <4>1, <4>2 DEF SameJob
      <3>2. CASE y = [engine EXCEPT !.ack = TRUE]
        BY <1>0, <3>2 DEF Engines, SameJob
      <3> QED BY <2>3, <3>1, <3>2
    <2>8. /\ SiGood(w, board, clk) /\ w.c = chip /\ w.v = belief /\ w.g = gating /\ w.e = y
          /\ w.m = monitor /\ w.amp = pa /\ w.fil = lpf /\ w.at = -1 /\ ~w.applied
          /\ ~w.dead /\ w.f = "none" /\ w.lock /\ w.ok
      <3>1. SiState \in Devices
        BY DEF SiGood
      <3>2. w \in Devices
        BY <1>0, <2>5, <3>1 DEF Devices
      <3>3. /\ w.c = chip /\ w.v = belief /\ w.g = gating
            /\ w.e = y /\ w.m = monitor /\ w.amp = pa /\ w.fil = lpf
        BY <1>0, <3>1 DEF Devices
      <3>4. w.at = -1 /\ ~w.applied /\ ~w.dead /\ w.f = "none" /\ w.lock /\ w.ok
        BY <1>0, <3>1 DEF Devices
      <3> HIDE DEF w
      <3>5. SiGood(w, board, clk)
        BY <1>0, <2>6, <3>2, <3>3, OtherFields
      <3> QED BY <3>3, <3>4, <3>5
    <2> HIDE DEF w
    <2>9. SiGood(SiState, board, clk)'
      BY <2>1, <2>2, <2>8, NoCallIs
    <2> QED BY <2>2, <2>9
  <1> QED BY <1>1, <1>2

\* The alarm closes the gate; a chain stays ready behind it.
LEMMA CutoffIsGood ==
    ASSUME SiGood(SiState, board, clk), Si!Cutoff
    PROVE  SiGood(SiState, board, clk)' /\ board' = board /\ clk' = clk
  <1> DEFINE n == -1
             s == Si!SetGate(SiState, FALSE)
             y == [s.g EXCEPT !.cutoff = n, !.expired = TRUE]
             w == [SiState EXCEPT !.g = y]
  <1>1. gating' = y
    BY DEF Si!Cutoff, Si!None, SiState
  <1>2. board' = board /\ clk' = clk /\ chip' = chip /\ belief' = belief /\ engine' = engine
        /\ monitor' = monitor /\ pa' = pa /\ lpf' = lpf
    BY DEF Si!Cutoff
  <1>3. n \in Int
    OBVIOUS
  <1> HIDE DEF n
  <1>4. s.g \in Gatings /\ (board.gate => ~s.g.pad)
    <2>1. s = IF ~board.gate THEN SiState
              ELSE [SiState EXCEPT !.g.pad = FALSE, !.g.active = FALSE, !.g.unknown = FALSE]
      BY StateIs DEF Si!SetGate
    <2>2. SiState \in Devices
      BY DEF SiGood
    <2> HIDE DEF s
    <2> QED BY <2>1, <2>2 DEF Devices, Gatings
  <1> HIDE DEF s
  <1>5. y \in Gatings /\ y.expired /\ (board.gate => ~y.pad)
    BY <1>3, <1>4 DEF Gatings
  <1> HIDE DEF y
  <1>6. SiState \in Devices
    BY DEF SiGood
  <1>7. w \in Devices
    BY <1>5, <1>6 DEF Devices
  <1>8. w.c = chip /\ w.v = belief /\ w.g = y /\ w.e = engine /\ w.m = monitor
        /\ w.amp = pa /\ w.fil = lpf
    BY <1>6, StateIs DEF Devices
  <1>9. w.at = -1 /\ ~w.applied /\ ~w.dead /\ w.f = "none" /\ w.lock /\ w.ok
    BY <1>6, StateIs DEF Devices
  <1> HIDE DEF w
  <1>10. SiGood(w, board, clk)
    <2>1. Believed(w, board) /\ FreshResult(w.m)
      BY <1>8, StateIs DEF SiGood, Believed
    <2>2. Ready(SiState) => Ready(w)
      BY <1>8, StateIs DEF Ready, Tuned
    <2>3. Waiting(SiState, board) => Waiting(w, board)
      BY <1>8, <2>2, StateIs DEF Waiting
    <2>4. InTune(SiState) => InTune(w)
      BY <1>8, StateIs DEF InTune, Tuned
    <2>5. InChain(SiState, board, clk) => InChain(w, board, clk)
      BY <1>5, <1>8, StateIs DEF InChain
    <2> QED BY <1>7, <1>8, <2>1, <2>2, <2>3, <2>4, <2>5, StateIs DEF SiGood
  <1>11. SiGood(SiState, board, clk)'
    BY <1>1, <1>2, <1>8, <1>9, <1>10, NoCallIs
  <1> QED BY <1>2, <1>11

\* Time: a gate that is open is cut off before the end is passed.
LEMMA TickIsGood ==
    ASSUME SiGood(SiState, board, clk), clk \in Nat, Si!Tick
    PROVE  SiGood(SiState, board, clk)' /\ board' = board /\ clk' = clk + 1
  <1>1. board' = board /\ clk' = clk + 1 /\ chip' = chip /\ belief' = belief /\ engine' = engine
        /\ monitor' = monitor /\ pa' = pa /\ lpf' = lpf /\ gating' = gating
        /\ (gating.cutoff # -1 => clk < gating.cutoff)
    BY DEF Si!Tick, Si!None
  <1>2. InChain(SiState, board, clk) => InChain(SiState, board, clk + 1)
    <2>1. pa.since \in Nat /\ lpf.since \in Nat /\ gating.cutoff \in Int /\ engine.end \in Int
          /\ AmpLead \in Nat /\ Settle \in Nat
      BY StateIs, SinkAssumption DEF SiOutputs, Gatings, Engines
    <2>2. SiState.amp = pa /\ SiState.fil = lpf /\ SiState.g = gating /\ SiState.e = engine
      BY StateIs
    <2>3. clk - pa.since >= AmpLead => clk + 1 - pa.since >= AmpLead
      BY <2>1
    <2>4. clk - lpf.since >= Settle => clk + 1 - lpf.since >= Settle
      BY <2>1
    <2>5. clk >= 0 /\ gating.cutoff = engine.end /\ clk <= engine.end => clk + 1 <= engine.end
      BY <1>1, <2>1
    <2>6. ASSUME InChain(SiState, board, clk) PROVE InChain(SiState, board, clk + 1)
      <3> DEFINE t == clk + 1
      <3>1. t = clk + 1 /\ t \in Nat
        OBVIOUS
      <3> HIDE DEF t
      <3>2. board.amp => SiState.amp.pad /\ t - SiState.amp.since >= AmpLead
        BY <2>1, <2>2, <2>3, <2>6, <3>1 DEF InChain
      <3>3. board.fil => SiState.fil.pad /\ t - SiState.fil.since >= Settle
        BY <2>1, <2>2, <2>4, <2>6, <3>1 DEF InChain
      <3>4. board.gate => \/ SiState.g.cutoff = SiState.e.end /\ t <= SiState.e.end
                          \/ SiState.g.expired /\ ~SiState.g.pad
        BY <2>1, <2>2, <2>5, <2>6, <3>1 DEF InChain
      <3>5. SiState.e.end = SiState.e.start + Step * Len(SiState.e.plan.tone)
        BY <2>6 DEF InChain
      <3>6. InChain(SiState, board, t)
        BY <3>2, <3>3, <3>4, <3>5, Zenon DEF InChain
      <3> QED BY <3>6 DEF t
    <2> QED BY <2>6
  <1>3. SiGood(SiState, board, clk + 1)
    BY <1>2 DEF SiGood
  <1>4. SiGood(SiState, board', clk')
    BY <1>1, <1>3
  <1>5. SiGood(SiState, board, clk)'
    BY <1>1, <1>4, StateIs, NoCallIs
  <1> QED BY <1>1, <1>5

\* Power-up: everything is masked, nothing is believed.
LEMMA SiInitIsGood ==
    ASSUME Si!Init
    PROVE  clk \in Nat /\ SiGood(SiState, board, clk)
  <1> DEFINE n == -1
             o == 0
             i == 1
  <1>1. n \in Int /\ o \in Nat /\ i \in Nat /\ n = -1
    OBVIOUS
  <1>2. clk = o
    BY DEF Si!Init
  <1>3. chip = [maskT |-> TRUE, downT |-> FALSE, maskR |-> TRUE, downR |-> FALSE,
                pll |-> "none", ms |-> "none"]
    BY DEF Si!Init, Si!NoTone
  <1>4. belief = [tx |-> "unknown", ref |-> "unknown", conf |-> FALSE, pll |-> "none",
                  ms |-> "none", txLock |-> FALSE, refLock |-> FALSE, txConf |-> FALSE,
                  primed |-> FALSE, pending |-> "none", mask |-> FALSE]
    BY DEF Si!Init, Si!Faulted, Si!NoTone
  <1>5. gating = [pad |-> FALSE, active |-> FALSE, unknown |-> FALSE, cutoff |-> n,
                 expired |-> FALSE]
    BY DEF Si!Init, Si!None
  <1>6. engine = [st |-> "Idle", phase |-> "Inactive", plan |-> Si!NoPlan, primed |-> "none",
                  start |-> o, end |-> o, deadline |-> o, release |-> n, selection |-> n,
                  enable |-> n, tail |-> n, launch |-> n, event |-> i, inhibited |-> FALSE,
                  suspended |-> FALSE, req |-> FALSE, ack |-> FALSE]
    BY DEF Si!Init, Si!Cleared, Si!NoTone, Si!None
  <1>7. monitor = [measuring |-> FALSE, faulted |-> FALSE, inhibited |-> FALSE, latest |-> n,
                   gen |-> i, started |-> o, retry |-> o]
    BY DEF Si!Init, Si!None
  <1>8. pa = [pad |-> FALSE, off |-> TRUE, on |-> FALSE, since |-> o]
        /\ lpf = [pad |-> FALSE, off |-> TRUE, on |-> FALSE, since |-> o]
    BY DEF Si!Init
  <1>9. SiState = [c |-> chip, v |-> belief, g |-> gating, e |-> engine, m |-> monitor,
                   amp |-> pa, fil |-> lpf, at |-> n, applied |-> FALSE, dead |-> FALSE,
                   f |-> "none", lock |-> TRUE, ok |-> TRUE]
    BY DEF SiState, Si!World, Si!Fine, Si!None
  <1> HIDE DEF n, o, i
  <1>10. chip \in Chips /\ "none" \in Names /\ "none" \in Faults
    BY <1>3 DEF Chips, Names, Faults
  <1>11. belief \in Beliefs
    BY <1>4, <1>10 DEF Beliefs, Levels3
  <1>12. gating \in Gatings
    BY <1>1, <1>5 DEF Gatings
  <1>13. engine \in Engines
    <2> DEFINE p == Si!NoPlan
    <2>1. p \in Jobs \cup {Si!NoPlan}
      OBVIOUS
    <2>2. engine.plan = p /\ "Inactive" \in Phases
      BY <1>6 DEF Phases
    <2> HIDE DEF p
    <2>3. engine = [st |-> "Idle", phase |-> "Inactive", plan |-> p, primed |-> "none",
                    start |-> o, end |-> o, deadline |-> o, release |-> n, selection |-> n,
                    enable |-> n, tail |-> n, launch |-> n, event |-> i, inhibited |-> FALSE,
                    suspended |-> FALSE, req |-> FALSE, ack |-> FALSE]
      BY <1>6 DEF p
    <2> QED BY <1>1, <1>10, <2>1, <2>2, <2>3 DEF Engines
  <1>14. monitor \in Monitors
    BY <1>1, <1>7 DEF Monitors
  <1>15. pa \in SiOutputs /\ lpf \in SiOutputs
    BY <1>1, <1>8 DEF SiOutputs
  <1>16. SiState \in Devices
    BY <1>1, <1>9, <1>10, <1>11, <1>12, <1>13, <1>14, <1>15 DEF Devices
  <1>17. SiState.c = chip /\ SiState.v = belief /\ SiState.e = engine /\ SiState.m = monitor
    BY <1>9
  <1>18. chip.maskT /\ chip.maskR /\ belief.tx = "unknown" /\ belief.ref = "unknown"
         /\ ~belief.conf /\ belief.pll = "none" /\ belief.ms = "none"
    BY <1>3, <1>4
  <1>19. engine.st = "Idle" /\ engine.plan = Si!NoPlan
    BY <1>6
  <1>20. Believed(SiState, board)
    BY <1>17, <1>18 DEF Believed
  <1>21. FreshResult(monitor)
    BY <1>1, <1>7 DEF FreshResult
  <1>22. SiGood(SiState, board, clk)
    BY <1>16, <1>17, <1>18, <1>19, <1>20, <1>21 DEF SiGood
  <1> QED BY <1>1, <1>2, <1>22

\* The invariant of the Si5351 board holds at first, and every step keeps it.
THEOREM SiInvariant == RfSpec => []SiInv
  <1>1. RfInit => SiInv
    BY SiInitIsGood DEF RfInit, SiInv
  <1>2. SiInv /\ [RfNext]_<<focus, vars, SiVars>> => SiInv'
    <2> SUFFICES ASSUME SiInv, [RfNext]_<<focus, vars, SiVars>>, focus' = "si5351"
                 PROVE  clk' \in Nat /\ SiGood(SiState, board, clk)'
      BY DEF SiInv
    <2>1. CASE focus = "si5351" /\ Si!Next
      <3>1. clk \in Nat /\ SiGood(SiState, board, clk)
        BY <2>1 DEF SiInv
      <3>2. CASE Si!Prepare \/ Si!Begin \/ Si!Poll \/ Si!DisableOutput \/ Si!SuspendBackground
        BY <3>1, <3>2, CallsAreGood
      <3>3. CASE Si!InhibitOutput \/ Si!ResumeBackground \/ Si!IndicatorAcknowledges
        BY <3>1, <3>3, FlagsAreGood
      <3>4. CASE Si!Cutoff
        BY <3>1, <3>4, CutoffIsGood
      <3>5. CASE Si!Tick
        BY <3>1, <3>5, TickIsGood
      <3> QED BY <2>1, <3>2, <3>3, <3>4, <3>5 DEF Si!Next
    <2>2. CASE focus = "sink" /\ UNCHANGED focus
      BY <2>2
    <2>3. CASE UNCHANGED <<focus, vars, SiVars>>
      <3>1. focus = "si5351" /\ board' = board /\ clk' = clk /\ chip' = chip /\ belief' = belief
            /\ gating' = gating /\ engine' = engine /\ monitor' = monitor /\ pa' = pa /\ lpf' = lpf
        BY <2>3 DEF SiVars
      <3>2. clk \in Nat /\ SiGood(SiState, board, clk)
        BY <3>1 DEF SiInv
      <3>3. SiGood(SiState, board', clk')
        BY <3>1, <3>2
      <3> QED BY <3>1, <3>2, <3>3, StateIs, NoCallIs
    <2> QED BY <2>1, <2>2, <2>3 DEF RfNext
  <1> QED BY <1>1, <1>2, PTL DEF RfSpec

\* Whatever tones, gaps, failed transactions and earlier jobs came before: while
\* RF is out, the chip is tuned to the tone of the present event behind a chain
\* that is ready and a gate whose cutoff is not past, and an engine that reports
\* its output off radiates nothing (si5351_engine.cpp, si5351_device.cpp).
THEOREM SiToneSound == RfSpec => []ToneSound
  <1>1. SiInv => ToneSound
    <2> SUFFICES ASSUME SiInv, focus = "si5351"
                 PROVE  Si!RightTone /\ Si!NeverSilent /\ Si!SiChain
      BY DEF ToneSound
    <2>1. SiGood(SiState, board, clk)
      BY DEF SiInv
    <2>2. SiState.c = chip /\ SiState.v = belief /\ SiState.g = gating /\ SiState.e = engine
          /\ SiState.amp = pa /\ SiState.fil = lpf
      BY <2>1, StateIs
    <2>3. belief.tx = "disabled" => chip.maskT
      BY <2>1, <2>2 DEF SiGood, Believed
    <2>4. Si!NeverSilent
      BY <2>2, <2>3 DEF Si!NeverSilent, Si!Radiates, Si!OutputActive, SiState
    <2>5. Si!RightTone
      <3> SUFFICES ASSUME Si!Radiates, engine.st = "Running"
                   PROVE  LET t == engine.plan.tone[engine.event]
                          IN t # "off" /\ chip.pll = Si!TonePll(engine.plan, t)
                             /\ chip.ms = Si!ToneMs(engine.plan, t)
        BY DEF Si!RightTone, Si!Off
      <3> DEFINE t == engine.plan.tone[engine.event]
      <3>1. InTune(SiState) /\ engine.plan \in Jobs
        BY <2>1, <2>2 DEF SiGood, InTune
      <3>2. ~chip.maskT
        BY DEF Si!Radiates
      <3>3. t # "off" /\ engine.primed = t
        BY <2>2, <2>3, <3>1, <3>2 DEF InTune
      <3> HIDE DEF t
      <3>4. t \in Si!Tones(engine.plan) /\ belief.pll = Si!TonePll(engine.plan, t)
            /\ belief.ms = Si!ToneMs(engine.plan, t)
        BY <2>2, <3>1, <3>3 DEF InTune, Tuned
      <3>5. belief.pll # "none" /\ belief.ms # "none"
        BY <3>1, <3>4, ToneNames
      <3>6. chip.pll = belief.pll /\ chip.ms = belief.ms
        BY <2>1, <2>2, <3>5 DEF SiGood, Believed
      <3> QED BY <3>3, <3>4, <3>6 DEF t
    <2>6. Si!SiChain
      <3> SUFFICES ASSUME Si!Radiates, engine.st = "Running"
                   PROVE  /\ board.amp => pa.pad /\ clk - pa.since >= AmpLead
                          /\ board.fil => lpf.pad /\ clk - lpf.since >= Settle
                          /\ board.gate => clk <= engine.end
        BY DEF Si!SiChain
      <3>1. InChain(SiState, board, clk)
        BY <2>1, <2>2 DEF SiGood
      <3>2. board.gate => gating.pad
        BY DEF Si!Radiates
      <3> QED BY <2>2, <3>1, <3>2 DEF InChain
    <2> QED BY <2>4, <2>5, <2>6
  <1> QED BY <1>1, SiInvariant, PTL

\* The reference output is quiet from the preparation of a job to its end, and
\* while the flash is written; a result of the monitor is of the configuration
\* the chip has (reference_monitor.cpp, si5351_engine.cpp).
THEOREM SiRefQuiet == RfSpec => []RefQuiet
  <1>1. SiInv => RefQuiet
    <2> SUFFICES ASSUME SiInv, focus = "si5351" PROVE Si!RefQuiet
      BY DEF RefQuiet
    <2>1. SiGood(SiState, board, clk)
      BY DEF SiInv
    <2>2. SiState.c = chip /\ SiState.e = engine /\ FreshResult(monitor)
      BY <2>1, StateIs
    <2>3. chip.maskR \/ chip.downR \/ engine.st = "Failed"
          \/ (engine.plan = Si!NoPlan /\ ~engine.suspended)
      BY <2>1, <2>2 DEF SiGood
    <2> QED BY <2>2, <2>3 DEF Si!RefQuiet, FreshResult, Si!None
  <1> QED BY <1>1, SiInvariant, PTL

=============================================================================
