-------------------------------- MODULE Sink --------------------------------
(***************************************************************************)
(* The sample sink of the RF core (rf/pio_dma_sink.cpp), its driver        *)
(* (rf/pico/pico_pio_dma.cpp), the amplifier enable, the filter selector   *)
(* and the transmit indicator's gate.                                      *)
(*                                                                         *)
(* The methods and both interrupts run on one core with interrupts off, so *)
(* each is a step. Between them the hardware goes on: DMA channels finish, *)
(* the FIFO runs dry, the alarm fires, core 0 latches the inhibit or       *)
(* acknowledges the indicator. A method is an operator on w = [k, d, amp,  *)
(* fil, ind]; f names the hardware operation that fails in it.             *)
(***************************************************************************)
EXTENDS Integers, Sequences, FiniteSets

CONSTANTS
    SinkChains,     \* [amp, fil, ind]: which of the three are fitted
    AmpLead, AmpTail,  \* of the amplifier, in ticks
    Release, Settle,   \* of the filter relays
    Window,         \* from the start to the launch deadline
    Totals,         \* lengths of a job in blocks
    MaxEpoch, MaxTime, MaxFaults   \* bounds

\* Configured times, zero included; arm refuses a job of no samples.
ASSUME SinkAssumption ==
    /\ SinkChains \subseteq [amp : BOOLEAN, fil : BOOLEAN, ind : BOOLEAN]
    /\ {AmpLead, AmpTail, Release, Settle, Window} \subseteq Nat
    /\ Totals \subseteq Nat \ {0}

VARIABLES fit, now, k, d, amp, fil, ind, inhibited, faults

vars == <<fit, now, k, d, amp, fil, ind, inhibited, faults>>

None == -1

HwFaults == {"none", "halt", "rf_off", "amp_off", "amp_on", "fil_off", "fil_on", "fil_verify",
             "alarm", "dma", "drive", "guard", "stall"}

World == [k |-> k, d |-> d, amp |-> amp, fil |-> fil, ind |-> ind]

Became(ws) ==
    \E w \in ws : k' = w.k /\ d' = w.d /\ amp' = w.amp /\ fil' = w.fil /\ ind' = w.ind

LeadOf == IF fit.amp THEN AmpLead ELSE 0

Preparation == LeadOf + (IF fit.fil THEN Release + Settle ELSE 0)

-------------------------------------------------------------------------------
(* The checked outputs: pad is what is there, off what the code knows. *)

\* Raised only from a level known to be inactive; a failed write may have raised it.
Raised(o, ok) ==
    IF ~o.off THEN [o EXCEPT !.on = FALSE]
    ELSE [o EXCEPT !.off = FALSE, !.pad = TRUE, !.on = ok, !.since = IF o.pad THEN @ ELSE now]

Activate(a, f) == Raised(a, f # "amp_on")

Deactivate(a, f) ==
    IF ~fit.amp THEN a
    ELSE IF f = "amp_off" THEN [a EXCEPT !.off = FALSE] ELSE [a EXCEPT !.off = TRUE, !.pad = FALSE, !.on = FALSE]

SelectFilter(c, f) == Raised(c, f # "fil_on")

DeselectFilter(c, f) ==
    IF ~fit.fil THEN c
    ELSE IF f = "fil_off" THEN [c EXCEPT !.off = FALSE, !.on = FALSE]
    ELSE [c EXCEPT !.off = TRUE, !.pad = FALSE, !.on = FALSE]

FilterVerified(c, f) == ~fit.fil \/ (c.on /\ f # "fil_verify")

BugRequestLaunch(i) == IF i.req = 0 THEN [i EXCEPT !.next = @ + 1, !.req = 1] ELSE i

\* IndicatorGate::request_launch: a new ticket for every run.
RequestLaunch(i) == IF i.req = 0 THEN [i EXCEPT !.next = @ + 1, !.req = i.next + 1] ELSE i

Acknowledged(i) == i.req # 0 /\ i.ack = i.req

-------------------------------------------------------------------------------
(* The driver *)

\* force_inactive: the pad is low and the state machine stopped; the alarm is
\* cancelled, an interrupt that is already pending is not.
ForceInactive(w) ==
    [w EXCEPT !.d.active = FALSE, !.d.alarm = None, !.d.offAt = IF w.d.active THEN now ELSE @]

\* dma: a free channel is chained or started.
Dma(w, seq, tail, f) ==
    IF f = "dma" \/ Len(w.d.chans) = 2 THEN [w EXCEPT !.k.refused = TRUE]
    ELSE [w EXCEPT !.d.chans = Append(@, [epoch |-> w.k.epoch, seq |-> seq, tail |-> tail,
                                          done |-> FALSE])]

\* alarm and retry_alarm
Alarm(w, at, f) ==
    IF f = "alarm" \/ at <= now THEN [w EXCEPT !.k.refused = TRUE]
    ELSE [w EXCEPT !.d.alarm = at, !.d.alarmEpoch = w.k.epoch]

\* halt_output: RF first, then the amplifier, then the filters, then the channels.
HaltOutput(w, f) ==
    LET low == [ForceInactive(w) EXCEPT !.amp = Deactivate(@, f), !.fil = DeselectFilter(@, f),
                                        !.ind.req = 0]
    IN IF f = "halt" THEN low ELSE [low EXCEPT !.d.chans = <<>>, !.d.stalled = FALSE]

Halted(w, f) == f \notin {"halt", "rf_off"} /\ w.amp.off /\ w.fil.off

Fault(w, f) == [HaltOutput(w, f) EXCEPT !.k.st = "Failed"]

Missed(w, f) ==
    LET low == HaltOutput(w, f)
    IN [low EXCEPT !.k.st = IF Halted(low, f) THEN "Missed" ELSE "Failed"]

\* A step that the driver refused is a fault.
OrFault(w, f) == IF w.k.refused THEN Fault([w EXCEPT !.k.refused = FALSE], f) ELSE w

-------------------------------------------------------------------------------
(* Foreground methods *)

Fresh(epoch) ==
    [st |-> "Idle", epoch |-> epoch, queued |-> 0, submitted |-> 0, total |-> 0, done |-> 0,
     tail |-> FALSE, tailSubmitted |-> FALSE, start |-> 0, deadline |-> 0, launch |-> None,
     enable |-> None, break |-> None, selected |-> None, ready |-> FALSE, tailAt |-> None,
     refused |-> FALSE]

StopOf(w, f) ==
    LET low == HaltOutput(w, f)
    IN IF Halted(low, f) THEN [low EXCEPT !.k = Fresh(w.k.epoch)] ELSE [low EXCEPT !.k.st = "Failed"]

\* queue_tail
QueueTail(w, f) ==
    IF ~w.k.tailSubmitted /\ w.k.submitted = w.k.total /\ w.k.queued < 2
    THEN [Dma(w, w.k.submitted, TRUE, f) EXCEPT !.k.tailSubmitted = TRUE] ELSE w

\* submit: into the queue, and to the driver once armed.
SubmitOf(w, epoch, f) ==
    LET queued == [w EXCEPT !.k.epoch = epoch, !.k.queued = @ + 1, !.k.submitted = @ + 1]
        sent   == QueueTail(Dma(queued, w.k.submitted, FALSE, f), f) IN
    IF w.k.st = "Idle" THEN queued
    ELSE [sent EXCEPT !.k.refused = FALSE]   \* false: the engine stops the sink

\* arm: queued blocks to the driver, then the alarm of the first phase.
ArmOf(w, start, total, f) ==
    LET armed == [w EXCEPT !.k.st = "Armed", !.k.start = start, !.k.total = total,
                           !.k.deadline = start + Window]
        one   == Dma(armed, 0, FALSE, f)
        sent  == IF w.k.queued = 2 THEN Dma(one, 1, FALSE, f) ELSE one
        wake  == IF fit.fil THEN start - Preparation - 2
                 ELSE IF fit.amp THEN start - AmpLead - 1 ELSE start
    IN OrFault(Alarm(QueueTail(sent, f), wake, f), f)

BugCompleteRf(w, f) ==
    LET low == HaltOutput([w EXCEPT !.ind.req = 0], f) IN
    IF inhibited \/ ~Halted(low, f) THEN Fault(low, f) ELSE [low EXCEPT !.k.st = "Complete"]

\* complete_rf: RF is off, the amplifier stays for its tail.
CompleteRf(w, f) ==
    LET low == [ForceInactive(w) EXCEPT !.ind.req = 0] IN
    IF w.k.tailAt # None THEN w
    ELSE IF f = "rf_off" \/ inhibited THEN Fault(low, f)
    ELSE IF ~fit.amp \/ AmpTail = 0
         THEN IF Halted(HaltOutput(low, f), f)
              THEN [HaltOutput(low, f) EXCEPT !.k.st = "Complete"] ELSE Fault(low, f)
    ELSE OrFault(Alarm([low EXCEPT !.k.tailAt = now + AmpTail], now + AmpTail, f), f)

\* finish_tail
FinishTail(w, f) ==
    IF w.k.tailAt = None \/ w.k.st # "Running" THEN w
    ELSE IF inhibited \/ w.d.active THEN Fault(w, f)
    ELSE IF now < w.k.tailAt THEN OrFault(Alarm(w, w.k.tailAt, f), f)
    ELSE IF Halted(HaltOutput(w, f), f) THEN [HaltOutput(w, f) EXCEPT !.k.st = "Complete"]
    ELSE Fault(w, f)

\* poll
PollOf(w, f) ==
    LET ended == CompleteRf(w, f) IN
    IF w.k.st = "Running" /\ ~w.k.tail /\ w.d.stalled THEN Fault(w, f)
    ELSE IF w.k.st = "Running" /\ w.k.tail /\ ~w.d.active
         THEN IF ended.k.tailAt # None /\ (now >= ended.k.tailAt \/ inhibited)
              THEN FinishTail(ended, f) ELSE ended
    ELSE IF w.k.st # "Armed" /\ ~w.d.active THEN [w EXCEPT !.ind.req = 0]
    ELSE w

-------------------------------------------------------------------------------
(* The alarm interrupt: filters, amplifier, indicator, launch. *)

\* PicoPioDma::launch; the enable of an amplifier without a lead is inside it.
Launch(w, f) ==
    IF \/ inhibited \/ now >= w.k.deadline \/ w.d.chans = <<>> \/ f = "drive"
       \/ ~FilterVerified(w.fil, f) \/ (w.k.enable # None /\ ~w.amp.on)
    THEN Missed(w, f)
    ELSE IF now < w.k.start
         THEN IF Alarm(w, w.k.start, f).k.refused THEN Missed(w, f) ELSE Alarm(w, w.k.start, f)
    ELSE LET lit == IF fit.amp /\ w.k.enable = None THEN [w EXCEPT !.amp = Activate(@, f)] ELSE w
         IN IF fit.amp /\ ~lit.amp.on THEN Missed(lit, f)
            ELSE [lit EXCEPT !.d.active = TRUE, !.d.stalled = FALSE, !.d.gap = FALSE, !.k.launch = now,
                             !.k.start = now, !.k.st = "Running"]

\* The indicator shows the transmission before it begins.
Indicate(w, f) ==
    LET asked == [w EXCEPT !.ind = RequestLaunch(@)]
        wake  == IF w.k.start > now THEN w.k.start ELSE now + 1 IN
    IF ~fit.ind THEN Launch(w, f)
    ELSE IF now >= w.k.start /\ Acknowledged(asked.ind) THEN Launch(asked, f)
    ELSE LET waits == IF now < w.k.start THEN w ELSE asked
         IN IF wake >= w.k.deadline \/ Alarm(waits, wake, f).k.refused THEN Missed(waits, f)
            ELSE Alarm(waits, wake, f)

\* The lead of the amplifier: enabled early enough, and not shortened by a start
\* that moves forward.
Amplify(w, f) ==
    IF ~fit.amp \/ AmpLead = 0 THEN Indicate(w, f)
    ELSE IF w.k.enable # None
         THEN IF w.k.start - w.k.enable < AmpLead THEN Missed(w, f) ELSE Indicate(w, f)
    ELSE IF now > w.k.start - AmpLead THEN Missed(w, f)
    ELSE IF w.k.start - AmpLead - now > 1 THEN OrFault(Alarm(w, w.k.start - AmpLead - 1, f), f)
    ELSE LET lit == [ForceInactive(w) EXCEPT !.amp = Activate(@, f), !.k.enable = now]
         IN IF ~lit.amp.on \/ inhibited THEN Fault(lit, f)
            ELSE OrFault(Alarm(lit, w.k.start, f), f)

\* Break before make: everything off, the relays released, the new path
\* selected and settled.
Broken(w, f) ==
    [ForceInactive(w) EXCEPT !.amp = Deactivate(@, f), !.fil = DeselectFilter(@, f),
                             !.k.break = now]

Settled(w, f) ==
    IF w.k.start < w.k.selected + Settle + LeadOf \/ ~FilterVerified(w.fil, f) THEN Fault(w, f)
    ELSE IF now < w.k.selected + Settle THEN OrFault(Alarm(w, w.k.selected + Settle, f), f)
    ELSE IF ~w.k.ready /\ LeadOf = 0
         THEN OrFault(Alarm([w EXCEPT !.k.ready = TRUE], w.k.start, f), f)
    ELSE Amplify([w EXCEPT !.k.ready = TRUE], f)

BugSelect(w0, f) ==
    LET w == IF w0.k.break = None THEN Broken(w0, f) ELSE w0 IN
    IF ~fit.fil THEN Amplify(w, f)
    ELSE IF w.k.selected # None THEN Amplify(w, f)
    ELSE LET made == [w EXCEPT !.fil = SelectFilter(@, f), !.k.selected = now]
         IN IF ~made.fil.on THEN Fault(made, f) ELSE Amplify(made, f)

Select(w0, f) ==
    LET w       == IF w0.k.break = None THEN Broken(w0, f) ELSE w0
        release == w.k.break + Release
        late    == w.k.start < (IF now < release THEN release ELSE now) + Settle + LeadOf IN
    IF ~fit.fil THEN Amplify(w0, f)
    ELSE IF w0.k.break = None /\ (f = "rf_off" \/ ~w.amp.off \/ ~w.fil.off) THEN Fault(w, f)
    ELSE IF w.k.selected # None THEN Settled(w, f)
    ELSE IF late THEN Fault(w, f)
    ELSE IF now < release THEN OrFault(Alarm(w, release, f), f)
    ELSE IF f = "rf_off" \/ inhibited \/ ~w.amp.off THEN Fault(w, f)
    ELSE LET made == [w EXCEPT !.fil = SelectFilter(@, f), !.k.selected = now]
         IN IF ~made.fil.on THEN Fault(made, f) ELSE Settled(made, f)

\* The guard maps the armed second to today's clock: target is the start that
\* results.
AlarmOf(w, epoch, target, f) ==
    IF epoch # w.k.epoch \/ w.k.st \notin {"Armed", "Running"} THEN w
    ELSE IF w.k.tailAt # None THEN FinishTail(w, f)
    ELSE IF w.k.st # "Armed" THEN w
    ELSE IF f = "guard" \/ target >= w.k.deadline \/ inhibited THEN Missed(w, f)
    ELSE Select([w EXCEPT !.k.start = target], f)

-------------------------------------------------------------------------------
(* The DMA interrupt *)

BugDmaEvent(w, c, f) ==
    IF c.epoch # w.k.epoch \/ w.k.st \notin {"Armed", "Running"} \/ c.seq < w.k.done THEN w
    ELSE IF c.seq # w.k.done \/ f = "dma" THEN Fault(w, f)
    ELSE IF w.k.tail THEN IF w.k.st # "Running" THEN Fault(w, f) ELSE CompleteRf(w, f)
    ELSE IF w.k.queued = 0 THEN Fault(w, f)
    ELSE LET took == [w EXCEPT !.k.done = @ + 1, !.k.queued = @ - 1]
         IN IF took.k.done = took.k.total
            THEN IF took.k.tailSubmitted THEN [took EXCEPT !.k.tail = TRUE] ELSE Fault(took, f)
            ELSE IF took.k.queued = 0 THEN Fault(took, f)
            ELSE OrFault(QueueTail(took, f), f)

\* event, of a channel that finished.
DmaEvent(w, c, f) ==
    IF c.epoch # w.k.epoch \/ w.k.st \notin {"Armed", "Running"} \/ c.seq < w.k.done THEN w
    ELSE IF c.seq # w.k.done \/ f = "dma" THEN Fault(w, f)
    ELSE IF w.k.tail THEN IF w.k.st # "Running" THEN Fault(w, f) ELSE CompleteRf(w, f)
    ELSE IF w.k.queued = 0 \/ (w.k.st = "Running" /\ w.d.stalled) THEN Fault(w, f)
    ELSE LET took == [w EXCEPT !.k.done = @ + 1, !.k.queued = @ - 1]
         IN IF took.k.done = took.k.total
            THEN IF took.k.tailSubmitted THEN [took EXCEPT !.k.tail = TRUE] ELSE Fault(took, f)
            ELSE IF took.k.queued = 0 THEN Fault(took, f)
            ELSE OrFault(QueueTail(took, f), f)

-------------------------------------------------------------------------------
(* The actions *)

Init ==
    /\ fit \in SinkChains /\ now = 0 /\ inhibited = FALSE /\ faults = 0
    /\ k = Fresh(0)
    /\ d = [active |-> FALSE, chans |-> <<>>, alarm |-> None, alarmEpoch |-> 0,
            pending |-> FALSE, stalled |-> FALSE, gap |-> FALSE, offAt |-> 0]
    /\ amp = [off |-> TRUE, pad |-> FALSE, on |-> FALSE, since |-> 0]
    /\ fil = [off |-> TRUE, pad |-> FALSE, on |-> FALSE, since |-> 0]
    /\ ind = [req |-> 0, ack |-> 0, next |-> 0, seen |-> 0]

\* The bound is on what disturbs a run: failures, an early stop, a moved clock.
Disturbed(b) == faults' = faults + (IF b THEN 1 ELSE 0) /\ faults' <= MaxFaults

Allowed(f) == Disturbed(f # "none")

Outside == UNCHANGED <<fit, now, inhibited>>

Stop == \E f \in {"none", "halt", "rf_off", "amp_off", "fil_off"} :
            /\ Disturbed(f # "none" \/ k.st \in {"Armed", "Running"})
            /\ Became({StopOf(World, f)}) /\ Outside

\* The engine's next block: of a new job when idle and empty, else of this one.
Submit ==
    \E e \in {k.epoch, k.epoch + 1} \ {0}, f \in {"none", "dma"} :
        /\ k.st \in {"Idle", "Armed", "Running"} /\ k.queued < 2 /\ e <= MaxEpoch
        /\ e = k.epoch <=> k.submitted > 0
        /\ k.total > 0 => k.submitted < k.total
        /\ Allowed(f) /\ Became({SubmitOf(World, e, f)}) /\ Outside

Arm ==
    \E t \in Totals, f \in {"none", "dma", "alarm"} :
        /\ k.st = "Idle" /\ k.queued > 0 /\ k.submitted <= t /\ ~inhibited
        /\ Allowed(f) /\ Became({ArmOf(World, now + Preparation + 3, t, f)}) /\ Outside

Poll == \E f \in {"none", "halt", "rf_off", "amp_off", "fil_off", "alarm"} :
            Allowed(f) /\ Became({PollOf(World, f)}) /\ Outside

\* alarm_irq: with the epoch of the last alarm that was set, whichever fired.
AlarmIrq ==
    /\ d.pending
    /\ \E f \in HwFaults \ {"dma", "stall"}, shift \in {-1, 0, 1} :
        /\ Disturbed(f # "none" \/ shift # 0)
        /\ Became({AlarmOf([World EXCEPT !.d.pending = FALSE], d.alarmEpoch, k.start + shift, f)})
    /\ Outside

\* dma_irq: the finished channel with the lowest sequence; it is free again
\* before the event is handled.
DmaIrq ==
    /\ d.chans # <<>> /\ Head(d.chans).done
    /\ \E f \in {"none", "halt", "rf_off", "amp_off", "fil_off", "alarm", "dma"} :
        /\ Allowed(f)
        /\ Became({DmaEvent([World EXCEPT !.d.chans = Tail(@)], Head(d.chans), f)})
    /\ Outside

(* The hardware and core 0 *)

Else == UNCHANGED <<fit, k, amp, fil>>

TimerFires ==
    /\ d.alarm # None /\ now >= d.alarm
    /\ d' = [d EXCEPT !.alarm = None, !.pending = TRUE]
    /\ Else /\ UNCHANGED <<now, ind, inhibited, faults>>

\* Channel i is out; the zero tail stops the state machine.
Finished(d0, i) ==
    [d0 EXCEPT !.chans[i].done = TRUE, !.active = @ /\ ~d0.chans[i].tail,
               !.offAt = IF d0.chans[i].tail THEN now ELSE @]

\* The next channel of the chain finishes. Before the launch only the FIFO
\* takes data, enough for one tiny block.
BlockDone ==
    \E i \in DOMAIN d.chans :
        /\ ~d.chans[i].done /\ \A j \in 1..(i - 1) : d.chans[j].done
        /\ d.active \/ (k.total = 1 /\ ~d.chans[i].tail)
        /\ d' = Finished(d, i)
        /\ Else /\ UNCHANGED <<now, ind, inhibited, faults>>

\* The FIFO is empty before the next block is there.
RunsDry ==
    /\ d.active /\ \A i \in DOMAIN d.chans : d.chans[i].done
    /\ d' = [d EXCEPT !.stalled = TRUE, !.gap = TRUE]
    /\ Else /\ UNCHANGED <<now, ind, inhibited, faults>>

Latch ==
    /\ ~inhibited /\ inhibited' = TRUE /\ Disturbed(TRUE) /\ Else /\ UNCHANGED <<now, d, ind>>

\* The indicator's owner reads the ticket, writes the LED, acknowledges.
IndicatorReads ==
    /\ ind.req # 0 /\ ind' = [ind EXCEPT !.seen = ind.req]
    /\ Else /\ UNCHANGED <<now, d, inhibited, faults>>

IndicatorWrites ==
    /\ ind.seen # 0 /\ ind' = [ind EXCEPT !.ack = ind.seen, !.seen = 0]
    /\ Else /\ UNCHANGED <<now, d, inhibited, faults>>

Tick == now < MaxTime /\ now' = now + 1 /\ Else
        /\ UNCHANGED <<d, ind, inhibited, faults>>

Next == \/ Stop \/ Submit \/ Arm \/ Poll \/ AlarmIrq \/ DmaIrq
        \/ TimerFires \/ BlockDone \/ RunsDry \/ Latch \/ IndicatorReads \/ IndicatorWrites \/ Tick

Spec == Init /\ [][Next]_vars

-------------------------------------------------------------------------------
(* Properties *)

\* RF is on only behind an amplifier that has been on for its lead, filters that
\* have been selected for their settling time, and an indicator that
\* acknowledged this very run, whatever alarms fired in which order.
ChainReady ==
    d.active =>
        /\ fit.amp => amp.pad /\ now - amp.since >= AmpLead
        /\ fit.fil => fil.pad /\ now - fil.since >= Settle + LeadOf
        /\ fit.ind => ind.ack = ind.next

\* The filter relays move only while RF is off, and are closed only behind an
\* amplifier that is off and, unless they need no time to settle, stays off.
ColdSwitch ==
    fil'.pad # fil.pad => ~d'.active /\ (fil'.pad => ~amp.pad /\ (amp'.pad => Settle = 0))

\* A job is reported complete only when every block of it went out, in order
\* and without the FIFO ever running dry, and nothing is on.
WholeStream ==
    k.st = "Complete" =>
        /\ k.done = k.total /\ ~d.gap /\ ~d.active
        /\ ~amp.pad /\ ~fil.pad

\* At a normal end the amplifier outlives RF by its tail, however early a poll
\* or a leftover alarm comes.
WarmTail == k'.st = "Complete" /\ amp.pad => now - d.offAt >= AmpTail

\* RF only behind a ready chain; a job completes only with every block out and
\* everything off (PioDmaSink::event, complete_rf, finish_tail).
SinkSound == ChainReady /\ WholeStream

\* Every step of the sink switches the chain in its order.
SwitchOrder == [][ColdSwitch /\ WarmTail]_vars

=============================================================================
