-------------------------------- MODULE Worker --------------------------------
(***************************************************************************)
(* The RF worker (rf/worker.cpp, rf/pico/worker.cpp): core 0 calls the     *)
(* engine that core 1 owns through one mailbox, either core may latch the  *)
(* safety inhibit, and a flash operation of core 0 freezes core 1. Below   *)
(* it, as far as these races reach: the state of the stream engine, the    *)
(* state of its sink, and the launch interrupt (rf/pio_dma_sink.cpp,       *)
(* rf/pico/pico_pio_dma.cpp).                                              *)
(*                                                                         *)
(* An action is what one core does between two accesses to what the other  *)
(* core or an interrupt may change. pc1 is where core 1 stands in step():  *)
(*   probe, halt      the first check_safety                               *)
(*   poll, look       engine_.poll, and the look at the mailbox            *)
(*   copy, copied     worker_clock_ = staged_clock_, its two halves        *)
(*   admit, serve     the conditions of the operation, and the operation   *)
(*   armed            schedule, between sink_.arm and its own state        *)
(*   reprobe, rehalt  the second check_safety                              *)
(*   seal             the refusal of what was latched meanwhile            *)
(*   report, publish  the fresh report, and phase_ = 2                     *)
(* The clock is a counter; a copy of it is a pair of halves.               *)
(***************************************************************************)
EXTENDS Naturals

CONSTANT MaxClock   \* bound: corrections of the clock

Ops == {"inspect", "prepare", "schedule", "disable", "correct", "suspend", "resume"}

\* Operations that give the engine something to transmit, or change it.
Guarded == {"prepare", "schedule", "correct"}

EngineStates == {"idle", "armed", "running", "complete", "missed", "failed"}
Executing == {"armed", "running"}

Steps == {"probe", "halt", "poll", "look", "copy", "copied", "admit", "serve", "armed",
          "reprobe", "rehalt", "seal", "report", "publish", "dead"}

VARIABLES
    pc0,       \* core 0: "free", "staged", "wait", "failing", "clamping" or "dead"
    flash,     \* guarded_flash_execute: "no", "ask", "enter", "open" or "leave"
    clock,     \* the disciplined clock of core 0
    phase,     \* phase_
    op,        \* op_
    staged,    \* staged_clock_
    latch,     \* safety_inhibited_
    pc1,       \* core 1
    irq,       \* the launch interrupt on core 1: "none", "cleared" or "lift"
    wclock,    \* worker_clock_
    admitted,  \* the outcome of admit
    result,    \* result_, or prepared_.accepted
    report,    \* report_.state
    seen,      \* worker_state_
    stopped,   \* safety_stopped_
    suspended, \* background_suspended_
    st,        \* StreamEngine::state_
    plan,      \* StreamEngine::job_ is there
    sink,      \* PioDmaSink::state_
    sm,        \* the PIO state machine runs
    outover,   \* OUTOVER of the RF pin: "low" or "normal"
    oeover,    \* OEOVER of the RF pin: "low" or "normal"
    was        \* history: the state of the sink when the call was published

mailbox == <<phase, op, staged>>
core0 == <<pc0, flash, clock>>
serving == <<wclock, admitted, result, report, seen>>
driver == <<sm, outover, oeover>>
engine == <<st, plan, sink>>
vars == <<core0, mailbox, latch, pc1, irq, serving, stopped, suspended, engine, driver, was>>

\* (Operators named Bug... are plausible faults of the definition after them.
\* No definition uses them; a run with one in place must fail.)

\* The copy of a clock by the core that owns it.
Copy(c) == [lo |-> c, hi |-> c]

Init ==
    /\ pc0 = "free" /\ flash = "no" /\ clock = 0
    /\ phase = 0 /\ op = "inspect" /\ staged = Copy(0)
    /\ latch = FALSE /\ pc1 = "probe" /\ irq = "none"
    /\ wclock = Copy(0) /\ admitted = FALSE /\ result = FALSE
    /\ report = "idle" /\ seen = "idle" /\ stopped = FALSE /\ suspended = FALSE
    /\ st = "idle" /\ plan = FALSE /\ sink = "idle"
    /\ sm = FALSE /\ outover = "low" /\ oeover = "normal" /\ was = "idle"

\* What the antenna sees.
Radiates == sm /\ outover = "normal" /\ oeover = "normal"

-------------------------------------------------------------------------------
(* Core 0. *)

\* The caller fills the mailbox; which calls are possible depends on whether
\* a flash operation is under way.
Stage(o) ==
    /\ pc0 = "free" /\ phase = 0
    /\ \/ flash = "no" /\ o \notin {"suspend", "resume"} /\ UNCHANGED flash
       \/ flash = "no" /\ o = "suspend" /\ flash' = "ask"
       \/ flash = "leave" /\ o = "resume" /\ UNCHANGED flash
    /\ op' = o /\ staged' = Copy(clock) /\ pc0' = "staged"
    /\ UNCHANGED <<clock, phase, latch, pc1, irq, serving, stopped, suspended, engine, driver,
                   was>>

\* phase_.store(1, release)
Publish ==
    /\ pc0 = "staged" /\ pc0' = "wait" /\ phase' = 1
    /\ was' = sink
    /\ UNCHANGED <<flash, clock, op, staged, latch, pc1, irq, serving, stopped, suspended, engine,
                   driver>>

AfterCall == CASE op = "suspend" -> IF result THEN "enter" ELSE "no"
               [] op = "resume"  -> "no"
               [] OTHER          -> flash

BugReturnCounts ==
    /\ pc0 = "wait" /\ phase = 2
    /\ pc0' = "free" /\ phase' = phase + 1 /\ flash' = AfterCall
    /\ UNCHANGED <<clock, op, staged, latch, pc1, irq, serving, stopped, suspended, engine, driver,
                   was>>

Return ==
    /\ pc0 = "wait" /\ phase = 2
    /\ pc0' = "free" /\ phase' = 0 /\ flash' = AfterCall
    /\ UNCHANGED <<clock, op, staged, latch, pc1, irq, serving, stopped, suspended, engine, driver,
                   was>>

\* 100 ms without an answer: failure() latches first, then clamps the pin. The
\* answer may come between the look at phase_ and the look at the time.
Timeout ==
    /\ pc0 = "wait"
    /\ pc0' = "failing" /\ latch' = TRUE
    /\ UNCHANGED <<flash, clock, mailbox, pc1, irq, serving, stopped, suspended, engine, driver,
                   was>>

\* The two overrides are two writes; core 1 may write OUTOVER between them.
ClampOut ==
    /\ pc0 = "failing" /\ pc0' = "clamping" /\ outover' = "low"
    /\ UNCHANGED <<flash, clock, mailbox, latch, pc1, irq, serving, stopped, suspended, engine,
                   sm, oeover, was>>

BugClampOutAgain ==
    /\ pc0 = "clamping" /\ pc0' = "dead" /\ outover' = "low"
    /\ UNCHANGED <<flash, clock, mailbox, latch, pc1, irq, serving, stopped, suspended, engine,
                   sm, oeover, was>>

ClampEnable ==
    /\ pc0 = "clamping" /\ pc0' = "dead" /\ oeover' = "low"
    /\ UNCHANGED <<flash, clock, mailbox, latch, pc1, irq, serving, stopped, suspended, engine,
                   sm, outover, was>>

\* inhibit_output of a local control.
Inhibit ==
    /\ pc0 = "free" /\ flash = "no" /\ ~latch /\ latch' = TRUE
    /\ UNCHANGED <<core0, mailbox, pc1, irq, serving, stopped, suspended, engine, driver, was>>

Steer ==
    /\ pc0 = "free" /\ flash = "no" /\ clock < MaxClock /\ clock' = clock + 1
    /\ UNCHANGED <<pc0, flash, mailbox, latch, pc1, irq, serving, stopped, suspended, engine,
                   driver, was>>

\* Core 1 runs and takes interrupts.
Running1 == flash # "open"

\* flash_safe_execute: its lockout interrupt stops core 1 where interrupts are
\* enabled, or gives up after its own timeout.
FlashLock ==
    /\ pc0 = "free" /\ flash = "enter" /\ irq = "none" /\ pc1 # "copied"
    /\ flash' \in {"open", "leave"}
    /\ UNCHANGED <<pc0, clock, mailbox, latch, pc1, irq, serving, stopped, suspended, engine,
                   driver, was>>

FlashDone ==
    /\ flash = "open" /\ flash' = "leave"
    /\ UNCHANGED <<pc0, clock, mailbox, latch, pc1, irq, serving, stopped, suspended, engine,
                   driver, was>>

-------------------------------------------------------------------------------
(* Core 1. *)

\* Core 1 moves from a to b, with nothing else of the step but what is said.
At(a) == Running1 /\ irq = "none" /\ pc1 = a

BugProbeServing(a, halt, go) ==
    /\ At(a)
    /\ \E pressed \in BOOLEAN : latch' = (latch \/ pressed)
    /\ pc1' = IF latch' /\ phase = 1 THEN halt ELSE go
    /\ UNCHANGED <<core0, mailbox, irq, serving, stopped, suspended, engine, driver, was>>

\* The safety probe (the button) and the latch.
Probe(a, halt, go) ==
    /\ At(a)
    /\ \E pressed \in BOOLEAN : latch' = (latch \/ pressed)
    /\ pc1' = IF latch' THEN halt ELSE go
    /\ UNCHANGED <<core0, mailbox, irq, serving, stopped, suspended, engine, driver, was>>

\* sink_.stop: registers off, and the confirmation ok. Without it what was on
\* may still be.
StopSink(ok) ==
    /\ sink' = IF ok THEN "idle" ELSE "failed"
    /\ outover' = "low"
    /\ sm' = FALSE \/ (~ok /\ UNCHANGED sm)

\* StreamEngine::disable
DisableEngine(ok) ==
    /\ StopSink(ok)
    /\ st' = IF ok THEN "idle" ELSE "failed"
    /\ plan' = (plan /\ ~ok)
    /\ UNCHANGED oeover

BugHaltExecuting(a, go) ==
    /\ At(a)
    /\ \/ stopped /\ pc1' = go /\ UNCHANGED <<stopped, engine, driver>>
       \/ /\ ~stopped /\ stopped' = TRUE /\ pc1' = go
          /\ IF seen \in Executing THEN DisableEngine(TRUE) ELSE UNCHANGED <<engine, driver>>
    /\ UNCHANGED <<core0, mailbox, latch, irq, serving, suspended, was>>

\* A stop that is not confirmed ends in failure(): the pin is clamped and the
\* core waits for the watchdog.
Halt(a, go) ==
    /\ At(a)
    /\ \/ stopped /\ pc1' = go /\ UNCHANGED <<stopped, engine, driver>>
       \/ ~stopped /\ DisableEngine(TRUE) /\ stopped' = TRUE /\ pc1' = go
       \/ /\ ~stopped /\ pc1' = "dead"
          /\ st' = "failed" /\ sink' = "failed" /\ (sm' = FALSE \/ UNCHANGED sm)
          /\ outover' = "low" /\ oeover' = "low" /\ UNCHANGED <<stopped, plan>>
    /\ UNCHANGED <<core0, mailbox, latch, irq, serving, suspended, was>>

\* What engine_.poll makes of the sink: an armed one may have missed its
\* deadline, a running one may fail the progress checks; both stop it.
PollEngine ==
    \/ st \notin Executing /\ UNCHANGED <<engine, driver>>
    \/ /\ st \in Executing /\ sink \in {"armed", "running", "complete", "missed"}
       /\ st' = sink /\ UNCHANGED <<plan, sink, driver>>
    \/ /\ st \in Executing /\ sink = "armed"
       /\ StopSink(TRUE) /\ st' = "missed" /\ UNCHANGED <<plan, oeover>>
    \/ /\ st \in Executing
       /\ \E ok \in BOOLEAN : StopSink(ok)
       /\ st' = "failed" /\ UNCHANGED <<plan, oeover>>

Poll ==
    /\ At("poll") /\ PollEngine
    /\ seen' = st' /\ pc1' = "look"
    /\ UNCHANGED <<core0, mailbox, latch, irq, wclock, admitted, result, report, stopped,
                   suspended, was>>

BugLookIdle ==
    /\ At("look")
    /\ pc1' = IF phase = 1 /\ seen \notin Executing THEN "copy" ELSE "probe"
    /\ UNCHANGED <<core0, mailbox, latch, irq, serving, stopped, suspended, engine, driver, was>>

Look ==
    /\ At("look")
    /\ pc1' = IF phase = 1 THEN "copy" ELSE "probe"
    /\ UNCHANGED <<core0, mailbox, latch, irq, serving, stopped, suspended, engine, driver, was>>

\* Interrupts are masked from the first half to the second (Interruptible).
CopyLow ==
    /\ At("copy") /\ pc1' = "copied" /\ wclock' = [wclock EXCEPT !.lo = staged.lo]
    /\ UNCHANGED <<core0, mailbox, latch, irq, admitted, result, report, seen, stopped, suspended,
                   engine, driver, was>>

CopyHigh ==
    /\ At("copied") /\ pc1' = "admit" /\ wclock' = [wclock EXCEPT !.hi = staged.hi]
    /\ UNCHANGED <<core0, mailbox, latch, irq, admitted, result, report, seen, stopped, suspended,
                   engine, driver, was>>

\* !safety_inhibited() && !background_suspended_ of the guarded operations.
Admit ==
    /\ At("admit") /\ pc1' = "serve"
    /\ admitted' = (op \in Guarded => ~latch /\ ~suspended)
    /\ UNCHANGED <<core0, mailbox, latch, irq, wclock, result, report, seen, stopped, suspended,
                   engine, driver, was>>

\* StreamEngine::prepare, as far as it may refuse.
Prepare ==
    /\ op = "prepare"
    /\ \/ result' = FALSE /\ UNCHANGED plan
       \/ admitted /\ st = "idle" /\ ~sm /\ result' = TRUE /\ plan' = TRUE
    /\ UNCHANGED <<st, sink, driver, suspended>> /\ pc1' = "reprobe"

Correct ==
    /\ op = "correct"
    /\ \/ result' = FALSE
       \/ admitted /\ st = "idle" /\ ~plan /\ ~sm /\ result' = TRUE
    /\ UNCHANGED <<engine, driver, suspended>> /\ pc1' = "reprobe"

BugScheduleUnwound ==
    /\ op = "schedule"
    /\ \/ result' = FALSE /\ pc1' = "reprobe" /\ UNCHANGED <<engine, driver>>
       \/ /\ admitted /\ st = "idle" /\ plan /\ ~latch
          /\ sink' = "armed" /\ sm' = FALSE /\ outover' = "low"
          /\ \/ result' = TRUE /\ pc1' = "armed" /\ UNCHANGED st
             \/ result' = FALSE /\ pc1' = "reprobe" /\ st' = "failed"
          /\ UNCHANGED <<plan, oeover>>
    /\ UNCHANGED suspended

\* StreamEngine::schedule: a refusal, a stop that fails, an arm that fails (its
\* sink stops), or an armed sink, which refuses behind the latch.
Schedule ==
    /\ op = "schedule"
    /\ \/ result' = FALSE /\ pc1' = "reprobe" /\ UNCHANGED <<engine, driver>>
       \/ /\ admitted /\ st = "idle" /\ plan
          /\ \E ok \in BOOLEAN : StopSink(ok)
          /\ st' = "failed" /\ result' = FALSE /\ pc1' = "reprobe"
          /\ UNCHANGED <<plan, oeover>>
       \/ /\ admitted /\ st = "idle" /\ plan /\ ~latch
          /\ sink' = "armed" /\ sm' = FALSE /\ outover' = "low"
          /\ result' = TRUE /\ pc1' = "armed" /\ UNCHANGED <<st, plan, oeover>>
    /\ UNCHANGED suspended

DisableOp ==
    /\ op = "disable"
    /\ \E ok \in BOOLEAN : DisableEngine(ok) /\ result' = ok
    /\ UNCHANGED suspended /\ pc1' = "reprobe"

BugSuspendAnytime ==
    /\ op = "suspend"
    /\ \/ result' = FALSE /\ UNCHANGED suspended
       \/ ~suspended /\ result' = TRUE /\ suspended' = TRUE
    /\ UNCHANGED <<engine, driver>> /\ pc1' = "reprobe"

Suspend ==
    /\ op = "suspend"
    /\ \/ result' = FALSE /\ UNCHANGED suspended
       \/ ~suspended /\ seen = "idle" /\ ~sm /\ result' = TRUE /\ suspended' = TRUE
    /\ UNCHANGED <<engine, driver>> /\ pc1' = "reprobe"

Resume ==
    /\ op = "resume" /\ suspended' = FALSE
    /\ UNCHANGED <<result, engine, driver>> /\ pc1' = "reprobe"

Inspect ==
    /\ op = "inspect"
    /\ UNCHANGED <<result, engine, driver, suspended>> /\ pc1' = "reprobe"

Serve ==
    /\ At("serve")
    /\ Prepare \/ Correct \/ Schedule \/ DisableOp \/ Suspend \/ Resume \/ Inspect
    /\ UNCHANGED <<core0, mailbox, latch, irq, wclock, admitted, report, seen, stopped, was>>

\* The end of StreamEngine::begin: an interrupt may have come before it.
Armed ==
    /\ At("armed") /\ pc1' = "reprobe" /\ st' = "armed"
    /\ UNCHANGED <<core0, mailbox, latch, irq, serving, stopped, suspended, plan, sink, driver,
                   was>>

BugSealNothing ==
    /\ At("seal") /\ pc1' = "report"
    /\ UNCHANGED <<core0, mailbox, latch, irq, serving, stopped, suspended, engine, driver, was>>

\* Once the latch is set the guarded operations have failed.
Seal ==
    /\ At("seal") /\ pc1' = "report"
    /\ result' = (result /\ ~(latch /\ op \in Guarded))
    /\ UNCHANGED <<core0, mailbox, latch, irq, wclock, admitted, report, seen, stopped, suspended,
                   engine, driver, was>>

BugReportEarlier ==
    /\ At("report") /\ pc1' = "publish" /\ report' = seen
    /\ UNCHANGED <<core0, mailbox, latch, irq, wclock, admitted, result, seen, stopped, suspended,
                   engine, driver, was>>

Report ==
    /\ At("report") /\ PollEngine
    /\ report' = st' /\ seen' = st' /\ pc1' = "publish"
    /\ UNCHANGED <<core0, mailbox, latch, irq, wclock, admitted, result, stopped, suspended, was>>

Answer ==
    /\ At("publish") /\ phase' = 2 /\ pc1' = "probe"
    /\ UNCHANGED <<core0, op, staged, latch, irq, serving, stopped, suspended, engine, driver,
                   was>>

Core1 ==
    \/ Probe("probe", "halt", "poll") \/ Halt("halt", "poll") \/ Poll \/ Look
    \/ CopyLow \/ CopyHigh \/ Admit \/ Serve \/ Armed
    \/ Probe("reprobe", "rehalt", "seal") \/ Halt("rehalt", "seal") \/ Seal \/ Report \/ Answer

-------------------------------------------------------------------------------
(* Interrupts of the sink, on core 1. *)

BugInterruptibleAlways == Running1 /\ irq = "none"

Interruptible == Running1 /\ irq = "none" /\ pc1 # "copied"

\* halt_output in an interrupt: off, and the sink in state s, or unconfirmed.
HaltOutput(s) ==
    /\ outover' = "low"
    /\ \/ sink' = s /\ sm' = FALSE
       \/ sink' = "failed" /\ (sm' = FALSE \/ UNCHANGED sm)

\* The alarm of an armed sink: the launch is rejected behind the latch or by
\* the guard, or passes the checks that precede the enable.
LaunchAlarm ==
    /\ Interruptible /\ sink = "armed"
    /\ \/ HaltOutput("missed") /\ UNCHANGED irq
       \/ ~latch /\ irq' = "cleared" /\ UNCHANGED <<sink, sm, outover>>
    /\ UNCHANGED <<core0, mailbox, latch, pc1, serving, stopped, suspended, st, plan, oeover, was>>

\* OUTOVER goes normal and the state machine starts.
LaunchEnable ==
    /\ irq = "cleared" /\ irq' = "lift" /\ sm' = TRUE /\ outover' = "normal"
    /\ UNCHANGED <<core0, mailbox, latch, pc1, serving, stopped, suspended, engine, oeover, was>>

\* The last look at the latch, after the enable.
LaunchCheck ==
    /\ irq = "lift" /\ irq' = "none"
    /\ \/ latch /\ HaltOutput("missed")
       \/ ~latch /\ sink' = "running" /\ UNCHANGED <<sm, outover>>
    /\ UNCHANGED <<core0, mailbox, latch, pc1, serving, stopped, suspended, st, plan, oeover, was>>

\* The end of the stream, or a fault, seen by an interrupt or by the poll of the
\* sink; both force the output off.
StreamEnds ==
    /\ Interruptible /\ sink \in Executing
    /\ (sink = "running" /\ HaltOutput("complete")) \/ HaltOutput("failed")
    /\ UNCHANGED <<core0, mailbox, latch, pc1, irq, serving, stopped, suspended, st, plan, oeover,
                   was>>

Core0 ==
    \/ \E o \in Ops : Stage(o)
    \/ Publish \/ Return \/ Timeout \/ ClampOut \/ ClampEnable
    \/ Inhibit \/ Steer \/ FlashLock \/ FlashDone

Next == Core0 \/ Core1 \/ LaunchAlarm \/ LaunchEnable \/ LaunchCheck \/ StreamEnds

Spec == Init /\ [][Next]_vars

-------------------------------------------------------------------------------
(* Properties. *)

Halves == [lo: Nat, hi: Nat]

Core0Types ==
    /\ pc0 \in {"free", "staged", "wait", "failing", "clamping", "dead"}
    /\ flash \in {"no", "ask", "enter", "open", "leave"}
    /\ clock \in Nat /\ phase \in 0..2 /\ op \in Ops /\ staged \in Halves
    /\ latch \in BOOLEAN

Core1Types ==
    /\ pc1 \in Steps /\ irq \in {"none", "cleared", "lift"} /\ wclock \in Halves
    /\ admitted \in BOOLEAN /\ result \in BOOLEAN /\ stopped \in BOOLEAN /\ suspended \in BOOLEAN
    /\ report \in EngineStates /\ seen \in EngineStates

EngineTypes ==
    /\ st \in EngineStates /\ sink \in EngineStates /\ was \in EngineStates
    /\ plan \in BOOLEAN /\ sm \in BOOLEAN
    /\ outover \in {"low", "normal"} /\ oeover \in {"low", "normal"}

\* Every variable has its type.
TypeOK == Core0Types /\ Core1Types /\ EngineTypes

\* check_safety disables the engine only once. After that nothing is ever
\* armed, started or on again, whatever core 0 asks for.
StoppedForGood ==
    stopped => ~sm /\ st \notin Executing /\ sink \notin Executing /\ irq = "none"

\* When core 0 gives up on core 1 the pin is low and stays low, even where core
\* 1 is in the middle of a launch.
ClampHolds == pc0 = "dead" => ~Radiates

\* A flash operation freezes core 1 only with nothing to serve: nothing is armed
\* or running, the output is off and no interrupt is half done.
FlashQuiet ==
    flash = "open" => st \notin Executing /\ sink \notin Executing /\ ~sm /\ irq = "none"

\* A launch decides on a whole clock snapshot, never on two halves of different
\* ones.
WholeClock == irq # "none" => wclock.lo = wclock.hi

\* The answer to a call is about the engine as it was during the call: if the
\* stream had ended when the call was made, the report does not say that it is
\* armed or running.
FreshReport == phase = 2 /\ was \in {"complete", "missed", "failed"} => report \notin Executing

\* A schedule that is refused while nothing executes leaves nothing behind that
\* could still transmit.
RefusedIsOff ==
    pc0 = "wait" /\ phase = 2 /\ op = "schedule" /\ ~result /\ was \notin Executing =>
        sink \notin Executing /\ st \notin Executing

\* With the engine stopped for safety before the answer, no operation that
\* prepares, schedules or corrects reports success.
LatchedRefused ==
    pc1 \in {"report", "publish"} /\ stopped /\ op \in Guarded => ~result

\* After the safety stop, behind the clamp and under a flash operation nothing
\* transmits, in every interleaving of the cores and the launch interrupt.
StopIsFinal == StoppedForGood /\ ClampHolds /\ FlashQuiet

\* What core 0 is told and what core 1 decides on is whole, fresh and true.
AnswersTrue == WholeClock /\ FreshReport /\ RefusedIsOff /\ LatchedRefused

\* Core 1 and the flash operation make progress; core 0 need not.
Fairness ==
    /\ WF_vars(Core1) /\ WF_vars(LaunchEnable) /\ WF_vars(LaunchCheck) /\ WF_vars(FlashDone)
    /\ WF_vars(ClampOut) /\ WF_vars(ClampEnable)

FairSpec == Spec /\ Fairness

\* Once latched, the engine is stopped or the pin clamped.
SafetyStops == latch ~> (stopped \/ oeover = "low")

\* Every call is answered, without the help of its deadline, unless core 1 has
\* failed.
CallAnswered == pc0 = "wait" ~> (phase = 2 \/ pc0 # "wait" \/ pc1 = "dead")
===============================================================================
