------------------------------- MODULE TxEngine -------------------------------
(***************************************************************************)
(* The transmitter behind wtp::RfEngine as the job service meets it: the   *)
(* frequency policy (standalone/frequency_policy_engine) on top of the     *)
(* worker (rf/worker) on top of the stream engine (rf/stream_engine).      *)
(* An engine is a record; operations that core 0 calls are operators on    *)
(* it, and the steps that core 1 and its interrupts take on their own are  *)
(* the Eng... operators, which return the engines they may leave.          *)
(*                                                                         *)
(* A job is a record: id, dur (total_duration_ns), allow                   *)
(* (allow_frequency_adjustment) and kind, what admission finds in it:      *)
(*   plain      realised exactly                                           *)
(*   adjusted   realised with frequency adjustments                        *)
(*   offpolicy  planned by the engine, refused by the policy afterwards    *)
(*   malformed  prepared with an adjustment list that contradicts the job  *)
(*   unfit      refused by the policy or the planner before any change     *)
(*   invalid    refused by validate_job                                    *)
(* Equal records stand for equal digests (job_digest).                     *)
(***************************************************************************)
EXTENDS ArmPolicy

CONSTANTS
    Jobs,        \* the jobs that clients submit
    NoJob,
    NoCond,      \* no start conditions (std::nullopt)
    Ppbs,        \* corrections that the saved configuration may select; 0 is none
    NoPpb,
    Local,       \* schedules_locally()
    HasChain,    \* an amplifier or filter chain has a lead and a tail phase
    TailHold     \* amplifier_tail_ns()

JobKinds == {"plain", "adjusted", "offpolicy", "malformed", "unfit", "invalid"}

ASSUME TxEngineAssumption ==
    /\ \A j \in Jobs : /\ j.dur \in Nat \ {0}
                       /\ j.allow \in BOOLEAN
                       /\ j.kind \in JobKinds
    /\ NoJob \notin Jobs
    /\ 0 \in Ppbs /\ NoPpb \notin Ppbs
    /\ Local \in BOOLEAN /\ HasChain \in BOOLEAN
    /\ TailHold \in Nat
    /\ NoTime \notin Nat

EngineStates == {"idle", "armed", "running", "missed", "failed", "complete"}

\* The conditions a locally scheduled start is held to (LocalStartConditions).
Conditions == [startUtc: Nat, maxUnc: Nat, deadline: Int]

Engine ==
    [st: EngineStates, out: BOOLEAN, phase: {"none", "lead", "rf", "tail"},
     plan: Jobs \cup {NoJob}, start: Int, cond: Conditions \cup {NoCond},
     launch: Nat \cup {NoTime}, tailEnd: Nat \cup {NoTime},
     prog: Ppbs \cup {NoPpb}, frozen: Ppbs \cup {NoPpb}, pair: BOOLEAN,
     safety: {"clear", "latched", "stopped"}]

EngineInit ==
    [st |-> "idle", out |-> FALSE, phase |-> "none", plan |-> NoJob, start |-> 0,
     cond |-> NoCond, launch |-> NoTime, tailEnd |-> NoTime, prog |-> NoPpb,
     frozen |-> NoPpb, pair |-> FALSE, safety |-> "clear"]

-------------------------------------------------------------------------------
(* What core 0 calls. *)

Stopped(e) ==
    [e EXCEPT !.st = "idle", !.out = FALSE, !.phase = "none", !.plan = NoJob,
              !.start = 0, !.cond = NoCond, !.launch = NoTime, !.tailEnd = NoTime]

\* (Operators named Bug... are plausible faults of the definition after them,
\* used by no definition.)
BugDisableKeepsState(e, off) == IF off THEN Stopped(e) ELSE e

\* disable: off is whether the sink confirms that it stopped. Without the
\* confirmation the plan stays, and the output is what it was.
Disable(e, off) == IF off THEN Stopped(e) ELSE [e EXCEPT !.st = "failed"]

\* inhibit_output of the worker; core 1 acts on the latch (EngSafetyStop).
InhibitOutput(e) == IF e.safety = "clear" THEN [e EXCEPT !.safety = "latched"] ELSE e

CalibrationBoundary(e) == [e EXCEPT !.frozen = NoPpb, !.pair = FALSE]

FreezePairCalibration(e, freeze) == [e EXCEPT !.pair = freeze]

\* The correction that FrequencyPolicyEngine::prepare selects.
Selected(e, saved) == IF e.pair /\ e.frozen # NoPpb THEN e.frozen ELSE saved

\* StreamEngine::set_frequency_correction_ppb through the worker.
MayCorrect(e) == e.st = "idle" /\ e.plan = NoJob /\ ~e.out /\ e.safety = "clear"

\* StreamEngine::prepare through the worker.
MayPlan(e) == e.st = "idle" /\ ~e.out /\ e.safety = "clear"

\* FrequencyPolicyEngine::prepare: the engine it leaves and whether it accepts.
\* healthy is the health of the configuration store.
Prepare(e, j, saved, healthy) ==
    LET ppb       == Selected(e, saved)
        corrected == [e EXCEPT !.prog = ppb]
        planned   == [corrected EXCEPT !.plan = j] IN
    IF \/ ~healthy
       \/ j.kind = "unfit"
       \/ ppb # 0 /\ ~j.allow
       \/ e.prog # ppb /\ ~MayCorrect(e)
    THEN [eng |-> e, accepted |-> FALSE]
    ELSE IF ~MayPlan(e)
    THEN [eng |-> corrected, accepted |-> FALSE]
    ELSE IF j.kind = "offpolicy"
    THEN [eng |-> planned, accepted |-> FALSE]
    ELSE [eng |-> [planned EXCEPT !.frozen = ppb], accepted |-> TRUE]

\* Whether the preparation of j reports frequency adjustments.
Adjusts(j, ppb) == j.kind \in {"adjusted", "malformed"} \/ ppb # 0

StartOutcomes(chain) == {"ok", "refuse", "fault"} \cup (IF chain THEN {"early"} ELSE {})

\* begin and schedule refuse any job but the planned one; outcome is what the
\* hardware and the store allow: "ok", "refuse" before a change, "fault", or
\* "early" when the chain's lead raises the output before the caller looks.
\* A start without conditions is one the service has decided itself.
Begin(e, j, start, cond, outcome) ==
    IF e.st # "idle" \/ e.plan # j \/ e.safety # "clear" \/ outcome = "refuse"
    THEN [eng |-> e, ok |-> FALSE]
    ELSE IF outcome = "fault"
    THEN [eng |-> [e EXCEPT !.st = "failed"], ok |-> FALSE]
    ELSE [eng |-> [e EXCEPT !.st = "armed", !.start = start, !.cond = cond,
                            !.launch = NoTime, !.tailEnd = NoTime,
                            !.out = outcome = "early",
                            !.phase = IF outcome = "early" THEN "lead" ELSE "none"],
          ok |-> TRUE]

-------------------------------------------------------------------------------
(* What core 1 and its interrupts do between the calls of core 0. *)

BugLaunchAnyTime(e, now, c) ==
    \/ e.cond = NoCond
    \/ ClockStateOk(c) /\ now + c.off < e.cond.startUtc + StartWindow(e.cond.startUtc)

\* StreamEngine::project_clock: the launch guard re-evaluated against the
\* worker's own clock snapshot c. A start without conditions is strict: it is
\* made at its instant or not at all (LaunchGuard, deadline zero).
LaunchAdmissible(e, now, c) ==
    \/ e.cond = NoCond /\ now <= e.start
    \/ /\ e.cond # NoCond
       /\ now < e.cond.deadline
       /\ ClockStateOk(c)
       /\ c.unc + c.grow <= e.cond.maxUnc
       /\ LeapKnown(c)
       /\ now + c.off < e.cond.startUtc + StartWindow(e.cond.startUtc)
       /\ IntervalSafe(c, e.cond.startUtc, e.plan.dur)

LaunchTarget(e, c) == IF e.cond = NoCond THEN e.start ELSE StartMonotonic(c, e.cond.startUtc)

\* Each operator below is the set of engines that the step may leave.

\* The amplifier lead and the filter selection raise the output before RF.
EngLead(e) ==
    {f \in {[e EXCEPT !.out = TRUE, !.phase = "lead"]} :
        HasChain /\ e.st = "armed" /\ ~e.out}

EngLaunch(e, now, c) ==
    {f \in {[e EXCEPT !.st = "running", !.out = TRUE, !.phase = "rf", !.launch = now]} :
        e.st = "armed" /\ LaunchAdmissible(e, now, c) /\ now >= LaunchTarget(e, c)}

\* The start is given up: its deadline has passed or the guard refuses it.
EngMiss(e, now, c) ==
    {f \in {[e EXCEPT !.st = "missed", !.out = FALSE, !.phase = "none"]} :
        e.st = "armed" /\ ~LaunchAdmissible(e, now, c)}

Completed(e) == [e EXCEPT !.st = "complete", !.out = FALSE, !.phase = "none"]

\* The last sample is out: the RF ends, and the chain's tail begins.
EngFinish(e, now) ==
    {f \in {IF HasChain THEN [e EXCEPT !.phase = "tail", !.tailEnd = now + TailHold]
                        ELSE Completed(e)} :
        e.st = "running" /\ e.phase = "rf" /\ now >= e.launch + e.plan.dur}

EngTail(e, now) ==
    {f \in {Completed(e)} : e.st = "running" /\ e.phase = "tail" /\ now >= e.tailEnd}

\* StreamEngine::fail, whether or not the sink then stops.
EngFault(e) ==
    {f \in {[e EXCEPT !.st = "failed"],
            [e EXCEPT !.st = "failed", !.out = FALSE, !.phase = "none"]} :
        e.st \in {"armed", "running"}}

\* WorkerEngine::check_safety: the probe or the latch stops the engine for
\* good. A stop that is not confirmed aborts the firmware, so it is not a step.
EngSafetyStop(e) ==
    {f \in {[Stopped(e) EXCEPT !.safety = "stopped"]} : e.safety # "stopped"}
===============================================================================
