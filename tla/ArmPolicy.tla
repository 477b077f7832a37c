------------------------------- MODULE ArmPolicy -------------------------------
(***************************************************************************)
(* The clock policy of job_service.cpp: what a clock snapshot permits when *)
(* a job is armed (validate_arm) and again when it is launched (poll).     *)
(*                                                                         *)
(* A clock snapshot is a record                                            *)
(*   sync   "unsynchronized", "synchronized", "holdover" (inside the       *)
(*          advertised holdover age) or "aged" (holdover beyond it)        *)
(*   unc    uncertainty now; grow is what the rate uncertainty and the       *)
(*          rounding of the start add to it up to the start                *)
(*   off    UTC minus monotonic time (the rate terms of time/mapping.hpp   *)
(*          are zero here, so project and inverse are a shift by off)      *)
(*   leap   "normal", "pending" or "unknown"                               *)
(*   leapAt UTC of the pending transition, or NoTime                       *)
(*   until  UTC horizon of the source (valid_until_utc_ns)                 *)
(* Times are in ticks; Second is the number of ticks in a UTC second.      *)
(***************************************************************************)
EXTENDS Integers

CONSTANTS
    Second,        \* ticks in one UTC second
    MinArmLead,    \* config_.minimum_arm_lead_ns
    MaxArmAhead,   \* config_.maximum_arm_ahead_ns
    MaxArmUnc,     \* config_.maximum_arm_uncertainty_ns
    LeapExclusion, \* kLeapExclusionNs
    NoTime         \* the empty std::optional of a time

ASSUME ArmPolicyAssumption ==
    /\ Second \in Nat \ {0}
    /\ {MinArmLead, MaxArmAhead, MaxArmUnc, LeapExclusion} \subseteq Nat
    /\ MinArmLead <= MaxArmAhead

SyncStates == {"unsynchronized", "synchronized", "holdover", "aged"}

ClockSnapshot ==
    [sync: SyncStates, unc: Nat, grow: Nat, off: Int, leap: {"normal", "pending", "unknown"},
     leapAt: Nat \cup {NoTime}, until: Nat]

\* start_window_ns: the rest of the UTC second that contains utc.
StartWindow(utc) == Second - (utc % Second)

ClockStateOk(c) == c.sync \in {"synchronized", "holdover"}

\* A snapshot that names a pending transition must carry its time, and only then.
LeapKnown(c) == c.leap # "unknown" /\ ((c.leap = "pending") = (c.leapAt # NoTime))

\* The whole permitted interval, latest launch included, ends inside the
\* source's horizon and clear of the exclusion on either side of a leap.
IntervalSafe(c, startUtc, dur) ==
    LET latest == startUtc + StartWindow(startUtc) - 1 IN
    /\ latest < c.until
    /\ dur < c.until - latest
    /\ c.leapAt # NoTime =>
         \/ startUtc > c.leapAt + LeapExclusion
         \/ latest + dur < c.leapAt - LeapExclusion

\* JobService::validate_arm, in the order in which it tests.
ValidateArm(c, now, body, dur) ==
    LET ahead == body.startUtc - (now + c.off) IN
    IF ~ClockStateOk(c)                         THEN "CLOCK_UNSYNCHRONIZED"
    ELSE IF c.unc > body.maxUnc \/ c.unc > MaxArmUnc THEN "CLOCK_UNCERTAIN"
    ELSE IF ~LeapKnown(c)                       THEN "LEAP_UNSAFE"
    ELSE IF ahead < MinArmLead                  THEN "ARM_TOO_LATE"
    ELSE IF ahead > MaxArmAhead                 THEN "ARM_TOO_FAR"
    ELSE IF c.unc + c.grow > body.maxUnc \/ c.unc + c.grow > MaxArmUnc
                                                THEN "CLOCK_UNCERTAIN"
    ELSE IF ~IntervalSafe(c, body.startUtc, dur) THEN "LEAP_UNSAFE"
    ELSE "NONE"

\* inverse: the monotonic instant of a UTC time under snapshot c.
StartMonotonic(c, startUtc) == startUtc - c.off

\* The recheck of poll() at a service-launched start: mapping error, clock
\* state, uncertainty, leap and horizon.
LaunchClockOk(c, arm, dur) ==
    LET mapped == arm.start + c.off
        error  == IF mapped > arm.startUtc THEN mapped - arm.startUtc
                                           ELSE arm.startUtc - mapped IN
    /\ ClockStateOk(c)
    /\ c.unc <= arm.maxUnc /\ c.unc <= MaxArmUnc
    /\ error <= c.unc
    /\ LeapKnown(c)
    /\ IntervalSafe(c, arm.startUtc, dur)
===============================================================================
