-------------------------------- MODULE MCLive --------------------------------
(***************************************************************************)
(* What must end (focus): an execution and an ownership of the service     *)
(* whatever its engine does ("service"); a running job without a spurious  *)
(* failure, with an amplifier chain and an engine that keeps its deadlines *)
(* ("chain"); and a call or a safety stop between the cores ("worker").    *)
(* Worker out of focus stays in an initial state.                          *)
(***************************************************************************)
EXTENDS Worker

CONSTANTS
    Second, MinArmLead, MaxArmAhead, MaxArmUnc, LeapExclusion, NoTime, NoJob, NoCond, Ppbs, NoPpb,
    SessionIds, Principals, OwnerIds, RequestIds, NoRequestId, Leases, NoOwner, NoArm, NoReply,
    ReplayCap, ReplayTtl, TerminalCap, TerminalTtl, MaxSessions, AckAllowance, MaintenanceHold,
    RequestHorizon, MaxBoots

VARIABLES focus, svc, now, saved, last

Service == INSTANCE MCJobService WITH
    Jobs <- {[id |-> "a", dur |-> 1, allow |-> FALSE, kind |-> "plain"]},
    ArmBodies <- {[startUtc |-> 2, maxUnc |-> 1]},
    Clocks <- {[sync |-> "synchronized", unc |-> 0, grow |-> 0, off |-> 0, leap |-> "normal",
                leapAt |-> NoTime, until |-> 1000]},
    Local <- TRUE, HasChain <- FALSE, TailHold <- 0, MaxTime <- 6

Chain == INSTANCE MCJobService WITH
    Jobs <- {[id |-> "a", dur |-> 1, allow |-> FALSE, kind |-> "plain"]},
    ArmBodies <- {[startUtc |-> 2, maxUnc |-> 1]},
    Clocks <- {[sync |-> "synchronized", unc |-> 0, grow |-> 0, off |-> 0, leap |-> "normal",
                leapAt |-> NoTime, until |-> 1000]},
    Local <- TRUE, HasChain <- TRUE, TailHold <- 2, MaxTime <- 8

service == <<svc, now, saved, last>>

live == <<focus, service, vars>>

NoService == svc = 0 /\ now = 0 /\ saved = 0 /\ last = 0

FocusInit ==
    /\ Init
    /\ \/ focus = "service" /\ Service!Init
       \/ focus = "chain" /\ Chain!Init
       \/ focus = "worker" /\ NoService

ServiceStep(Step) == focus = "service" /\ Step /\ UNCHANGED <<focus, vars>>

WorkerStep(Step) == focus = "worker" /\ Step /\ UNCHANGED <<focus, service>>

FocusNext ==
    \/ ServiceStep(Service!LifecycleNext)
    \/ WorkerStep(Next)
    \/ focus = "chain" /\ Chain!PunctualNext /\ UNCHANGED <<focus, vars>>

\* The fairness of Worker and of JobService, each in its focus.
FocusFairness ==
    /\ WF_live(ServiceStep(Service!Poll)) /\ WF_live(ServiceStep(Service!Tick))
    /\ WF_live(ServiceStep(Service!EngineMiss))
    /\ WF_live(WorkerStep(Core1)) /\ WF_live(WorkerStep(LaunchEnable))
    /\ WF_live(WorkerStep(LaunchCheck)) /\ WF_live(WorkerStep(FlashDone))
    /\ WF_live(WorkerStep(ClampOut)) /\ WF_live(WorkerStep(ClampEnable))

FocusSpec == FocusInit /\ [][FocusNext]_live /\ FocusFairness

Engaged == focus = "service" /\ svc.state \in {"ARMED", "RUNNING"}

Owned == focus = "service" /\ svc.owner # NoOwner

\* Every armed or running job reaches a terminal state, even when the engine
\* never finishes or cannot be stopped.
EveryExecutionEnds == Engaged ~> ~Engaged

\* An owner that stops renewing is eventually released.
EveryOwnerReleased == Owned ~> ~Owned

\* Once latched, the engine is stopped or the pin clamped, and every call is
\* answered without the help of its deadline unless core 1 has failed (Worker).
CoresProgress == SafetyStops /\ CallAnswered

\* With an engine that keeps its deadlines, the service's allowances for the
\* last acknowledgement and the tail never fail a job the engine completes.
NoSpurious == [][focus = "chain" => ~Chain!SpuriousFailure]_live

===============================================================================
