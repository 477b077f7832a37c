-------------------------------- MODULE MCTime --------------------------------
(***************************************************************************)
(* The schedule and the time it follows, one part at a time (focus): the   *)
(* scheduler with its store, the discipline and arbiter of UTC, and the    *)
(* estimator behind NTP and GPS. A part out of focus stays as it is at     *)
(* first.                                                                  *)
(***************************************************************************)
EXTENDS Scheduler

CONSTANTS
    Who, Phases, MaxNow, MaxSteps, Synced, SourceLife, BrowserLife, Holdover, Horizon,
    ReachBits, MaxDistance, RefAge, Gap, Wrong

VARIABLES focus, clk, arb, pend, est, h, e, n, net

SchedulerOnly == <<off, synced, svc, ram, disk, sch, last, disturbances>>

ClockOnly == <<clk, arb, pend, est>>

ChronyOnly == <<e, n, net>>

timeVars == <<focus, h, vars, ClockOnly, ChronyOnly>>

\* One WSPR start every four ticks, one tick after the period begins.
OneSchedule == {[period |-> 4, phase |-> 1]}

ChronyLoad(k, m, g, r, l, q, c, t) ==
    [slots |-> k, samples |-> m, gps |-> g, rates |-> r, liars |-> l, requests |-> q,
     calls |-> c, ticks |-> t]

\* Three sources of which one lies; one beside GPS; one with a frequency reference.
ChronyLoads ==
    {ChronyLoad(3, 1, FALSE, FALSE, {0}, 3, 0, 3), ChronyLoad(1, 2, TRUE, FALSE, {}, 2, 3, 3),
     ChronyLoad(1, 2, FALSE, TRUE, {}, 3, 2, 3)}

Utc == INSTANCE Clock WITH clock <- clk

Est == INSTANCE Chrony WITH Loads <- ChronyLoads

NoScheduler ==
    /\ off = Min(Offsets) /\ synced = FALSE /\ last = 0 /\ disturbances = 0 /\ disk = Blank
    /\ ram = [ok |-> TRUE, data |-> Blank] /\ svc = FreshService /\ sch = Fresh(Blank)

NoClock == clk = 0 /\ arb = 0 /\ pend = 0 /\ est = 0

NoChrony == e = 0 /\ n = 0 /\ net = 0

TimeInit ==
    \/ focus = "schedule" /\ Init /\ h = 0 /\ NoClock /\ NoChrony
    \/ focus = "clock" /\ NoScheduler /\ Utc!Init /\ NoChrony
    \/ focus = "chrony" /\ NoScheduler /\ Est!Init /\ NoClock

TimeNext ==
    \/ focus = "schedule" /\ Next /\ UNCHANGED <<focus, h, ClockOnly, ChronyOnly>>
    \/ focus = "clock" /\ Utc!Next /\ UNCHANGED <<focus, SchedulerOnly, ChronyOnly>>
    \/ focus = "chrony" /\ Est!Next /\ UNCHANGED <<focus, SchedulerOnly, ClockOnly>>

TimeSpec == TimeInit /\ [][TimeNext]_timeVars

\* What a reader is told about UTC is true or nothing is told, and a disagreement
\* ends only with two samples of one source that were taken apart (Clock).
ClockHonest ==
    /\ [](focus = "clock" => Utc!ClockHonest)
    /\ [][focus = "clock" => Utc!RecoveryStep]_timeVars

\* A model rests on samples that belong to it, each used once; what is handed on
\* is that of an honest majority and nothing withdrawn; a conflict with the GPS
\* reference ends by a confirmed capture or its removal (Chrony).
EstimateSound ==
    /\ [](focus = "chrony" => Est!EvidenceSound /\ Est!TrustSound)
    /\ [][focus = "chrony" => Est!DoubtStep]_timeVars

===============================================================================
