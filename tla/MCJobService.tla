----------------------------- MODULE MCJobService -----------------------------
(***************************************************************************)
(* Small instances of JobService. Each run takes the actions its question  *)
(* is about; the view leaves out what no guard of the run reads: the last  *)
(* reply, and the age of sessions where their lifetime exceeds MaxTime.    *)
(***************************************************************************)
EXTENDS JobService, TLC

J(id, dur, allow, kind) == [id |-> id, dur |-> dur, allow |-> allow, kind |-> kind]

OneJob == {J("a", 1, FALSE, "plain")}
TwoJobs == {J("a", 1, FALSE, "plain"), J("b", 2, TRUE, "adjusted")}
ThreeJobs == TwoJobs \cup {J("c", 1, FALSE, "plain")}

RefusedJobs == {J("a", 1, FALSE, "plain"), J("b", 1, FALSE, "adjusted")}

Clock(sync, off) ==
    [sync |-> sync, unc |-> 0, grow |-> 0, off |-> off, leap |-> "normal",
     leapAt |-> NoTime, until |-> 1000]

SteadyClock == {Clock("synchronized", 0)}
SteeredClock == {Clock("synchronized", 0), Clock("synchronized", 1), Clock("unsynchronized", 0)}

ArmAt2 == {[startUtc |-> 2, maxUnc |-> 1]}

Bare == [svc EXCEPT !.sessions = {<<n.id, n.principal>> : n \in @}]
BareView == <<Bare, now, saved>>
ReplyView == <<svc, now, saved>>

\* The lifecycle of jobs: one in-process client, the foreground and core 1.
LifecycleNext == Requests \/ Poll \/ LocalAbort \/ Tick \/ Engine1

LifecycleSpec == Init /\ [][LifecycleNext]_vars

\* Jobs that end, by themselves or by an abort, and are sent again.
RecordsNext ==
    \/ \E from \in Senders : Hello(from) \/ Claim(from) \/ Load(from) \/ Arm(from) \/ Abort(from)
    \/ Poll \/ Tick \/ EngineLaunch \/ EngineFinish

\* Sessions, ownership and the replay cache: several clients and principals.
Clients ==
    \E from \in Senders :
        Hello(from) \/ Claim(from) \/ Renew(from) \/ Release(from)

ClientSymmetry ==
    Permutations(SessionIds) \cup Permutations(Principals) \cup Permutations(RequestIds)

SessionNext == Clients \/ Poll \/ Tick

\* The interlock and maintenance against a transport client that retries.
InterlockNext(senders) ==
    (\E from \in senders : RequestOf(from)) \/ Poll \/ LocalInhibit \/ Upkeep \/ Tick \/ EngineLaunch

\* Calibration over ownerships: pairs, saved corrections and resets.
CalibrationNext ==
    Requests \/ Poll \/ LocalAbort \/ FreezePair \/ SaveCorrection \/ Reset \/ Tick

CalibrationSpec == Init /\ [][CalibrationNext]_vars

\* An engine without faults that is at most AckAllowance late: time does not
\* pass a finish or the end of a tail by more than that.
PunctualTick ==
    /\ EngFinish(svc.eng, now - AckAllowance) = {}
    /\ EngTail(svc.eng, now - AckAllowance) = {}
    /\ Tick

PunctualNext ==
    \/ Requests \/ Poll \/ PunctualTick
    \/ EngineLead \/ EngineLaunch \/ EngineMiss \/ EngineFinish \/ EngineTail
===============================================================================
