------------------------------ MODULE JobService ------------------------------
(***************************************************************************)
(* The WTP job service (wtp/job_service.cpp): sessions, the exclusive      *)
(* owner and its lease, one current job and its lifecycle, the replay      *)
(* cache, the terminal records, the local interlocks and maintenance.      *)
(*                                                                         *)
(* A service is a record s with the members of class JobService that the   *)
(* control depends on, the engine it drives (eng) included. Methods are    *)
(* operators that return the service they leave; the actions at the end    *)
(* apply them. Everything the service reads from outside during a call is  *)
(* the record x of that call: the monotonic time x.now, the clock snapshot *)
(* x.clk, whether the engine confirms a disable (x.off), what it makes of  *)
(* a start (x.start), what limits an admission (x.admit: "ok", "memory" or *)
(* "store") and the saved frequency correction (x.saved).                  *)
(***************************************************************************)
EXTENDS TxEngine, LruSet

CONSTANTS
    SessionIds, Principals, OwnerIds,
    RequestIds,      \* ids of transport requests
    NoRequestId,     \* the fresh id of an internal request, never repeated
    Leases,          \* leases that a client may ask for
    ArmBodies,       \* [startUtc, maxUnc] tuples that clients arm with
    Clocks,          \* clock snapshots
    NoOwner, NoArm, NoReply,
    ReplayCap,       \* config_.response_cache_entries, per session
    ReplayTtl,       \* config_.response_cache_ttl_ns, of sessions too
    TerminalCap,     \* config_.terminal_record_entries
    TerminalTtl,     \* config_.terminal_record_ttl_ns
    MaxSessions,     \* kMaximumSessions
    AckAllowance,    \* completion_acknowledgement_ns
    MaintenanceHold, \* the 15 s deadline of begin_maintenance
    MaxTime,         \* bound: the clock stops here
    RequestHorizon,  \* bound: no request arrives later than this
    MaxBoots         \* bound on reset()

JobIds == {j.id : j \in Jobs}

ASSUME JobServiceAssumption ==
    /\ Leases \subseteq Nat \ {0}
    /\ \A b \in ArmBodies : b.startUtc \in Nat /\ b.maxUnc \in Nat
    /\ Clocks \subseteq ClockSnapshot /\ Clocks # {}
    /\ {ReplayCap, ReplayTtl, TerminalCap, TerminalTtl, MaxSessions} \subseteq Nat \ {0}
    /\ {AckAllowance, MaintenanceHold, MaxTime, RequestHorizon, MaxBoots} \subseteq Nat
    /\ NoRequestId \notin RequestIds

States == {"EMPTY", "LOADED", "ARMED", "RUNNING", "COMPLETE", "ABORTED", "MISSED", "FAILED"}
Live == {"LOADED", "ARMED", "RUNNING"}
TerminalStates == {"COMPLETE", "ABORTED", "MISSED", "FAILED"}

Ops == {"HELLO", "STATUS", "CLAIM", "RENEW", "RELEASE", "LOAD", "ARM", "ABORT"}

ErrorCodes ==
    {"NONE", "DEVICE_FAULT", "BUSY", "HELLO_REQUIRED", "AUTHENTICATION_REQUIRED",
     "REQUEST_ID_REUSE", "LEASE_EXPIRED", "NOT_OWNER", "INVALID_STATE", "INVALID_MESSAGE",
     "INTERNAL_ERROR", "FREQUENCY_REJECTED", "JOB_ID_CONFLICT", "ARM_CONFLICT", "JOB_NOT_FOUND",
     "OUTPUT_STATE_UNKNOWN", "MISSED_START", "CLOCK_UNSYNCHRONIZED", "CLOCK_UNCERTAIN",
     "LEAP_UNSAFE", "ARM_TOO_LATE", "ARM_TOO_FAR"}

Owners == [id: OwnerIds, session: SessionIds, principal: Principals,
           expires: Nat, release: BOOLEAN]

\* ArmRecord; the clock snapshot that the reply repeats is left out.
Arms == [startUtc: Nat, maxUnc: Nat, start: Int, local: BOOLEAN, launch: Nat \cup {NoTime}]

ASSUME SentinelAssumption == NoOwner \notin Owners /\ NoArm \notin Arms

-------------------------------------------------------------------------------
(* Resources: owner, current job, records (job_service.cpp 990-1171). *)

\* (Operators named Bug... are plausible faults of the definition after them.
\* No definition uses them; a run with one in place must fail.)
BugDropOwnerFrozen(s) == [s EXCEPT !.owner = NoOwner]

\* owner_.reset() is always followed by calibration_boundary().
DropOwner(s) == [s EXCEPT !.owner = NoOwner, !.eng = CalibrationBoundary(@)]

BugClearJobState(s) == [s EXCEPT !.job = NoJob, !.arm = NoArm]

ClearJob(s) == [s EXCEPT !.job = NoJob, !.arm = NoArm, !.state = "EMPTY"]

ReleasePending(s) == IF s.owner # NoOwner /\ s.owner.release THEN DropOwner(s) ELSE s

\* record_terminal: the record goes to the front, and what falls off the
\* back takes its retained job with it.
RecordTerminal(s, state, err, x) ==
    LET record  == [job |-> s.job.id, state |-> state, at |-> x.now, out |-> s.eng.out,
                    err |-> err, pos |-> 0]
        pushed  == PushFront(s.terminals, record)
        kept    == Newest(pushed, TerminalCap)
        evicted == {r.job : r \in pushed \ kept}
    IN ReleasePending([s EXCEPT !.state = state, !.terminals = kept,
                                !.retained = {t \in @ \cup {[job |-> s.job, arm |-> s.arm]} :
                                                t.job.id \notin evicted}])

BugStopAsTrusting(s, state, err, x) == RecordTerminal(s, state, err, x)

\* Every end of an execution: disable, then the record that the outcome allows.
StopAs(s, state, err, x) ==
    RecordTerminal([s EXCEPT !.eng = Disable(@, x.off)],
                   IF x.off THEN state ELSE "FAILED",
                   IF x.off THEN err ELSE "OUTPUT_STATE_UNKNOWN", x)

BugExpireDropsOwner(s, x) ==
    IF s.owner = NoOwner \/ x.now < s.owner.expires THEN s ELSE DropOwner(s)

BugExpireStopsLive(s, x) ==
    IF s.owner = NoOwner \/ x.now < s.owner.expires THEN s
    ELSE IF s.state \in Live THEN DropOwner(ClearJob(StopAs(s, "ABORTED", "NONE", x)))
    ELSE DropOwner(s)

BugExpireKeepsFailed(s, x) ==
    IF s.owner = NoOwner \/ x.now < s.owner.expires THEN s
    ELSE IF s.state = "EMPTY" THEN DropOwner(s)
    ELSE [s EXCEPT !.owner.release = TRUE]

\* expire_resources
ExpireResources(s, x) ==
    IF s.owner = NoOwner \/ x.now < s.owner.expires THEN s
    ELSE IF s.state \in {"ARMED", "RUNNING"} THEN [s EXCEPT !.owner.release = TRUE]
    ELSE IF s.state = "LOADED"
         THEN LET stopped == StopAs(s, "ABORTED", "NONE", x) IN
              DropOwner(IF stopped.state = "FAILED" THEN stopped ELSE ClearJob(stopped))
    ELSE DropOwner(s)

BugPruneReplayNever(s, x) == s

PruneReplay(s, x) ==
    [s EXCEPT !.replay = Compact({r \in @ : x.now - r.at < ReplayTtl})]

BugPruneTerminalsEarly(s, x) ==
    LET live   == {r \in s.terminals : x.now - r.at < TerminalTtl - 1}
        pruned == [s EXCEPT !.terminals = Compact(live),
                            !.retained = {t \in @ : \E r \in live : r.job = t.job.id}]
    IN IF s.state \in {"COMPLETE", "ABORTED", "MISSED"} /\ \A r \in live : r.job # s.job.id
       THEN ClearJob(pruned) ELSE pruned

PruneTerminals(s, x) ==
    LET expired == {r \in s.terminals : x.now - r.at >= TerminalTtl}
        live    == s.terminals \ expired
        pruned  == [s EXCEPT !.terminals = Compact(live),
                             !.retained = {t \in @ : \E r \in live : r.job = t.job.id}]
    IN IF /\ s.job # NoJob /\ \E r \in expired : r.job = s.job.id
          /\ s.state \in {"COMPLETE", "ABORTED", "MISSED"}
       THEN ClearJob(pruned) ELSE pruned

PruneSessions(s, x) ==
    [s EXCEPT !.sessions = {n \in @ : \/ s.owner # NoOwner /\ s.owner.session = n.id
                                      \/ x.now - n.seen < ReplayTtl}]

\* The prologue of every request and of poll().
Refresh(s, x) == PruneSessions(PruneTerminals(PruneReplay(ExpireResources(s, x), x), x), x)

TouchTerminal(s, id) ==
    [s EXCEPT !.terminals = IF \E r \in @ : r.job = id
                            THEN ToFront(@, CHOOSE r \in @ : r.job = id) ELSE @]

Retained(s, id) == {t \in s.retained : t.job.id = id}

Maintenance(s, now) == s.verify \/ now < s.maint

-------------------------------------------------------------------------------
(* Replies. A request's outcome is the pair of the service and the reply. *)

Reject(s, r, err) == [s |-> s, reply |-> [op |-> r.op, err |-> err]]

\* success, retained_load_response and arm_response: what they copy into the
\* reply besides is left out.
Success(s, r) == [s |-> s, reply |-> [op |-> r.op, err |-> "NONE"]]

-------------------------------------------------------------------------------
(* dispatch, one operator per operation. *)

BugClaimSteals(s, r, x) ==
    Success([s EXCEPT !.owner = [id |-> r.body.owner, session |-> r.session,
                                 principal |-> r.principal,
                                 expires |-> x.now + r.body.lease, release |-> FALSE]], r)

DoClaim(s, r, x) ==
    IF s.owner # NoOwner THEN Reject(s, r, "BUSY")
    ELSE Success([s EXCEPT !.eng = CalibrationBoundary(@),
                           !.owner = [id |-> r.body.owner, session |-> r.session,
                                      principal |-> r.principal,
                                      expires |-> x.now + r.body.lease,
                                      release |-> FALSE]], r)

DoRenew(s, r, x) ==
    IF r.body.owner # s.owner.id THEN Reject(s, r, "NOT_OWNER")
    ELSE IF s.owner.release THEN Reject(s, r, "LEASE_EXPIRED")
    ELSE Success([s EXCEPT !.owner.expires = x.now + r.body.lease], r)

BugReleaseFailed(s, r) ==
    IF s.state \in {"ARMED", "RUNNING"} THEN Reject(s, r, "INVALID_STATE")
    ELSE Success(DropOwner(ClearJob(s)), r)

DoRelease(s, r) ==
    IF s.state \in {"ARMED", "RUNNING", "FAILED"} THEN Reject(s, r, "INVALID_STATE")
    ELSE Success(DropOwner(ClearJob(s)), r)

\* The admission of a new job, after the idempotent cases.
AdmitJob(s, r, x) ==
    LET j        == r.body.job
        prepared == Prepare(s.eng, j, x.saved, x.admit # "store")
        tried    == [s EXCEPT !.eng = prepared.eng]
        adjusts  == Adjusts(j, Selected(s.eng, x.saved)) IN
    IF s.state \in {"ARMED", "RUNNING"} THEN Reject(s, r, "INVALID_STATE")
    ELSE IF j.kind = "invalid" THEN Reject(s, r, "INVALID_MESSAGE")
    ELSE IF x.admit = "memory" THEN Reject(s, r, "INTERNAL_ERROR")
    ELSE IF ~prepared.accepted \/ (adjusts /\ ~j.allow)
         THEN Reject(tried, r, "FREQUENCY_REJECTED")
    ELSE IF j.kind = "malformed" THEN Reject(tried, r, "DEVICE_FAULT")
    ELSE Success([tried EXCEPT !.job = j, !.arm = NoArm, !.state = "LOADED"], r)

\* A replay body (LoadReplayBody) carries only the id and the digest of a job
\* that the adapter found too large to decode again: r.body.full is FALSE.
DoLoad(s, r, x) ==
    LET j    == r.body.job
        held == Retained(s, j.id) IN
    IF s.eng.out \/ s.state = "FAILED" THEN Reject(s, r, "INVALID_STATE")
    ELSE IF held # {}
         THEN IF \E t \in held : t.job = j THEN Success(TouchTerminal(s, j.id), r)
                                           ELSE Reject(s, r, "JOB_ID_CONFLICT")
    ELSE IF s.job # NoJob /\ s.job.id = j.id
         THEN IF s.job = j THEN Success(s, r) ELSE Reject(s, r, "JOB_ID_CONFLICT")
    ELSE IF ~r.body.full THEN Reject(s, r, "INVALID_STATE")
    ELSE AdmitJob(s, r, x)

SameTuple(arm, body) == arm # NoArm /\ arm.startUtc = body.startUtc /\ arm.maxUnc = body.maxUnc

\* The accepted ARM: the record is made first, and a local engine that
\* refuses the schedule turns the job into a failed one.
ScheduleJob(s, r, x) ==
    LET b     == r.body.arm
        start == StartMonotonic(x.clk, b.startUtc)
        armed == [s EXCEPT !.state = "ARMED",
                           !.arm = [startUtc |-> b.startUtc, maxUnc |-> b.maxUnc,
                                    start |-> start, local |-> Local, launch |-> NoTime]]
        cond  == [startUtc |-> b.startUtc,
                  maxUnc   |-> IF b.maxUnc < MaxArmUnc THEN b.maxUnc ELSE MaxArmUnc,
                  deadline |-> StartMonotonic(x.clk, b.startUtc + StartWindow(b.startUtc))]
        begun == Begin(s.eng, s.job, start, cond, x.start)
        failed == StopAs([armed EXCEPT !.arm = NoArm, !.eng = begun.eng],
                         "FAILED", "DEVICE_FAULT", x) IN
    IF ~Local THEN Success(armed, r)
    ELSE IF begun.ok /\ ~begun.eng.out THEN Success([armed EXCEPT !.eng = begun.eng], r)
    ELSE Reject(failed, r, IF x.off THEN "DEVICE_FAULT" ELSE "OUTPUT_STATE_UNKNOWN")

DoArm(s, r, x) ==
    LET b       == r.body.arm
        held    == Retained(s, r.body.job)
        current == s.job # NoJob /\ s.job.id = r.body.job
        verdict == ValidateArm(x.clk, x.now, b, s.job.dur) IN
    IF held # {}
    THEN IF \E t \in held : SameTuple(t.arm, b)
         THEN Success(TouchTerminal(s, r.body.job), r)
         ELSE Reject(s, r, "INVALID_STATE")
    ELSE IF current /\ SameTuple(s.arm, b) THEN Success(s, r)
    ELSE IF current /\ s.arm # NoArm /\ s.state \in {"ARMED", "RUNNING"}
         THEN Reject(s, r, "ARM_CONFLICT")
    ELSE IF ~current THEN Reject(s, r, "JOB_NOT_FOUND")
    ELSE IF s.state # "LOADED" \/ s.eng.out THEN Reject(s, r, "INVALID_STATE")
    ELSE IF verdict # "NONE" THEN Reject(s, r, verdict)
    ELSE ScheduleJob(s, r, x)

\* abort_job, also the local abort's.
AbortJob(s, r, id, x) ==
    IF s.job = NoJob \/ s.job.id # id THEN Reject(s, r, "JOB_NOT_FOUND")
    ELSE IF s.state = "ABORTED" THEN Success(s, r)
    ELSE IF s.state \in {"COMPLETE", "MISSED"} THEN Reject(s, r, "INVALID_STATE")
    ELSE IF s.state = "FAILED" THEN Reject(s, r, "OUTPUT_STATE_UNKNOWN")
    ELSE IF x.off THEN Success(StopAs(s, "ABORTED", "NONE", x), r)
    ELSE Reject(StopAs(s, "ABORTED", "NONE", x), r, "OUTPUT_STATE_UNKNOWN")

Owns(s, r) == s.owner.session = r.session /\ s.owner.principal = r.principal

ReadOps == {"HELLO", "STATUS"}   \* STATUS stands for CAPS, GET_CLOCK and PING too

Dispatch(s, r, x) ==
    IF r.op \in ReadOps THEN Success(s, r)
    ELSE IF r.op = "CLAIM" THEN DoClaim(s, r, x)
    ELSE IF s.owner = NoOwner THEN Reject(s, r, "LEASE_EXPIRED")
    ELSE IF ~Owns(s, r) THEN Reject(s, r, "NOT_OWNER")
    ELSE CASE r.op = "RENEW"   -> DoRenew(s, r, x)
           [] r.op = "RELEASE" -> DoRelease(s, r)
           [] r.op = "LOAD"    -> DoLoad(s, r, x)
           [] r.op = "ARM"     -> DoArm(s, r, x)
           [] r.op = "ABORT"   -> AbortJob(s, r, r.body.job, x)

-------------------------------------------------------------------------------
(* handle_owned *)

Authority == {"CLAIM", "RENEW", "LOAD", "ARM"}

SessionOf(s, id) == {n \in s.sessions : n.id = id}

SeeSession(s, r, x) ==
    [s EXCEPT !.sessions = (@ \ SessionOf(s, r.session)) \cup
                           {[id |-> r.session, principal |-> r.principal, seen |-> x.now]}]

\* replay: what the cache holds for this request id of this session.
Cached(s, r) == {e \in s.replay : e.session = r.session /\ e.id = r.id}

SamePayload(e, r) == e.op = r.op /\ e.body = r.body

\* remember: the session's least recently used entry makes room. principal is
\* a history field of the model: who sent the request.
Remember(s, r, reply, x) ==
    LET mine   == {e \in s.replay : e.session = r.session}
        oldest == CHOOSE e \in mine : \A f \in mine : f.pos <= e.pos
        kept   == IF Cardinality(mine) >= ReplayCap THEN s.replay \ {oldest} ELSE s.replay
    IN [s EXCEPT !.replay =
          PushFront(Compact(kept),
                    [session |-> r.session, principal |-> r.principal, id |-> r.id, op |-> r.op,
                     body |-> r.body, reply |-> reply, at |-> x.now, pos |-> 0])]

\* Requests of in-process producers are not remembered.
Remembered(done, r, x) ==
    IF r.id = NoRequestId THEN done
    ELSE [done EXCEPT !.s = Remember(done.s, r, done.reply, x)]

\* Replay or dispatch of an admitted request.
Serve(s, r, x) ==
    LET hits == Cached(s, r) IN
    IF hits # {}
    THEN LET hit == CHOOSE e \in hits : TRUE IN
         IF SamePayload(hit, r)
         THEN [s |-> [s EXCEPT !.replay = ToFront(@, hit)], reply |-> hit.reply]
         ELSE Reject(s, r, "REQUEST_ID_REUSE")
    ELSE Remembered(Dispatch(s, r, x), r, x)

BugRefusedUnlessCached(s, r, x) ==
    (s.inhibited \/ Maintenance(s, x.now)) /\ r.op \in Authority /\ Cached(s, r) = {}

\* Checked before the replay as well as before dispatch.
Refused(s, r, x) == (s.inhibited \/ Maintenance(s, x.now)) /\ r.op \in Authority

\* handle_owned after its prologue.
Handle(s, r, x) ==
    LET known == SessionOf(s, r.session) IN
    IF ~s.ready THEN Reject(s, r, "DEVICE_FAULT")
    ELSE IF Refused(s, r, x) THEN Reject(s, r, "BUSY")
    ELSE IF known = {} /\ r.op # "HELLO" THEN Reject(s, r, "HELLO_REQUIRED")
    ELSE IF \E n \in known : n.principal # r.principal
         THEN Reject(s, r, "AUTHENTICATION_REQUIRED")
    ELSE IF known = {} /\ Cardinality(s.sessions) >= MaxSessions THEN Reject(s, r, "BUSY")
    ELSE Serve(SeeSession(s, r, x), r, x)

HandleOwned(s, r, x) == Handle(Refresh(s, x), r, x)

-------------------------------------------------------------------------------
(* poll and the local controls *)

\* The report of a running engine, and the end of the run it implies.
NominalEnd(s) == (IF s.arm.launch = NoTime THEN s.arm.start ELSE s.arm.launch) + s.job.dur

BugAwaitsNoTail(s, now) ==
    /\ s.arm.local /\ s.eng.st = "running"
    /\ AckAllowance > 0 /\ now <= NominalEnd(s) + AckAllowance

\* The tail of the chain, and the acknowledgement of the last block, may
\* outlast the nominal end of a locally scheduled job by a bounded time.
AwaitsEnd(s, now) ==
    /\ s.arm.local /\ s.eng.st = "running"
    /\ \/ /\ s.eng.phase = "tail" /\ s.eng.tailEnd # NoTime /\ TailHold > 0
          /\ s.eng.tailEnd >= NominalEnd(s)
          /\ s.eng.tailEnd <= now + TailHold
          /\ now <= s.eng.tailEnd + AckAllowance
       \/ AckAllowance > 0 /\ now <= NominalEnd(s) + AckAllowance

BugSettleReportOnly(s, x) ==
    IF s.eng.st = "missed" THEN StopAs(s, "MISSED", "MISSED_START", x)
    ELSE IF s.eng.st = "failed" THEN StopAs(s, "FAILED", "DEVICE_FAULT", x)
    ELSE IF s.eng.st = "complete" THEN StopAs(s, "COMPLETE", "NONE", x)
    ELSE s

Settle(s0, x) ==
    LET s == IF s0.eng.launch = NoTime THEN s0 ELSE [s0 EXCEPT !.arm.launch = s0.eng.launch] IN
    IF s.eng.st = "missed" THEN StopAs(s, "MISSED", "MISSED_START", x)
    ELSE IF s.eng.st = "failed" THEN StopAs(s, "FAILED", "DEVICE_FAULT", x)
    ELSE IF s.eng.st = "complete" THEN StopAs(s, "COMPLETE", "NONE", x)
    ELSE IF x.now >= NominalEnd(s) /\ ~AwaitsEnd(s, x.now)
         THEN StopAs(s, "FAILED", "DEVICE_FAULT", x)
    ELSE s

BugNeverLate(s, x) == FALSE

TooLate(s, x) == x.now - s.arm.start >= StartWindow(s.arm.startUtc)

\* The start of a job that the engine does not schedule itself.
LaunchByService(s, x) ==
    LET begun == Begin(s.eng, s.job, x.now, NoCond, x.start) IN
    IF x.now < s.arm.start THEN s
    ELSE IF TooLate(s, x) \/ ~LaunchClockOk(x.clk, s.arm, s.job.dur)
         THEN StopAs(s, "MISSED", "MISSED_START", x)
    ELSE IF ~begun.ok THEN StopAs([s EXCEPT !.eng = begun.eng], "FAILED", "DEVICE_FAULT", x)
    ELSE Settle([s EXCEPT !.eng = begun.eng, !.arm.launch = x.now, !.state = "RUNNING"], x)

EngineWaits(e) == e.st = "armed" /\ (~e.out \/ e.phase = "lead")

\* poll after its prologue.
PollRefreshed(s, x) ==
    IF s.state = "RUNNING" THEN Settle(s, x)
    ELSE IF s.state # "ARMED" THEN s
    ELSE IF ~s.arm.local THEN LaunchByService(s, x)
    ELSE IF EngineWaits(s.eng) THEN s
    ELSE Settle([s EXCEPT !.state = "RUNNING"], x)

PollService(s, x) == PollRefreshed(Refresh(s, x), x)

BugLocalAbortKeepsOwner(s0, r, x) ==
    LET s == PollService(s0, x) IN
    IF s.job # NoJob THEN AbortJob(s, r, s.job.id, x) ELSE Success(s, r)

\* local_abort after its poll().
AbortPolled(s, r, x) ==
    LET done == IF s.job # NoJob /\ s.state \notin {"COMPLETE", "MISSED"}
                THEN AbortJob(s, r, s.job.id, x)
                ELSE IF s.eng.out THEN Reject(s, r, "OUTPUT_STATE_UNKNOWN")
                ELSE Success(s, r) IN
    IF s.state = "FAILED" \/ ~s.ready THEN Reject(s, r, "OUTPUT_STATE_UNKNOWN")
    ELSE IF done.reply.err = "NONE" THEN [done EXCEPT !.s = DropOwner(@)]
    ELSE done

LocalAbortOf(s0, r, x) == AbortPolled(PollService(s0, x), r, x)

\* local_inhibit_output after its abort; off2 is the outcome of its last disable.
InhibitAborted(aborted, r, off2) ==
    LET s     == [aborted.s EXCEPT !.eng = Disable(@, off2)]
        quiet == /\ aborted.reply.err = "NONE" /\ off2
                 /\ ~s.eng.out /\ s.owner = NoOwner
                 /\ s.state \notin {"ARMED", "RUNNING", "FAILED"} IN
    IF quiet THEN Success(s, r) ELSE Reject(s, r, "OUTPUT_STATE_UNKNOWN")

\* The latch is set whatever happens, the reply says whether the stop was verified.
LocalInhibitOf(s0, r, x, off2) ==
    InhibitAborted(
        LocalAbortOf([s0 EXCEPT !.inhibited = TRUE, !.eng = InhibitOutput(@)], r, x), r, off2)

BugMaintenanceOverOwner(s, now) ==
    s.ready /\ ~s.inhibited /\ ~Maintenance(s, now) /\ s.state = "EMPTY" /\ ~s.eng.out

MayBeginMaintenance(s, now) ==
    /\ s.ready /\ ~s.inhibited /\ ~Maintenance(s, now)
    /\ s.owner = NoOwner /\ s.state = "EMPTY" /\ ~s.eng.out

VerificationSafe(s) ==
    s.ready /\ ~s.inhibited /\ s.owner = NoOwner /\ s.state = "EMPTY" /\ ~s.eng.out

\* The constructor: verify is set by main() on the first boot after an update.
Boot(e, off, verify) ==
    [state |-> IF off THEN "EMPTY" ELSE "FAILED", ready |-> off, owner |-> NoOwner,
     job |-> NoJob, arm |-> NoArm, sessions |-> {}, replay |-> {}, terminals |-> {},
     retained |-> {}, inhibited |-> FALSE, maint |-> 0, verify |-> verify,
     boot |-> 0, eng |-> Disable(e, off)]

\* reset: everything but the interlock; fresh is whether the new boot id is
\* valid and differs from the old one.
ResetOf(s, off, fresh) ==
    [Boot(CalibrationBoundary(s.eng), off, FALSE) EXCEPT
        !.inhibited = s.inhibited, !.ready = off /\ fresh,
        !.state = IF off /\ fresh THEN "EMPTY" ELSE "FAILED",
        !.boot = s.boot + 1]

-------------------------------------------------------------------------------
(* The state machine. *)

VARIABLES
    svc,    \* the service and its engine
    now,    \* monotonic time
    saved,  \* the frequency correction of the saved configuration
    last    \* the last reply, NoReply after any other step

vars == <<svc, now, saved, last>>

\* What a call reads; an action overrides the members its code consults.
Context == [now |-> now, saved |-> saved, off |-> TRUE, clk |-> CHOOSE c \in Clocks : TRUE,
            start |-> "ok", admit |-> "ok"]

Init ==
    /\ now = 0 /\ saved = 0 /\ last = NoReply
    /\ \E off, verify \in BOOLEAN : svc = Boot(EngineInit, off, verify)

\* Senders of requests: a transport session with its request ids, or an
\* in-process producer (handle_internal).
Senders == [session: SessionIds, principal: Principals, id: RequestIds \cup {NoRequestId}]

\* The reply of a step that answers nobody is not an answer.
ASSUME ReplyAssumption ==
    NoReply \notin [op: Ops, err: ErrorCodes, from: Senders] \cup
                   [op: {"LOCAL_ABORT", "INHIBIT"}, err: ErrorCodes]

NoBody == [empty |-> TRUE]

Bodies == {NoBody} \cup [owner: OwnerIds, lease: Leases] \cup [job: Jobs, full: BOOLEAN]
              \cup [job: JobIds, arm: ArmBodies] \cup [job: JobIds]

Request(op, from, body, x) ==
    LET r    == [op |-> op, session |-> from.session, principal |-> from.principal,
                 id |-> from.id, body |-> body] IN
    /\ now <= RequestHorizon
    /\ \E done \in {HandleOwned(svc, r, x)} :
         svc' = done.s /\ last' = [op |-> op, err |-> done.reply.err, from |-> from]
    /\ UNCHANGED <<now, saved>>

Off(o) == [Context EXCEPT !.off = o]

\* A call that may start a job also reads a clock and the outcome of the start.
Starting(o, c, st) == [Off(o) EXCEPT !.clk = c, !.start = st]

\* Only a live job is ever stopped by a request or by poll(), so only then
\* does the outcome of a disable matter.
Confirms == IF svc.state \in Live THEN BOOLEAN ELSE {TRUE}

\* What poll() may meet; it starts jobs itself only for an engine that does not.
PollContexts ==
    IF Local THEN {Off(o) : o \in Confirms}
    ELSE {Starting(o, c, st) : o \in Confirms, c \in Clocks, st \in StartOutcomes(HasChain)}

Hello(from)   == \E o \in Confirms : Request("HELLO", from, NoBody, Off(o))
Status(from)  == \E o \in Confirms : Request("STATUS", from, NoBody, Off(o))
Release(from) == \E o \in Confirms : Request("RELEASE", from, NoBody, Off(o))

Claim(from) ==
    \E o \in Confirms, i \in OwnerIds, n \in Leases :
        Request("CLAIM", from, [owner |-> i, lease |-> n], Off(o))

Renew(from) ==
    \E o \in Confirms, i \in OwnerIds, n \in Leases :
        Request("RENEW", from, [owner |-> i, lease |-> n], Off(o))

Load(from) ==
    \E j \in Jobs, o \in Confirms, full \in BOOLEAN, admit \in {"ok", "memory", "store"} :
        Request("LOAD", from, [job |-> j, full |-> full], [Off(o) EXCEPT !.admit = admit])

Arm(from) ==
    \E id \in JobIds, b \in ArmBodies, o \in Confirms, c \in Clocks, st \in StartOutcomes(HasChain) :
        Request("ARM", from, [job |-> id, arm |-> b], Starting(o, c, st))

Abort(from) ==
    \E id \in JobIds, o \in Confirms : Request("ABORT", from, [job |-> id], Off(o))

Poll ==
    /\ \E x \in PollContexts : svc' = PollService(svc, x)
    /\ last' = NoReply /\ UNCHANGED <<now, saved>>

LocalAbort ==
    \E x \in PollContexts :
        \E done \in {LocalAbortOf(svc, [op |-> "LOCAL_ABORT"], x)} :
            svc' = done.s /\ last' = done.reply /\ UNCHANGED <<now, saved>>

LocalInhibit ==
    \E x \in PollContexts, off2 \in BOOLEAN :
        \E done \in {LocalInhibitOf(svc, [op |-> "INHIBIT"], x, off2)} :
            svc' = done.s /\ last' = done.reply /\ UNCHANGED <<now, saved>>

BeginMaintenance ==
    /\ MayBeginMaintenance(svc, now)
    /\ svc' = [svc EXCEPT !.maint = now + MaintenanceHold]
    /\ last' = NoReply /\ UNCHANGED <<now, saved>>

EndMaintenance ==
    /\ svc.maint # 0
    /\ svc' = [svc EXCEPT !.maint = 0]
    /\ last' = NoReply /\ UNCHANGED <<now, saved>>

\* usb/maintenance.hpp: the host confirms the update; the deadline ends too.
FinishVerification ==
    /\ svc.verify /\ VerificationSafe(svc)
    /\ svc' = [svc EXCEPT !.verify = FALSE, !.maint = 0]
    /\ last' = NoReply /\ UNCHANGED <<now, saved>>

\* The scheduler freezes the calibration of a pair of frames it has claimed
\* the transmitter for, and thaws it when it gives the pair up.
FreezePair ==
    \E freeze \in BOOLEAN :
        /\ freeze => svc.owner # NoOwner
        /\ svc' = [svc EXCEPT !.eng = FreezePairCalibration(@, freeze)]
        /\ last' = NoReply /\ UNCHANGED <<now, saved>>

Reset ==
    /\ svc.boot < MaxBoots
    /\ \E off, fresh \in BOOLEAN : svc' = ResetOf(svc, off, fresh)
    /\ last' = NoReply /\ UNCHANGED <<now, saved>>

\* A saved configuration selects another correction.
SaveCorrection ==
    /\ \E p \in Ppbs \ {saved} : saved' = p
    /\ last' = NoReply /\ UNCHANGED <<svc, now>>

Tick ==
    /\ now < MaxTime
    /\ now' = now + 1 /\ last' = NoReply /\ UNCHANGED <<svc, saved>>

\* A step of the engine by itself, to one of the engines in F.
EngineStep(F) ==
    /\ \E f \in F : svc' = [svc EXCEPT !.eng = f]
    /\ last' = NoReply /\ UNCHANGED <<now, saved>>

EngineLead       == EngineStep(EngLead(svc.eng))
EngineLaunch     == \E c \in Clocks : EngineStep(EngLaunch(svc.eng, now, c))
EngineMiss       == \E c \in Clocks : EngineStep(EngMiss(svc.eng, now, c))
EngineFinish     == EngineStep(EngFinish(svc.eng, now))
EngineTail       == EngineStep(EngTail(svc.eng, now))
EngineFault      == EngineStep(EngFault(svc.eng))
EngineSafetyStop == EngineStep(EngSafetyStop(svc.eng))

Engine1 == \/ EngineLead \/ EngineLaunch \/ EngineMiss \/ EngineFinish
           \/ EngineTail \/ EngineFault \/ EngineSafetyStop

RequestOf(from) ==
    \/ Hello(from) \/ Status(from) \/ Claim(from) \/ Renew(from) \/ Release(from)
    \/ Load(from) \/ Arm(from) \/ Abort(from)

Requests == \E from \in Senders : RequestOf(from)

Upkeep == BeginMaintenance \/ EndMaintenance \/ FinishVerification

Next ==
    \/ Requests
    \/ Poll \/ LocalAbort \/ LocalInhibit
    \/ Upkeep \/ FreezePair \/ Reset \/ SaveCorrection \/ Tick
    \/ Engine1

Spec == Init /\ [][Next]_vars

-------------------------------------------------------------------------------
(* Properties. *)

Sessions == [id: SessionIds, principal: Principals, seen: Nat]
ReplayEntries == [session: SessionIds, principal: Principals, id: RequestIds, op: Ops,
                  body: Bodies, reply: [op: Ops, err: ErrorCodes], at: Nat, pos: Nat]
TerminalRecords == [job: JobIds, state: TerminalStates, at: Nat, out: BOOLEAN, err: ErrorCodes,
                    pos: Nat]
RetainedJobs == [job: Jobs, arm: Arms \cup {NoArm}]

Service ==
    [state: States, ready: BOOLEAN, owner: Owners \cup {NoOwner}, job: Jobs \cup {NoJob},
     arm: Arms \cup {NoArm}, sessions: SUBSET Sessions, replay: SUBSET ReplayEntries,
     terminals: SUBSET TerminalRecords, retained: SUBSET RetainedJobs,
     inhibited: BOOLEAN, maint: Nat, verify: BOOLEAN, boot: Nat, eng: Engine]

\* The members of the service and its engine have their types, and a job that
\* is loaded, armed or running is there, with its arm record once armed.
TypeOK ==
    /\ svc \in Service
    /\ now \in Nat /\ saved \in Ppbs
    /\ svc.state \in {"LOADED", "ARMED", "RUNNING"} => svc.job # NoJob
    /\ svc.state \in {"ARMED", "RUNNING"} => svc.arm # NoArm

\* Output is on only while the service says that a job is armed or running,
\* or has declared the transmitter failed: no request, expiry, interlock or
\* reset leaves RF on behind an idle or finished state.
OutputAuthority == svc.eng.out => svc.state \in {"ARMED", "RUNNING", "FAILED"}

\* Armed and running jobs belong to an owner, whatever happened to its lease,
\* its session or the other clients.
OwnedExecution == svc.state \in Live => svc.owner # NoOwner

\* A job whose terminal record is retained is never the one about to execute:
\* a repeated LOAD or ARM is answered from the record (Launches says how long).
SingleExecution ==
    svc.state \in Live => \A r \in svc.terminals : r.job # svc.job.id

\* Terminal records and retained jobs describe the same jobs, once each, and
\* the result of the current job stays on record until the job is cleared.
RecordsCoherent ==
    /\ {r.job : r \in svc.terminals} = {t.job.id : t \in svc.retained}
    /\ \A q, r \in svc.terminals : q.job = r.job => q = r
    /\ \A t, u \in svc.retained : t.job.id = u.job.id => t = u
    /\ Cardinality(svc.terminals) <= TerminalCap
    /\ svc.state \in {"COMPLETE", "ABORTED", "MISSED"} =>
         \E r \in svc.terminals : r.job = svc.job.id /\ r.state = svc.state

\* The owner's session and every session that still has cached replies are
\* live and bound to the principal that used them: a session id that is pruned
\* and taken by somebody else inherits neither ownership nor replies.
SessionBound ==
    /\ svc.owner # NoOwner =>
         \E n \in svc.sessions : n.id = svc.owner.session /\ n.principal = svc.owner.principal
    /\ \A e \in svc.replay :
         \E n \in svc.sessions : n.id = e.session /\ n.principal = e.principal
    /\ \A m, n \in svc.sessions : m.id = n.id => m = n

\* A frozen calibration never outlives the ownership it was frozen for.
CalibrationReleased == svc.owner = NoOwner => svc.eng.frozen = NoPpb /\ ~svc.eng.pair

\* Maintenance and update verification exclude an owner, a job and output.
MaintenanceExclusive ==
    Maintenance(svc, now) =>
        svc.owner = NoOwner /\ svc.state \in {"EMPTY", "FAILED"} /\ ~svc.eng.out

\* The physical interlock leaves no job to execute; an owner survives it only
\* beside a transmitter that has failed.
InhibitLatched ==
    svc.inhibited => svc.state \notin Live /\ (svc.owner # NoOwner => svc.state = "FAILED")

\* With the interlock set, output that is off never comes on again.
InhibitFinal == [][svc.inhibited /\ ~svc.eng.out => ~svc'.eng.out]_vars

\* With the interlock or maintenance pending no request for authority succeeds,
\* a replay of one that did succeed included.
AuthorityRefused ==
    [][/\ svc.inhibited \/ Maintenance(svc, now)
       /\ last' # NoReply /\ last'.op \in Authority
       => last'.err # "NONE"]_vars

\* An execution ends early only by an abort: no lease expiry, release, load,
\* other client or maintenance takes an armed or running job away.
ExecutionContinues ==
    [][svc.state \in {"ARMED", "RUNNING"} /\ svc'.boot = svc.boot =>
         \/ svc'.state \in {"ARMED", "RUNNING", "COMPLETE", "MISSED", "FAILED"}
                /\ svc'.job = svc.job
         \/ last' # NoReply /\ last'.op \in {"ABORT", "LOCAL_ABORT", "INHIBIT"}]_vars

\* An owner whose lease runs loses the transmitter only by its own release, a
\* local control or a reset; nobody else can take it.
LeaseRespected ==
    [][svc.owner # NoOwner /\ now < svc.owner.expires /\ svc'.boot = svc.boot =>
         \/ /\ svc'.owner # NoOwner
            /\ svc'.owner.session = svc.owner.session
            /\ svc'.owner.principal = svc.owner.principal
            /\ svc'.owner.id = svc.owner.id
         \/ /\ last' # NoReply
            /\ \/ last'.op \in {"LOCAL_ABORT", "INHIBIT"}
               \/ /\ last'.op = "RELEASE" /\ last'.err = "NONE"
                  /\ last'.from.session = svc.owner.session
                  /\ last'.from.principal = svc.owner.principal]_vars

\* No request and no poll clears a failed transmitter.
FailedSticky == [][svc.state = "FAILED" /\ svc'.boot = svc.boot => svc'.state = "FAILED"]_vars

\* A launch happens before the end of the UTC second that was armed, as mapped
\* when it was armed, however the clock is steered in between.
LaunchInSecond ==
    svc.state = "RUNNING" /\ svc.arm.launch # NoTime =>
        svc.arm.launch < svc.arm.start + StartWindow(svc.arm.startUtc)

\* A running job is declared failed by a service that has run out of patience,
\* not because the engine faulted or could not be stopped. With an engine that
\* keeps its own deadlines it never happens: the allowances for the last
\* acknowledgement and the tail are exact, whenever the foreground polls.
SpuriousFailure ==
    svc.state = "RUNNING" /\ svc'.state = "FAILED" /\ svc'.boot = svc.boot
        /\ svc'.eng.st # "failed"

\* Who may have the transmitter: output behind a state that says so, an owner
\* behind every live job, no calibration that outlives its owner.
JobAuthority == OutputAuthority /\ OwnedExecution /\ CalibrationReleased

\* What is executing or failed stays so until it ends or the device restarts.
Undisturbed == ExecutionContinues /\ FailedSticky

\* The interlock and maintenance leave nobody with authority.
Interlocked == InhibitLatched /\ MaintenanceExclusive

\* Behind the interlock or maintenance nothing grants authority anew, and
\* output that is off stays off.
NoNewAuthority == InhibitFinal /\ AuthorityRefused

\* The foreground polls, time passes, and core 1 gives up a start it can no
\* longer make; nothing else is assumed.
Fairness == WF_vars(Poll) /\ WF_vars(Tick) /\ WF_vars(EngineMiss)

FairSpec == Spec /\ Fairness

-------------------------------------------------------------------------------
(* What the documentation says and the code does not do. *)

\* WTP.md: "LOAD is atomic. Rejection leaves the current accepted job
\* unchanged": the engine still holds the plan of the job that is loaded.
LoadAtomic == svc.state = "LOADED" /\ svc.eng.safety = "clear" => svc.eng.plan = svc.job

\* docs/configure.md: "the saved correction applies when the Pico prepares the
\* next job": an empty transmitter can take the saved correction.
CorrectionApplies ==
    svc.state = "EMPTY" /\ svc.eng.safety = "clear" =>
        svc.eng.prog = saved \/ MayCorrect(svc.eng)
===============================================================================
