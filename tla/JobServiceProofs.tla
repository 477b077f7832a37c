--------------------------- MODULE JobServiceProofs ---------------------------
(***************************************************************************)
(* The job service keeps its safety invariants for every set of clients,   *)
(* jobs, clocks and limits.                                                *)
(*                                                                         *)
(* The argument is one predicate on services, Sound, and one relation,     *)
(* Keeps: a method that keeps takes a sound service to a sound one, leaves *)
(* its modes alone, and neither gives work to a locked service nor takes a *)
(* free one. Each method of JobService is shown to keep, in the order in   *)
(* which methods call each other; operations of authority (Obeys) may do   *)
(* more, and the prologue of handle_owned refuses exactly those behind the *)
(* interlock and in maintenance (Handled). The actions then follow one by  *)
(* one, and the invariants of the runs follow from IInv.                   *)
(***************************************************************************)
EXTENDS JobService, FiniteSetTheorems, TLAPS

\* What a call may read.
Contexts == [now: Nat, saved: Ppbs, off: BOOLEAN, clk: Clocks,
             start: {"ok", "refuse", "fault", "early"}, admit: {"ok", "memory", "store"}]

\* A service of the right type, with finite lists.
Typed(s) == s \in Service /\ IsFiniteSet(s.terminals) /\ IsFiniteSet(s.replay)

\* A stopped engine is idle and off; its calibration is untouched.
LEMMA StoppedType ==
    ASSUME NEW e \in Engine
    PROVE  /\ Stopped(e) \in Engine
           /\ Stopped(e).st = "idle" /\ Stopped(e).out = FALSE
           /\ Stopped(e).frozen = e.frozen /\ Stopped(e).pair = e.pair
  <1> DEFINE a == [e EXCEPT !.st = "idle", !.out = FALSE, !.phase = "none", !.plan = NoJob]
  <1>0. a \in Engine
    BY ZenonT(30) DEF Engine, EngineStates
  <1> DEFINE b == [a EXCEPT !.start = 0]
  <1>1. Stopped(e) \in Engine
    <2>1. Stopped(e) = [b EXCEPT !.cond = NoCond, !.launch = NoTime, !.tailEnd = NoTime]
      BY DEF Stopped
    <2> HIDE DEF a
    <2>2. b \in Engine
      BY <1>0 DEF Engine
    <2> HIDE DEF b
    <2> QED
      BY <2>1, <2>2 DEF Engine
  <1>2. Stopped(e).st = "idle" /\ Stopped(e).out = FALSE
    BY DEF Stopped, Engine
  <1>3. Stopped(e).frozen = e.frozen /\ Stopped(e).pair = e.pair
    BY DEF Stopped, Engine
  <1> QED
    BY <1>1, <1>2, <1>3

\* disable confirms an idle engine that is off, or reports a failed one whose
\* output is what it was.
LEMMA DisableType ==
    ASSUME NEW e \in Engine, NEW off \in BOOLEAN
    PROVE  /\ Disable(e, off) \in Engine
           /\ off => Disable(e, off).st = "idle" /\ ~Disable(e, off).out
           /\ ~off => Disable(e, off).st = "failed" /\ Disable(e, off).out = e.out
           /\ Disable(e, off).frozen = e.frozen /\ Disable(e, off).pair = e.pair
  <1>1. CASE off
    BY <1>1, StoppedType DEF Disable
  <1>2. CASE ~off
    <2>1. Disable(e, off) = [e EXCEPT !.st = "failed"]
      BY <1>2 DEF Disable
    <2> QED
      BY <1>2, <2>1 DEF Engine, EngineStates
  <1> QED
    BY <1>1, <1>2

\* calibration_boundary thaws the calibration and touches nothing else.
LEMMA CalibrationType ==
    ASSUME NEW e \in Engine
    PROVE  /\ CalibrationBoundary(e) \in Engine
           /\ CalibrationBoundary(e).st = e.st /\ CalibrationBoundary(e).out = e.out
           /\ CalibrationBoundary(e).frozen = NoPpb /\ ~CalibrationBoundary(e).pair
  BY DEF CalibrationBoundary, Engine

\* The position of a record is a natural number.
LEMMA AheadCount ==
    ASSUME NEW T, IsFiniteSet(T), NEW r
    PROVE  Cardinality(Ahead(T, r)) \in Nat
  BY FS_Subset, FS_CardinalityType DEF Ahead

\* The image of a finite set under a function is finite.
LEMMA ImageFinite ==
    ASSUME NEW S, IsFiniteSet(S), NEW f
    PROVE  IsFiniteSet({f[x] : x \in S})
  <1> DEFINE I == {f[x] : x \in S}
             g == [x \in S |-> f[x]]
  <1>1. g \in Surjection(S, I)
    BY DEF Surjection
  <1> QED
    BY <1>1, FS_Surjection DEF ExistsSurjection

\* Closing gaps keeps a recency list finite.
LEMMA CompactFinite ==
    ASSUME NEW T, IsFiniteSet(T)
    PROVE  IsFiniteSet(Compact(T))
  <1> DEFINE f == [r \in T |-> [r EXCEPT !.pos = Cardinality(Ahead(T, r))]]
  <1>1. Compact(T) = {f[r] : r \in T}
    BY DEF Compact
  <1> HIDE DEF f
  <1> QED
    BY <1>1, ImageFinite

\* A record more keeps a recency list finite.
LEMMA PushFrontFinite ==
    ASSUME NEW T, IsFiniteSet(T), NEW r
    PROVE  IsFiniteSet(PushFront(T, r))
  <1> DEFINE f == [q \in T |-> [q EXCEPT !.pos = @ + 1]]
             first == [r EXCEPT !.pos = 0]
  <1>1. PushFront(T, r) = {f[q] : q \in T} \cup {first}
    BY DEF PushFront
  <1> HIDE DEF f, first
  <1>2. IsFiniteSet({f[q] : q \in T})
    BY ImageFinite
  <1> QED
    BY <1>1, <1>2, FS_AddElement

\* Terminal records that move in their list stay terminal records.
LEMMA TerminalsType ==
    ASSUME NEW T \in SUBSET TerminalRecords, IsFiniteSet(T), NEW r \in TerminalRecords
    PROVE  Compact(T) \in SUBSET TerminalRecords /\ PushFront(T, r) \in SUBSET TerminalRecords
  <1>1. \A q \in T : [q EXCEPT !.pos = Cardinality(Ahead(T, q))] \in TerminalRecords
    BY AheadCount DEF TerminalRecords
  <1>2. \A q \in T : [q EXCEPT !.pos = @ + 1] \in TerminalRecords
    BY DEF TerminalRecords
  <1>3. [r EXCEPT !.pos = 0] \in TerminalRecords
    BY DEF TerminalRecords
  <1> QED
    BY <1>1, <1>2, <1>3 DEF Compact, PushFront

\* Replay entries that move in their list stay replay entries.
LEMMA ReplayType ==
    ASSUME NEW T \in SUBSET ReplayEntries, IsFiniteSet(T), NEW r \in ReplayEntries
    PROVE  Compact(T) \in SUBSET ReplayEntries /\ PushFront(T, r) \in SUBSET ReplayEntries
  <1>1. \A q \in T : [q EXCEPT !.pos = Cardinality(Ahead(T, q))] \in ReplayEntries
    BY AheadCount DEF ReplayEntries
  <1>2. \A q \in T : [q EXCEPT !.pos = @ + 1] \in ReplayEntries
    BY DEF ReplayEntries
  <1>3. [r EXCEPT !.pos = 0] \in ReplayEntries
    BY DEF ReplayEntries
  <1> QED
    BY <1>1, <1>2, <1>3 DEF Compact, PushFront

\* What no step but a local control, an upkeep step or a reset changes.
Mode(s) == <<s.ready, s.inhibited, s.maint, s.verify, s.boot>>

\* t is s with its owner kept or dropped, and the calibration with it.
OwnerKept(s, t) ==
    \/ t.owner = s.owner /\ t.eng = s.eng
    \/ t.owner = NoOwner /\ t.eng = CalibrationBoundary(s.eng)

\* What dropping the owner changes.
LEMMA DropOwnerProps ==
    ASSUME NEW s, Typed(s)
    PROVE  /\ Typed(DropOwner(s)) /\ Mode(DropOwner(s)) = Mode(s)
           /\ DropOwner(s).owner = NoOwner /\ DropOwner(s).eng = CalibrationBoundary(s.eng)
           /\ DropOwner(s).state = s.state /\ DropOwner(s).job = s.job
           /\ DropOwner(s).arm = s.arm
  BY CalibrationType DEF Typed, DropOwner, Service, Mode

\* What record_terminal changes: the state is the one recorded, and the owner
\* goes only if its release was pending.
LEMMA RecordTerminalProps ==
    ASSUME NEW s, Typed(s), s.job \in Jobs, NEW st \in TerminalStates, NEW err \in ErrorCodes,
           NEW x \in Contexts
    PROVE  LET t == RecordTerminal(s, st, err, x) IN
           /\ Typed(t) /\ t.state = st /\ t.job = s.job /\ t.arm = s.arm
           /\ Mode(t) = Mode(s) /\ OwnerKept(s, t)
  <1> DEFINE record == [job |-> s.job.id, state |-> st, at |-> x.now, out |-> s.eng.out,
                        err |-> err, pos |-> 0]
             pushed == PushFront(s.terminals, record)
             kept == Newest(pushed, TerminalCap)
             evicted == {r.job : r \in pushed \ kept}
             held == {t \in s.retained \cup {[job |-> s.job, arm |-> s.arm]} :
                        t.job.id \notin evicted}
             result == [s EXCEPT !.state = st, !.terminals = kept, !.retained = held]
  <1>1. record \in TerminalRecords
    BY DEF TerminalRecords, JobIds, Contexts, Typed, Service, Engine
  <1>2. pushed \in SUBSET TerminalRecords /\ IsFiniteSet(pushed)
    BY <1>1, TerminalsType, PushFrontFinite DEF Typed, Service
  <1>3. kept \in SUBSET TerminalRecords /\ IsFiniteSet(kept)
    <2>1. kept \in SUBSET pushed
      BY DEF Newest
    <2> QED
      BY <1>2, <2>1, FS_Subset
  <1>4. held \in SUBSET RetainedJobs
    BY DEF RetainedJobs, Typed, Service
  <1> HIDE DEF record, pushed, kept, evicted, held
  <1>5. /\ Typed(result) /\ Mode(result) = Mode(s)
        /\ result.state = st /\ result.job = s.job /\ result.arm = s.arm
        /\ result.owner = s.owner /\ result.eng = s.eng
    BY <1>3, <1>4 DEF Typed, Service, Mode, States, TerminalStates
  <1>6. RecordTerminal(s, st, err, x) =
          IF s.owner # NoOwner /\ s.owner.release THEN DropOwner(result) ELSE result
    BY <1>5 DEF RecordTerminal, ReleasePending, record, pushed, kept, evicted, held
  <1> HIDE DEF result
  <1> QED
    BY <1>5, <1>6, DropOwnerProps DEF OwnerKept

\* Off with no start pending; nothing frozen.
Quiet(e) == e.st \in {"idle", "failed"} /\ ~e.out
Thawed(e) == e.frozen = NoPpb /\ ~e.pair

\* The inductive invariant, as a predicate on services. OutputAuthority is not
\* inductive by itself: the engine behind an idle service must not merely be
\* off (Quiet says more), or its next step could raise the output.
Sound(s) ==
    /\ Typed(s)
    /\ s.state \in Live => s.job # NoJob /\ s.owner # NoOwner
    /\ s.state = "EMPTY" => s.job = NoJob
    /\ s.state \in {"ARMED", "RUNNING"} => s.arm # NoArm
    /\ s.state \notin {"ARMED", "RUNNING", "FAILED"} => Quiet(s.eng)
    /\ s.owner = NoOwner => Thawed(s.eng)
    /\ ~s.ready => s.state = "FAILED"

\* What the interlock leaves, and what maintenance needs.
Locked(s) == s.state \notin Live /\ (s.owner # NoOwner => s.state = "FAILED")
Free(s) == s.owner = NoOwner /\ s.state \in {"EMPTY", "FAILED"} /\ Quiet(s.eng)

\* A method that changes s to t keeps the invariant and takes no authority.
Keeps(s, t) ==
    /\ Sound(t) /\ Mode(t) = Mode(s)
    /\ Locked(s) => Locked(t)
    /\ Free(s) => Free(t)

\* What clear_job changes.
LEMMA ClearJobProps ==
    ASSUME NEW s, Typed(s)
    PROVE  /\ Typed(ClearJob(s)) /\ Mode(ClearJob(s)) = Mode(s)
           /\ ClearJob(s).state = "EMPTY" /\ ClearJob(s).job = NoJob
           /\ ClearJob(s).owner = s.owner /\ ClearJob(s).eng = s.eng
  BY DEF Typed, ClearJob, Service, States, Mode

\* The owner of a service that executes nothing may always go.
LEMMA DropOwnerSound ==
    ASSUME NEW s, Typed(s), s.state \notin Live, s.state = "EMPTY" => s.job = NoJob,
           s.state # "FAILED" => Quiet(s.eng) /\ s.ready
    PROVE  /\ Sound(DropOwner(s)) /\ Mode(DropOwner(s)) = Mode(s)
           /\ DropOwner(s).state = s.state
  <1>1. s.eng \in Engine
    BY DEF Typed, Service
  <1> QED
    BY <1>1, DropOwnerProps, CalibrationType DEF Sound, Live, Quiet, Thawed, Mode

\* Every end of an execution leaves the recorded state with the output off, or
\* a failed transmitter.
LEMMA StopAsProps ==
    ASSUME NEW s, Typed(s), s.job \in Jobs, NEW st \in TerminalStates, NEW err \in ErrorCodes,
           NEW x \in Contexts
    PROVE  LET t == StopAs(s, st, err, x) IN
           /\ Typed(t) /\ t.state \in TerminalStates /\ (x.off => t.state = st) /\ (~x.off => t.state = "FAILED")
           /\ t.job = s.job /\ t.arm = s.arm /\ Mode(t) = Mode(s)
           /\ x.off => Quiet(t.eng)
           /\ t.owner \in {s.owner, NoOwner}
           /\ t.owner = NoOwner /\ (s.owner = NoOwner => Thawed(s.eng)) => Thawed(t.eng)
  <1> DEFINE e == Disable(s.eng, x.off)
             stopped == [s EXCEPT !.eng = e]
             t == StopAs(s, st, err, x)
  <1>0. x.off \in BOOLEAN /\ s.eng \in Engine
    BY DEF Contexts, Typed, Service
  <1>1. /\ e \in Engine /\ (x.off => Quiet(e))
        /\ e.frozen = s.eng.frozen /\ e.pair = s.eng.pair
    BY <1>0, DisableType DEF Quiet
  <1> HIDE DEF e
  <1>2. /\ Typed(stopped) /\ Mode(stopped) = Mode(s) /\ stopped.job = s.job
        /\ stopped.arm = s.arm /\ stopped.owner = s.owner /\ stopped.eng = e
    BY <1>1 DEF Typed, Service, Mode
  <1>3. t = IF x.off THEN RecordTerminal(stopped, st, err, x)
                     ELSE RecordTerminal(stopped, "FAILED", "OUTPUT_STATE_UNKNOWN", x)
    BY DEF StopAs, e
  <1> HIDE DEF stopped, t
  <1>4. /\ Typed(t) /\ (x.off => t.state = st) /\ (~x.off => t.state = "FAILED") /\ t.job = s.job
        /\ t.arm = s.arm /\ Mode(t) = Mode(s) /\ OwnerKept(stopped, t)
    <2>1. CASE x.off
      BY <1>2, <1>3, <2>1, RecordTerminalProps
    <2>2. CASE ~x.off
      <3>1. "FAILED" \in TerminalStates /\ "OUTPUT_STATE_UNKNOWN" \in ErrorCodes
        BY DEF TerminalStates, ErrorCodes
      <3> QED
        BY <1>2, <1>3, <2>2, <3>1, RecordTerminalProps
    <2> QED
      BY <1>0, <2>1, <2>2
  <1>5. /\ t.owner \in {s.owner, NoOwner}
        /\ x.off => Quiet(t.eng)
        /\ t.owner = NoOwner /\ (s.owner = NoOwner => Thawed(s.eng)) => Thawed(t.eng)
    BY <1>1, <1>2, <1>4, CalibrationType DEF OwnerKept, Quiet, Thawed
  <1> QED
    BY <1>4, <1>5 DEF t, TerminalStates

\* expire_resources never strands a live job or a frozen calibration.
LEMMA ExpireResourcesKeeps ==
    ASSUME NEW s, Sound(s), NEW x \in Contexts
    PROVE  Keeps(s, ExpireResources(s, x))
  <1>1. CASE s.owner = NoOwner \/ x.now < s.owner.expires
    BY <1>1 DEF ExpireResources, Keeps
  <1>2. CASE ~(s.owner = NoOwner \/ x.now < s.owner.expires) /\ s.state \in {"ARMED", "RUNNING"}
    <2> DEFINE o == [s.owner EXCEPT !.release = TRUE]
    <2>1. o \in Owners
      BY <1>2 DEF Sound, Typed, Service, Owners
    <2>2. ExpireResources(s, x) = [s EXCEPT !.owner = o]
      BY <1>2 DEF ExpireResources
    <2> HIDE DEF o
    <2> QED
      BY <1>2, <2>1, <2>2, SentinelAssumption DEF Keeps, Sound, Typed, Service, Mode, Live, Locked, Free
  <1>3. CASE ~(s.owner = NoOwner \/ x.now < s.owner.expires) /\ s.state = "LOADED"
    <2> DEFINE stopped == StopAs(s, "ABORTED", "NONE", x)
               kept == IF stopped.state = "FAILED" THEN stopped ELSE ClearJob(stopped)
    <2>1. ExpireResources(s, x) = DropOwner(kept)
      BY <1>3 DEF ExpireResources
    <2>2. s.job \in Jobs
      BY <1>3 DEF Sound, Typed, Service, Live
    <2>3. /\ Typed(stopped) /\ Mode(stopped) = Mode(s)
          /\ x.off => Quiet(stopped.eng)
          /\ (x.off => stopped.state = "ABORTED") /\ (~x.off => stopped.state = "FAILED")
      <3>1. "ABORTED" \in TerminalStates /\ "NONE" \in ErrorCodes
        BY DEF TerminalStates, ErrorCodes
      <3> QED
        BY <2>2, <3>1, StopAsProps DEF Sound
    <2> HIDE DEF stopped
    <2>4. /\ Typed(kept) /\ Mode(kept) = Mode(s)
          /\ \/ kept.state = "EMPTY" /\ kept.job = NoJob /\ Quiet(kept.eng) /\ s.ready
             \/ kept.state = "FAILED"
      BY <1>3, <2>3, ClearJobProps DEF Sound
    <2> HIDE DEF kept
    <2> QED
      BY <1>3, <2>1, <2>4, DropOwnerSound DEF Keeps, Locked, Free, Live, Mode
  <1>4. CASE /\ ~(s.owner = NoOwner \/ x.now < s.owner.expires)
             /\ s.state \notin {"ARMED", "RUNNING", "LOADED"}
    BY <1>4, DropOwnerSound DEF ExpireResources, Keeps, Locked, Free, Sound, Live
  <1> QED
    BY <1>1, <1>2, <1>3, <1>4

\* prune_replay only drops replies.
LEMMA PruneReplayKeeps ==
    ASSUME NEW s, Sound(s), NEW x \in Contexts
    PROVE  Keeps(s, PruneReplay(s, x))
  <1> DEFINE fresh == {r \in s.replay : x.now - r.at < ReplayTtl}
  <1>1. fresh \in SUBSET ReplayEntries /\ IsFiniteSet(fresh)
    BY FS_Subset DEF Sound, Typed, Service
  <1>2. PruneReplay(s, x) = [s EXCEPT !.replay = Compact(fresh)]
    BY DEF PruneReplay
  <1> HIDE DEF fresh
  <1>3. Compact(fresh) \in SUBSET ReplayEntries /\ IsFiniteSet(Compact(fresh))
    <2>1. CASE fresh = {}
      BY <1>1, <2>1, CompactFinite DEF Compact
    <2>2. CASE fresh # {}
      BY <1>1, <2>2, CompactFinite, ReplayType
    <2> QED
      BY <2>1, <2>2
  <1> QED
    BY <1>2, <1>3 DEF Keeps, Sound, Typed, Service, Mode, Locked, Free

\* prune_terminals clears the current job only once that has ended.
LEMMA PruneTerminalsKeeps ==
    ASSUME NEW s, Sound(s), NEW x \in Contexts
    PROVE  Keeps(s, PruneTerminals(s, x))
  <1> DEFINE expired == {r \in s.terminals : x.now - r.at >= TerminalTtl}
             live == s.terminals \ expired
             held == {t \in s.retained : \E r \in live : r.job = t.job.id}
             pruned == [s EXCEPT !.terminals = Compact(live), !.retained = held]
  <1>1. live \in SUBSET TerminalRecords /\ IsFiniteSet(live)
    BY FS_Subset DEF Sound, Typed, Service
  <1>2. held \in SUBSET RetainedJobs
    BY DEF Sound, Typed, Service
  <1>3. PruneTerminals(s, x) =
          IF /\ s.job # NoJob /\ \E r \in expired : r.job = s.job.id
             /\ s.state \in {"COMPLETE", "ABORTED", "MISSED"}
          THEN ClearJob(pruned) ELSE pruned
    BY DEF PruneTerminals
  <1> HIDE DEF expired, live, held
  <1>4. Compact(live) \in SUBSET TerminalRecords /\ IsFiniteSet(Compact(live))
    <2>1. CASE live = {}
      BY <1>1, <2>1, CompactFinite DEF Compact
    <2>2. CASE live # {}
      BY <1>1, <2>2, CompactFinite, TerminalsType
    <2> QED
      BY <2>1, <2>2
  <1>5. /\ Keeps(s, pruned) /\ pruned.state = s.state /\ pruned.owner = s.owner
        /\ pruned.eng = s.eng
    BY <1>2, <1>4 DEF Keeps, Sound, Typed, Service, Mode, Locked, Free
  <1> HIDE DEF pruned
  <1>6. CASE s.state \in {"COMPLETE", "ABORTED", "MISSED"}
    <2>1. Keeps(s, ClearJob(pruned))
      BY <1>5, <1>6, ClearJobProps DEF Keeps, Sound, Locked, Free, Live, Mode
    <2> QED
      BY <1>3, <1>5, <2>1
  <1>7. CASE s.state \notin {"COMPLETE", "ABORTED", "MISSED"}
    BY <1>3, <1>5, <1>7
  <1> QED
    BY <1>6, <1>7

\* prune_sessions only drops sessions.
LEMMA PruneSessionsKeeps ==
    ASSUME NEW s, Sound(s), NEW x \in Contexts
    PROVE  Keeps(s, PruneSessions(s, x))
  BY DEF PruneSessions, Keeps, Sound, Typed, Service, Mode, Locked, Free

\* Methods that keep the invariant compose.
LEMMA KeepsTransitive ==
    ASSUME NEW r, NEW s, NEW t, Keeps(r, s), Keeps(s, t)
    PROVE  Keeps(r, t)
  BY DEF Keeps

\* The prologue of handle_owned and poll keeps the invariant.
LEMMA RefreshKeeps ==
    ASSUME NEW s, Sound(s), NEW x \in Contexts
    PROVE  Keeps(s, Refresh(s, x))
  <1> DEFINE a == ExpireResources(s, x)
             b == PruneReplay(a, x)
             c == PruneTerminals(b, x)
             d == PruneSessions(c, x)
  <1>1. Refresh(s, x) = d
    BY DEF Refresh
  <1>2. Keeps(s, a)
    BY ExpireResourcesKeeps
  <1> HIDE DEF a
  <1>3. Keeps(a, b)
    BY <1>2, PruneReplayKeeps DEF Keeps
  <1> HIDE DEF b
  <1>4. Keeps(b, c)
    BY <1>3, PruneTerminalsKeeps DEF Keeps
  <1> HIDE DEF c
  <1>5. Keeps(c, d)
    BY <1>4, PruneSessionsKeeps DEF Keeps
  <1> QED
    BY <1>1, <1>2, <1>3, <1>4, <1>5, KeepsTransitive

\* Stopping a live job keeps the invariant.
LEMMA StopAsKeeps ==
    ASSUME NEW s, Typed(s), s.job \in Jobs, s.ready, s.owner = NoOwner => Thawed(s.eng),
           s.state \in Live, NEW st \in TerminalStates, NEW err \in ErrorCodes,
           NEW x \in Contexts
    PROVE  /\ Keeps(s, StopAs(s, st, err, x))
           /\ StopAs(s, st, err, x).job = s.job
           /\ StopAs(s, st, err, x).state \in TerminalStates
  <1> DEFINE t == StopAs(s, st, err, x)
  <1>1. /\ Typed(t) /\ t.state \in TerminalStates /\ t.job = s.job /\ Mode(t) = Mode(s)
        /\ (x.off => Quiet(t.eng)) /\ (~x.off => t.state = "FAILED")
        /\ t.owner = NoOwner => Thawed(t.eng)
    BY StopAsProps
  <1>2. x.off \in BOOLEAN
    BY DEF Contexts
  <1> HIDE DEF t
  <1>3. Sound(t)
    BY <1>1, <1>2 DEF Sound, Live, TerminalStates, Mode
  <1>4. ~Locked(s) /\ ~Free(s)
    BY DEF Locked, Free, Live
  <1> QED
    BY <1>1, <1>3, <1>4 DEF Keeps, t

\* The report of the engine about a running job, whatever it says.
LEMMA SettleKeeps ==
    ASSUME NEW s0, Sound(s0), s0.state = "RUNNING", NEW x \in Contexts
    PROVE  Keeps(s0, Settle(s0, x))
  <1> DEFINE armed == [s0.arm EXCEPT !.launch = s0.eng.launch]
             s == IF s0.eng.launch = NoTime THEN s0 ELSE [s0 EXCEPT !.arm = armed]
  <1>1. s0.eng.launch \in Nat \cup {NoTime} /\ s0.arm \in Arms
    BY DEF Sound, Typed, Service, Engine
  <1>2. armed \in Arms
    BY <1>1 DEF Arms
  <1>3. /\ Sound(s) /\ s.state = "RUNNING" /\ Mode(s) = Mode(s0)
    BY <1>2, SentinelAssumption DEF Sound, Typed, Service, Mode, Live
  <1>4. \/ Settle(s0, x) = s
        \/ Settle(s0, x) = StopAs(s, "MISSED", "MISSED_START", x)
        \/ Settle(s0, x) = StopAs(s, "FAILED", "DEVICE_FAULT", x)
        \/ Settle(s0, x) = StopAs(s, "COMPLETE", "NONE", x)
    BY DEF Settle
  <1> HIDE DEF s
  <1>5. Keeps(s0, s)
    BY <1>3 DEF Keeps, Locked, Free, Live
  <1>6. /\ Typed(s) /\ s.job \in Jobs /\ s.ready /\ (s.owner = NoOwner => Thawed(s.eng))
        /\ s.state \in Live
    BY <1>3 DEF Sound, Live, Typed, Service
  <1>7. /\ {"MISSED", "FAILED", "COMPLETE"} \subseteq TerminalStates
        /\ {"MISSED_START", "DEVICE_FAULT", "NONE"} \subseteq ErrorCodes
    BY DEF TerminalStates, ErrorCodes
  <1>8. /\ Keeps(s, StopAs(s, "MISSED", "MISSED_START", x))
        /\ Keeps(s, StopAs(s, "FAILED", "DEVICE_FAULT", x))
        /\ Keeps(s, StopAs(s, "COMPLETE", "NONE", x))
    BY <1>6, <1>7, StopAsKeeps
  <1> QED
    BY <1>4, <1>5, <1>8, KeepsTransitive

\* Raising or lowering the output is a change of the engine's type only.
LEMMA OutputType ==
    ASSUME NEW e \in Engine, NEW out \in BOOLEAN, NEW phase \in {"none", "lead", "rf", "tail"}
    PROVE  LET f == [e EXCEPT !.out = out, !.phase = phase] IN
           f \in Engine /\ f.frozen = e.frozen /\ f.pair = e.pair /\ f.st = e.st
  <1>1. [e EXCEPT !.out = out, !.phase = phase] \in Engine
    BY DEF Engine
  <1> QED
    BY <1>1 DEF Engine

\* A start, granted or refused, leaves the calibration as it was.
LEMMA BeginType ==
    ASSUME NEW e \in Engine, NEW j, NEW start \in Int, NEW cond \in Conditions \cup {NoCond},
           NEW outcome \in {"ok", "refuse", "fault", "early"}
    PROVE  LET b == Begin(e, j, start, cond, outcome) IN
           /\ b.eng \in Engine /\ b.ok \in BOOLEAN
           /\ b.eng.frozen = e.frozen /\ b.eng.pair = e.pair
  <1> DEFINE early == outcome = "early"
             phase == IF early THEN "lead" ELSE "none"
             f == [e EXCEPT !.st = "armed", !.start = start]
             h == [f EXCEPT !.cond = cond, !.launch = NoTime, !.tailEnd = NoTime]
             g == [h EXCEPT !.out = early, !.phase = phase]
             k == [e EXCEPT !.st = "failed"]
             b == Begin(e, j, start, cond, outcome)
  <1>1. early \in BOOLEAN /\ phase \in {"lead", "none"}
    OBVIOUS
  <1>2. f \in Engine /\ f.frozen = e.frozen /\ f.pair = e.pair
    BY DEF Engine, EngineStates
  <1>3. \/ b = [eng |-> e, ok |-> FALSE]
        \/ b = [eng |-> k, ok |-> FALSE]
        \/ b = [eng |-> g, ok |-> TRUE]
    BY DEF Begin
  <1> HIDE DEF early, phase, f
  <1>4. h \in Engine /\ h.frozen = e.frozen /\ h.pair = e.pair
    BY <1>2, ZenonT(30) DEF Engine
  <1> HIDE DEF h
  <1>5. g \in Engine /\ g.frozen = e.frozen /\ g.pair = e.pair
    BY <1>1, <1>4, OutputType
  <1>6. k \in Engine /\ k.frozen = e.frozen /\ k.pair = e.pair
    BY DEF Engine, EngineStates
  <1> HIDE DEF g, k, b
  <1> QED
    <2>1. CASE b = [eng |-> e, ok |-> FALSE]
      BY <2>1 DEF b
    <2>2. CASE b = [eng |-> k, ok |-> FALSE]
      BY <2>2, <1>6 DEF b
    <2>3. CASE b = [eng |-> g, ok |-> TRUE]
      BY <2>3, <1>5 DEF b
    <2> QED
      BY <1>3, <2>1, <2>2, <2>3

\* poll launching a job itself: waiting, missing, refused or running.
LEMMA LaunchByServiceKeeps ==
    ASSUME NEW s, Sound(s), s.state = "ARMED", NEW x \in Contexts
    PROVE  Keeps(s, LaunchByService(s, x))
  <1> DEFINE begun == Begin(s.eng, s.job, x.now, NoCond, x.start)
             arm == [s.arm EXCEPT !.launch = x.now]
             tried == [s EXCEPT !.eng = begun.eng]
             run == [s EXCEPT !.eng = begun.eng, !.arm = arm, !.state = "RUNNING"]
  <1>1. /\ s.eng \in Engine /\ s.arm \in Arms /\ s.job \in Jobs /\ x.now \in Nat
        /\ x.start \in {"ok", "refuse", "fault", "early"} /\ s.owner # NoOwner
        /\ Typed(s) /\ s.ready /\ s.state \in Live
    BY DEF Sound, Typed, Service, Live, Contexts
  <1>2. begun.eng \in Engine
    BY <1>1, BeginType
  <1>3. arm \in Arms
    BY <1>1 DEF Arms
  <1>4. \/ LaunchByService(s, x) = s
        \/ LaunchByService(s, x) = StopAs(s, "MISSED", "MISSED_START", x)
        \/ LaunchByService(s, x) = StopAs(tried, "FAILED", "DEVICE_FAULT", x)
        \/ LaunchByService(s, x) = Settle(run, x)
    BY DEF LaunchByService
  <1> HIDE DEF begun, arm
  <1>5. /\ Typed(tried) /\ Mode(tried) = Mode(s) /\ tried.state = "ARMED" /\ tried.job = s.job
        /\ tried.owner = s.owner /\ tried.ready = s.ready
    BY <1>1, <1>2 DEF Typed, Service, Mode
  <1>6. /\ Typed(run) /\ Mode(run) = Mode(s) /\ run.state = "RUNNING" /\ run.job = s.job
        /\ run.owner = s.owner /\ run.arm = arm /\ run.ready = s.ready
    BY <1>1, <1>2, <1>3 DEF Typed, Service, Mode, States
  <1> HIDE DEF tried, run
  <1>7. Sound(run)
    BY <1>1, <1>3, <1>6, SentinelAssumption, TxEngineAssumption DEF Sound, Live
  <1>8. /\ {"MISSED", "FAILED"} \subseteq TerminalStates
        /\ {"MISSED_START", "DEVICE_FAULT"} \subseteq ErrorCodes
    BY DEF TerminalStates, ErrorCodes
  <1>9. Keeps(s, StopAs(s, "MISSED", "MISSED_START", x))
    BY <1>1, <1>8, StopAsKeeps
  <1>10. Keeps(tried, StopAs(tried, "FAILED", "DEVICE_FAULT", x))
    BY <1>1, <1>5, <1>8, StopAsKeeps DEF Live
  <1>11. Keeps(run, Settle(run, x))
    BY <1>6, <1>7, SettleKeeps
  <1>12. ~Locked(s) /\ ~Free(s) /\ Keeps(s, s)
    BY DEF Locked, Free, Live, Keeps
  <1> QED
    BY <1>4, <1>5, <1>6, <1>9, <1>10, <1>11, <1>12 DEF Keeps

\* poll keeps the invariant.
LEMMA PollServiceKeeps ==
    ASSUME NEW s0, Sound(s0), NEW x \in Contexts
    PROVE  Keeps(s0, PollService(s0, x))
  <1> DEFINE s == Refresh(s0, x)
             run == [s EXCEPT !.state = "RUNNING"]
  <1>1. Keeps(s0, s) /\ Sound(s)
    BY RefreshKeeps DEF Keeps
  <1>2. \/ PollService(s0, x) = s
        \/ PollService(s0, x) = Settle(s, x) /\ s.state = "RUNNING"
        \/ PollService(s0, x) = LaunchByService(s, x) /\ s.state = "ARMED"
        \/ PollService(s0, x) = Settle(run, x) /\ s.state = "ARMED"
    BY DEF PollService, PollRefreshed
  <1> HIDE DEF s
  <1>3. CASE s.state = "RUNNING"
    BY <1>1, <1>2, <1>3, SettleKeeps, KeepsTransitive
  <1>4. CASE s.state = "ARMED"
    <2>1. Sound(run) /\ Mode(run) = Mode(s) /\ run.state = "RUNNING"
      BY <1>1, <1>4 DEF Sound, Typed, Service, States, Live, Mode
    <2>2. ~Locked(s) /\ ~Free(s)
      BY <1>4 DEF Locked, Free, Live
    <2> HIDE DEF run
    <2>3. Keeps(run, Settle(run, x))
      BY <2>1, SettleKeeps
    <2>4. Keeps(s, Settle(run, x))
      BY <2>1, <2>2, <2>3 DEF Keeps
    <2>5. Keeps(s, LaunchByService(s, x))
      BY <1>1, <1>4, LaunchByServiceKeeps
    <2> QED
      BY <1>1, <1>2, <1>4, <2>4, <2>5, KeepsTransitive
  <1> QED
    BY <1>1, <1>2, <1>3, <1>4

-------------------------------------------------------------------------------
(* Requests. *)

\* What a request is answered with.
Replies == [op: Ops, err: ErrorCodes]

\* A request whose body is of the kind that its operation takes.
WellFormed(r) ==
    /\ r.op \in Ops /\ r.session \in SessionIds /\ r.principal \in Principals
    /\ r.id \in RequestIds \cup {NoRequestId} /\ r.body \in Bodies
    /\ r.op \in {"CLAIM", "RENEW"} => r.body \in [owner: OwnerIds, lease: Leases]
    /\ r.op = "LOAD" => r.body \in [job: Jobs, full: BOOLEAN]
    /\ r.op = "ARM" => r.body \in [job: JobIds, arm: ArmBodies]

\* The outcome d of r in s: only an operation of authority may take any.
Obeys(s, r, d) ==
    /\ Sound(d.s) /\ Mode(d.s) = Mode(s) /\ d.reply \in Replies
    /\ d = [s |-> d.s, reply |-> d.reply]
    /\ r.op \notin Authority => Keeps(s, d.s)

\* A refusal changes nothing.
LEMMA RejectObeys ==
    ASSUME NEW s, NEW t, Keeps(s, t), NEW r, WellFormed(r), NEW err \in ErrorCodes
    PROVE  Obeys(s, r, Reject(t, r, err))
  BY DEF Obeys, Reject, Replies, WellFormed, Keeps

\* A success that keeps the service obeys the request.
LEMMA SuccessObeys ==
    ASSUME NEW s, NEW t, Keeps(s, t), NEW r, WellFormed(r)
    PROVE  Obeys(s, r, Success(t, r))
  <1>1. "NONE" \in ErrorCodes
    BY DEF ErrorCodes
  <1> QED
    BY <1>1 DEF Obeys, Success, Replies, WellFormed, Keeps

\* A lease ends at a time.
LEMMA LeaseType ==
    ASSUME NEW r, WellFormed(r), r.op \in {"CLAIM", "RENEW"}, NEW x \in Contexts
    PROVE  x.now + r.body.lease \in Nat /\ r.body.owner \in OwnerIds
  <1>1. r.body.owner \in OwnerIds /\ r.body.lease \in Leases
    <2>1. r.body \in [owner: OwnerIds, lease: Leases]
      BY DEF WellFormed
    <2> QED
      BY <2>1
  <1>2. r.body.lease \in Nat
    BY <1>1, JobServiceAssumption
  <1>3. x.now \in Nat
    BY DEF Contexts
  <1> QED
    BY <1>1, <1>2, <1>3

\* CLAIM takes only a transmitter without an owner.
LEMMA DoClaimObeys ==
    ASSUME NEW s, Sound(s), NEW r, WellFormed(r), r.op = "CLAIM", NEW x \in Contexts
    PROVE  Obeys(s, r, DoClaim(s, r, x))
  <1> DEFINE o == [id |-> r.body.owner, session |-> r.session, principal |-> r.principal,
                   expires |-> x.now + r.body.lease, release |-> FALSE]
             t == [s EXCEPT !.eng = CalibrationBoundary(s.eng), !.owner = o]
  <1>0. /\ x.now + r.body.lease \in Nat /\ r.body.owner \in OwnerIds
        /\ r.session \in SessionIds /\ r.principal \in Principals
    BY LeaseType DEF WellFormed
  <1>1. o \in Owners
    BY <1>0 DEF Owners
  <1>2. DoClaim(s, r, x) = IF s.owner # NoOwner THEN Reject(s, r, "BUSY") ELSE Success(t, r)
    BY DEF DoClaim
  <1> HIDE DEF o
  <1>3. s.eng \in Engine
    BY DEF Sound, Typed, Service
  <1>4. /\ Typed(t) /\ Mode(t) = Mode(s) /\ t.owner = o /\ t.state = s.state /\ t.job = s.job
        /\ t.arm = s.arm /\ t.eng = CalibrationBoundary(s.eng) /\ t.ready = s.ready
    BY <1>1, <1>3, CalibrationType DEF Sound, Typed, Service, Mode
  <1> HIDE DEF t
  <1>5. Sound(t)
    BY <1>1, <1>3, <1>4, CalibrationType, SentinelAssumption DEF Sound, Quiet
  <1>6. Obeys(s, r, Success(t, r))
    <2>1. "NONE" \in ErrorCodes
      BY DEF ErrorCodes
    <2> QED
      BY <1>4, <1>5, <2>1 DEF Obeys, Success, Authority, Replies, WellFormed
  <1>7. Keeps(s, s) /\ "BUSY" \in ErrorCodes
    BY DEF Keeps, ErrorCodes
  <1> QED
    BY <1>2, <1>6, <1>7, RejectObeys

\* RENEW extends the lease and nothing else.
LEMMA DoRenewObeys ==
    ASSUME NEW s, Sound(s), s.owner # NoOwner, NEW r, WellFormed(r), r.op = "RENEW",
           NEW x \in Contexts
    PROVE  Obeys(s, r, DoRenew(s, r, x))
  <1> DEFINE o == [s.owner EXCEPT !.expires = x.now + r.body.lease]
             t == [s EXCEPT !.owner = o]
  <1>1. s.owner \in Owners
    BY DEF Sound, Typed, Service
  <1>2. o \in Owners
    <2>1. x.now + r.body.lease \in Nat
      BY LeaseType
    <2> QED
      BY <1>1, <2>1 DEF Owners
  <1>3. \/ DoRenew(s, r, x) = Reject(s, r, "NOT_OWNER")
        \/ DoRenew(s, r, x) = Reject(s, r, "LEASE_EXPIRED")
        \/ DoRenew(s, r, x) = Success(t, r)
    BY DEF DoRenew
  <1> HIDE DEF o
  <1>4. Keeps(s, t)
    BY <1>2, SentinelAssumption DEF Keeps, Locked, Free, Sound, Typed, Service, Mode
  <1>5. Keeps(s, s) /\ {"NOT_OWNER", "LEASE_EXPIRED"} \subseteq ErrorCodes
    BY DEF Keeps, ErrorCodes
  <1> HIDE DEF t
  <1> QED
    BY <1>3, <1>4, <1>5, RejectObeys, SuccessObeys

\* RELEASE drops the owner only with nothing executing.
LEMMA DoReleaseObeys ==
    ASSUME NEW s, Sound(s), NEW r, WellFormed(r)
    PROVE  Obeys(s, r, DoRelease(s, r))
  <1>1. CASE s.state \in {"ARMED", "RUNNING", "FAILED"}
    <2>1. Keeps(s, s) /\ "INVALID_STATE" \in ErrorCodes
      BY DEF Keeps, ErrorCodes
    <2> QED
      BY <1>1, <2>1, RejectObeys DEF DoRelease
  <1>2. CASE s.state \notin {"ARMED", "RUNNING", "FAILED"}
    <2> DEFINE t == ClearJob(s)
    <2>1. /\ Typed(t) /\ Mode(t) = Mode(s) /\ t.state = "EMPTY" /\ t.eng = s.eng
          /\ t.owner = s.owner /\ t.job = NoJob
      BY ClearJobProps DEF Sound
    <2>2. DoRelease(s, r) = Success(DropOwner(t), r)
      BY <1>2 DEF DoRelease
    <2> HIDE DEF t
    <2>3. s.ready /\ Quiet(s.eng)
      BY <1>2 DEF Sound, Typed, Service
    <2>4. Sound(DropOwner(t)) /\ Mode(DropOwner(t)) = Mode(s) /\ DropOwner(t).state = "EMPTY"
      BY <2>1, <2>3, DropOwnerSound DEF Live, Mode
    <2>5. DropOwner(t).owner = NoOwner /\ Quiet(DropOwner(t).eng)
      BY <2>1, <2>4, DropOwnerProps DEF Sound
    <2>6. Keeps(s, DropOwner(t))
      BY <2>4, <2>5 DEF Keeps, Locked, Free, Live
    <2> QED
      BY <2>2, <2>6, SuccessObeys
  <1> QED
    BY <1>1, <1>2

\* prepare plans or refuses; it neither starts nor stops anything.
LEMMA PrepareType ==
    ASSUME NEW e \in Engine, NEW j \in Jobs, NEW sv \in Ppbs, NEW healthy \in BOOLEAN
    PROVE  LET p == Prepare(e, j, sv, healthy) IN
           p.eng \in Engine /\ p.eng.st = e.st /\ p.eng.out = e.out
  <1> DEFINE ppb == Selected(e, sv)
             corrected == [e EXCEPT !.prog = ppb]
             planned == [corrected EXCEPT !.plan = j]
             frozen == [planned EXCEPT !.frozen = ppb]
             p == Prepare(e, j, sv, healthy)
  <1>1. ppb \in Ppbs
    BY DEF Selected, Engine
  <1>2. \/ p = [eng |-> e, accepted |-> FALSE]
        \/ p = [eng |-> corrected, accepted |-> FALSE]
        \/ p = [eng |-> planned, accepted |-> FALSE]
        \/ p = [eng |-> frozen, accepted |-> TRUE]
    BY DEF Prepare
  <1> HIDE DEF ppb
  <1>3. corrected \in Engine /\ corrected.st = e.st /\ corrected.out = e.out
    BY <1>1 DEF Engine
  <1> HIDE DEF corrected
  <1>4. planned \in Engine /\ planned.st = e.st /\ planned.out = e.out
    BY <1>3 DEF Engine
  <1> HIDE DEF planned
  <1>5. frozen \in Engine /\ frozen.st = e.st /\ frozen.out = e.out
    BY <1>1, <1>4 DEF Engine
  <1> HIDE DEF frozen, p
  <1> QED
    <2>1. CASE p = [eng |-> e, accepted |-> FALSE]
      BY <2>1 DEF p
    <2>2. CASE p = [eng |-> corrected, accepted |-> FALSE]
      BY <2>2, <1>3 DEF p
    <2>3. CASE p = [eng |-> planned, accepted |-> FALSE]
      BY <2>3, <1>4 DEF p
    <2>4. CASE p = [eng |-> frozen, accepted |-> TRUE]
      BY <2>4, <1>5 DEF p
    <2> QED
      BY <1>2, <2>1, <2>2, <2>3, <2>4

\* LOAD of a new job leaves a loaded job with a quiet engine, or what was there.
LEMMA AdmitJobObeys ==
    ASSUME NEW s, Sound(s), s.owner # NoOwner, s.state # "FAILED", ~s.eng.out,
           NEW r, WellFormed(r), r.op = "LOAD", NEW x \in Contexts
    PROVE  Obeys(s, r, AdmitJob(s, r, x))
  <1> DEFINE j == r.body.job
             healthy == x.admit # "store"
             p == Prepare(s.eng, j, x.saved, healthy)
             tried == [s EXCEPT !.eng = p.eng]
             loaded == [tried EXCEPT !.job = j, !.arm = NoArm, !.state = "LOADED"]
  <1>1. j \in Jobs /\ x.saved \in Ppbs /\ healthy \in BOOLEAN /\ s.eng \in Engine
    BY DEF WellFormed, Contexts, Sound, Typed, Service
  <1>2. p.eng \in Engine /\ p.eng.st = s.eng.st /\ p.eng.out = s.eng.out
    BY <1>1, PrepareType
  <1>3. /\ {"INVALID_STATE", "INVALID_MESSAGE", "INTERNAL_ERROR", "FREQUENCY_REJECTED",
            "DEVICE_FAULT", "NONE"} \subseteq ErrorCodes
        /\ Keeps(s, s)
    BY DEF ErrorCodes, Keeps
  <1>4. \/ AdmitJob(s, r, x) = Reject(s, r, "INVALID_STATE")
        \/ AdmitJob(s, r, x) = Reject(s, r, "INVALID_MESSAGE")
        \/ AdmitJob(s, r, x) = Reject(s, r, "INTERNAL_ERROR")
        \/ AdmitJob(s, r, x) = Reject(tried, r, "FREQUENCY_REJECTED")
        \/ AdmitJob(s, r, x) = Reject(tried, r, "DEVICE_FAULT")
        \/ AdmitJob(s, r, x) = Success(loaded, r) /\ s.state \notin {"ARMED", "RUNNING"}
    BY DEF AdmitJob
  <1> HIDE DEF j, p
  <1>5. /\ Typed(tried) /\ Mode(tried) = Mode(s) /\ tried.state = s.state /\ tried.job = s.job
        /\ tried.arm = s.arm /\ tried.owner = s.owner /\ tried.eng = p.eng
        /\ tried.ready = s.ready
    BY <1>2 DEF Sound, Typed, Service, Mode
  <1> HIDE DEF tried
  <1>6. Sound(tried)
    BY <1>2, <1>5 DEF Sound, Quiet
  <1>7. Keeps(s, tried)
    BY <1>2, <1>5, <1>6 DEF Keeps, Locked, Free
  <1>8. CASE s.state \notin {"ARMED", "RUNNING"}
    <2>1. /\ Typed(loaded) /\ Mode(loaded) = Mode(tried) /\ loaded.state = "LOADED"
          /\ loaded.job = j /\ loaded.owner = tried.owner /\ loaded.eng = tried.eng
          /\ loaded.ready = tried.ready
      BY <1>1, <1>5 DEF Typed, Service, Mode, States
    <2> HIDE DEF loaded
    <2>2. Sound(loaded)
      BY <1>1, <1>2, <1>5, <1>8, <2>1, TxEngineAssumption DEF Sound, Quiet, Live
    <2>3. Obeys(s, r, Success(loaded, r))
      BY <1>3, <1>5, <2>1, <2>2 DEF Obeys, Success, Authority, Replies, WellFormed
    <2> QED
      BY <1>3, <1>4, <1>7, <2>3, RejectObeys
  <1>9. CASE s.state \in {"ARMED", "RUNNING"}
    BY <1>3, <1>4, <1>7, <1>9, RejectObeys
  <1> QED
    BY <1>8, <1>9

\* touch_terminal only reorders the records.
LEMMA TouchTerminalKeeps ==
    ASSUME NEW s, Sound(s), NEW id
    PROVE  Keeps(s, TouchTerminal(s, id))
  <1>1. CASE \E r \in s.terminals : r.job = id
    <2> DEFINE r == CHOOSE q \in s.terminals : q.job = id
               rest == s.terminals \ {r}
               front == PushFront(rest, r)
    <2>1. r \in s.terminals
      BY <1>1
    <2>2. TouchTerminal(s, id) = [s EXCEPT !.terminals = Compact(front)]
      BY <1>1 DEF TouchTerminal, ToFront
    <2> HIDE DEF r
    <2>3. /\ r \in TerminalRecords /\ rest \in SUBSET TerminalRecords
          /\ IsFiniteSet(s.terminals) /\ rest \in SUBSET s.terminals
      BY <2>1 DEF Sound, Typed, Service
    <2>4. IsFiniteSet(rest)
      BY <2>3, FS_Subset
    <2> HIDE DEF rest
    <2>5. front \in SUBSET TerminalRecords /\ IsFiniteSet(front)
      BY <2>3, <2>4, TerminalsType, PushFrontFinite
    <2> HIDE DEF front
    <2>6. Compact(front) \in SUBSET TerminalRecords /\ IsFiniteSet(Compact(front))
      BY <2>3, <2>5, TerminalsType, CompactFinite
    <2> QED
      BY <2>2, <2>6 DEF Keeps, Sound, Typed, Service, Mode, Locked, Free
  <1>2. CASE ~\E r \in s.terminals : r.job = id
    BY <1>2 DEF TouchTerminal, Keeps, Sound, Typed, Service, Mode, Locked, Free
  <1> QED
    BY <1>1, <1>2

\* LOAD, its idempotent cases included.
LEMMA DoLoadObeys ==
    ASSUME NEW s, Sound(s), s.owner # NoOwner, NEW r, WellFormed(r), r.op = "LOAD",
           NEW x \in Contexts
    PROVE  Obeys(s, r, DoLoad(s, r, x))
  <1>1. \/ DoLoad(s, r, x) = Reject(s, r, "INVALID_STATE")
        \/ DoLoad(s, r, x) = Reject(s, r, "JOB_ID_CONFLICT")
        \/ DoLoad(s, r, x) = Success(TouchTerminal(s, r.body.job.id), r)
        \/ DoLoad(s, r, x) = Success(s, r)
        \/ DoLoad(s, r, x) = AdmitJob(s, r, x) /\ ~s.eng.out /\ s.state # "FAILED"
    BY DEF DoLoad
  <1>2. Keeps(s, s) /\ {"INVALID_STATE", "JOB_ID_CONFLICT"} \subseteq ErrorCodes
    BY DEF Keeps, ErrorCodes
  <1>3. Keeps(s, TouchTerminal(s, r.body.job.id))
    BY TouchTerminalKeeps
  <1> QED
    BY <1>1, <1>2, <1>3, RejectObeys, SuccessObeys, AdmitJobObeys

\* An accepted ARM: armed, or failed with the engine disabled.
LEMMA ScheduleJobObeys ==
    ASSUME NEW s, Sound(s), s.state = "LOADED", NEW r, WellFormed(r), r.op = "ARM",
           NEW x \in Contexts
    PROVE  Obeys(s, r, ScheduleJob(s, r, x))
  <1> DEFINE b == r.body.arm
             start == StartMonotonic(x.clk, b.startUtc)
             deadline == StartMonotonic(x.clk, b.startUtc + StartWindow(b.startUtc))
             maxUnc == IF b.maxUnc < MaxArmUnc THEN b.maxUnc ELSE MaxArmUnc
             arm == [startUtc |-> b.startUtc, maxUnc |-> b.maxUnc, start |-> start,
                     local |-> Local, launch |-> NoTime]
             cond == [startUtc |-> b.startUtc, maxUnc |-> maxUnc, deadline |-> deadline]
             begun == Begin(s.eng, s.job, start, cond, x.start)
             armed == [s EXCEPT !.state = "ARMED", !.arm = arm]
             going == [armed EXCEPT !.eng = begun.eng]
             refused == [armed EXCEPT !.arm = NoArm, !.eng = begun.eng]
             failed == StopAs(refused, "FAILED", "DEVICE_FAULT", x)
  <1>1. b.startUtc \in Nat /\ b.maxUnc \in Nat
    <2>1. b \in ArmBodies
      BY DEF WellFormed
    <2> QED
      BY <2>1, JobServiceAssumption
  <1>2. x.clk.off \in Int
    BY JobServiceAssumption DEF Contexts, ClockSnapshot
  <1>3. start \in Int
    BY <1>1, <1>2 DEF StartMonotonic
  <1>4. deadline \in Int
    <2>1. StartWindow(b.startUtc) \in Int
      BY <1>1, ArmPolicyAssumption DEF StartWindow
    <2> QED
      BY <1>1, <1>2, <2>1 DEF StartMonotonic
  <1>5. maxUnc \in Nat
    BY <1>1, ArmPolicyAssumption
  <1> HIDE DEF start, deadline, maxUnc
  <1>6. arm \in Arms
    BY <1>1, <1>3, TxEngineAssumption DEF Arms
  <1>7. cond \in Conditions \cup {NoCond}
    BY <1>1, <1>4, <1>5 DEF Conditions
  <1> HIDE DEF cond
  <1>8. /\ s.eng \in Engine /\ s.job \in Jobs /\ s.owner # NoOwner /\ Typed(s) /\ s.ready
        /\ x.start \in {"ok", "refuse", "fault", "early"}
    BY DEF Sound, Typed, Service, Live, Contexts
  <1>9. begun.eng \in Engine
    BY <1>3, <1>7, <1>8, BeginType
  <1>10. \/ ScheduleJob(s, r, x) = Success(armed, r)
         \/ ScheduleJob(s, r, x) = Success(going, r)
         \/ ScheduleJob(s, r, x) =
               Reject(failed, r, IF x.off THEN "DEVICE_FAULT" ELSE "OUTPUT_STATE_UNKNOWN")
    BY DEF ScheduleJob, start, cond, maxUnc, deadline
  <1> HIDE DEF arm, begun
  <1>11. /\ Typed(armed) /\ Mode(armed) = Mode(s) /\ armed.state = "ARMED" /\ armed.arm = arm
         /\ armed.job = s.job /\ armed.owner = s.owner /\ armed.ready = s.ready
    BY <1>6, <1>8 DEF Typed, Service, Mode, States
  <1> HIDE DEF armed
  <1>12. /\ Typed(going) /\ Mode(going) = Mode(s) /\ going.state = "ARMED" /\ going.arm = arm
         /\ going.job = s.job /\ going.owner = s.owner /\ going.ready = s.ready
    BY <1>9, <1>11 DEF Typed, Service, Mode
  <1>13. /\ Typed(refused) /\ Mode(refused) = Mode(s) /\ refused.state = "ARMED"
         /\ refused.job = s.job /\ refused.owner = s.owner /\ refused.ready = s.ready
    BY <1>9, <1>11 DEF Typed, Service, Mode
  <1> HIDE DEF going, refused
  <1>14. Sound(armed) /\ Sound(going)
    BY <1>6, <1>8, <1>11, <1>12, SentinelAssumption, TxEngineAssumption DEF Sound, Live
  <1>15. /\ {"DEVICE_FAULT", "OUTPUT_STATE_UNKNOWN", "NONE"} \subseteq ErrorCodes
         /\ "FAILED" \in TerminalStates
    BY DEF ErrorCodes, TerminalStates
  <1>16. Sound(failed) /\ Mode(failed) = Mode(s)
    <2>1. Keeps(refused, failed)
      BY <1>8, <1>13, <1>15, StopAsKeeps DEF Live
    <2> QED
      BY <1>13, <2>1 DEF Keeps
  <1> HIDE DEF failed
  <1> DEFINE err == IF x.off THEN "DEVICE_FAULT" ELSE "OUTPUT_STATE_UNKNOWN"
  <1>17. err \in ErrorCodes
    BY <1>15
  <1> HIDE DEF err
  <1>18. r.op \in Authority /\ r.op \in Ops
    BY DEF Authority, Ops
  <1>19. Obeys(s, r, Success(armed, r)) /\ Obeys(s, r, Success(going, r))
    BY <1>11, <1>12, <1>14, <1>15, <1>18 DEF Obeys, Success, Replies
  <1>20. Obeys(s, r, Reject(failed, r, err))
    BY <1>16, <1>17, <1>18 DEF Obeys, Reject, Replies
  <1> QED
    BY <1>10, <1>19, <1>20 DEF err

\* ARM, its idempotent cases included.
LEMMA DoArmObeys ==
    ASSUME NEW s, Sound(s), NEW r, WellFormed(r), r.op = "ARM", NEW x \in Contexts
    PROVE  Obeys(s, r, DoArm(s, r, x))
  <1> DEFINE verdict == ValidateArm(x.clk, x.now, r.body.arm, s.job.dur)
  <1>1. verdict \in ErrorCodes
    BY DEF ValidateArm, ErrorCodes
  <1>2. \/ DoArm(s, r, x) = Reject(s, r, "INVALID_STATE")
        \/ DoArm(s, r, x) = Reject(s, r, "ARM_CONFLICT")
        \/ DoArm(s, r, x) = Reject(s, r, "JOB_NOT_FOUND")
        \/ DoArm(s, r, x) = Reject(s, r, verdict)
        \/ DoArm(s, r, x) = Success(TouchTerminal(s, r.body.job), r)
        \/ DoArm(s, r, x) = Success(s, r)
        \/ DoArm(s, r, x) = ScheduleJob(s, r, x) /\ s.state = "LOADED"
    BY DEF DoArm
  <1> HIDE DEF verdict
  <1>3. /\ Keeps(s, s)
        /\ {"INVALID_STATE", "ARM_CONFLICT", "JOB_NOT_FOUND"} \subseteq ErrorCodes
    BY DEF Keeps, ErrorCodes
  <1>4. Keeps(s, TouchTerminal(s, r.body.job))
    BY TouchTerminalKeeps
  <1> QED
    BY <1>1, <1>2, <1>3, <1>4, RejectObeys, SuccessObeys, ScheduleJobObeys

\* An abort that is answered with success leaves nothing to execute.
LEMMA AbortJobKeeps ==
    ASSUME NEW s, Sound(s), NEW r, NEW id, NEW x \in Contexts
    PROVE  LET d == AbortJob(s, r, id, x) IN
           /\ Keeps(s, d.s) /\ d.reply \in [op: {r.op}, err: ErrorCodes]
           /\ d = [s |-> d.s, reply |-> d.reply]
           /\ d.reply.err = "NONE" => d.s.state = "ABORTED"
           /\ s.job # NoJob /\ s.job.id = id /\ s.state \notin {"COMPLETE", "MISSED"}
                /\ d.reply.err # "NONE" => d.s.state = "FAILED"
  <1> DEFINE stopped == StopAs(s, "ABORTED", "NONE", x)
             d == AbortJob(s, r, id, x)
  <1>1. \/ d = Reject(s, r, "JOB_NOT_FOUND") /\ (s.job = NoJob \/ s.job.id # id)
        \/ d = Success(s, r) /\ s.state = "ABORTED"
        \/ d = Reject(s, r, "INVALID_STATE") /\ s.state \in {"COMPLETE", "MISSED"}
        \/ d = Reject(s, r, "OUTPUT_STATE_UNKNOWN") /\ s.state = "FAILED"
        \/ /\ s.job # NoJob /\ s.state \notin TerminalStates
           /\ \/ d = Success(stopped, r) /\ x.off
              \/ d = Reject(stopped, r, "OUTPUT_STATE_UNKNOWN") /\ ~x.off
    BY DEF AbortJob, TerminalStates
  <1>2. /\ {"JOB_NOT_FOUND", "INVALID_STATE", "OUTPUT_STATE_UNKNOWN", "NONE"} \subseteq ErrorCodes
        /\ "ABORTED" \in TerminalStates /\ Keeps(s, s)
    BY DEF ErrorCodes, TerminalStates, Keeps
  <1>3. CASE s.job # NoJob /\ s.state \notin TerminalStates
    <2>1. Typed(s) /\ s.job \in Jobs /\ s.state \in Live /\ s.ready /\ s.owner # NoOwner
      BY <1>3 DEF Sound, Typed, Service, States, Live, TerminalStates
    <2>2. Keeps(s, stopped) /\ stopped.state \in TerminalStates
      BY <1>2, <2>1, StopAsKeeps
    <2>3. (x.off => stopped.state = "ABORTED") /\ (~x.off => stopped.state = "FAILED")
      BY <1>2, <2>1, StopAsProps
    <2> HIDE DEF stopped, d
    <2> QED
      BY <1>1, <1>2, <2>2, <2>3, <1>3 DEF d, Reject, Success, Live, TerminalStates
  <1>4. CASE ~(s.job # NoJob /\ s.state \notin TerminalStates)
    <2> HIDE DEF stopped, d
    <2> QED
      BY <1>1, <1>2, <1>4 DEF d, Reject, Success, Live
  <1> QED
    BY <1>3, <1>4

\* Every operation obeys; only CLAIM, RENEW, LOAD and ARM take authority.
LEMMA DispatchObeys ==
    ASSUME NEW s, Sound(s), NEW r, WellFormed(r), NEW x \in Contexts
    PROVE  Obeys(s, r, Dispatch(s, r, x))
  <1>1. Keeps(s, s) /\ {"LEASE_EXPIRED", "NOT_OWNER"} \subseteq ErrorCodes
    BY DEF Keeps, ErrorCodes
  <1>2. Obeys(s, r, AbortJob(s, r, r.body.job, x))
    <2> DEFINE d == AbortJob(s, r, r.body.job, x)
    <2>1. /\ Keeps(s, d.s) /\ d.reply \in [op: {r.op}, err: ErrorCodes]
          /\ d = [s |-> d.s, reply |-> d.reply]
      BY AbortJobKeeps
    <2>2. r.op \in Ops
      BY DEF WellFormed
    <2> HIDE DEF d
    <2>3. d.reply \in Replies
      BY <2>1, <2>2 DEF Replies
    <2> QED
      BY <2>1, <2>3 DEF Obeys, Keeps, d
  <1>3. CASE r.op \in ReadOps
    BY <1>1, <1>3, SuccessObeys DEF Dispatch
  <1>4. CASE r.op = "CLAIM"
    BY <1>4, DoClaimObeys DEF Dispatch, ReadOps
  <1>5. CASE r.op \notin ReadOps /\ r.op # "CLAIM"
    <2>1. CASE s.owner = NoOwner
      BY <1>1, <1>5, <2>1, RejectObeys DEF Dispatch
    <2>2. CASE s.owner # NoOwner /\ ~Owns(s, r)
      BY <1>1, <1>5, <2>2, RejectObeys DEF Dispatch
    <2>3. CASE s.owner # NoOwner /\ Owns(s, r)
      <3>1. \/ r.op = "RENEW" /\ Dispatch(s, r, x) = DoRenew(s, r, x)
            \/ r.op = "RELEASE" /\ Dispatch(s, r, x) = DoRelease(s, r)
            \/ r.op = "LOAD" /\ Dispatch(s, r, x) = DoLoad(s, r, x)
            \/ r.op = "ARM" /\ Dispatch(s, r, x) = DoArm(s, r, x)
            \/ r.op = "ABORT" /\ Dispatch(s, r, x) = AbortJob(s, r, r.body.job, x)
        BY <1>5, <2>3 DEF Dispatch, WellFormed, Ops, ReadOps
      <3> QED
        BY <1>2, <2>3, <3>1, DoRenewObeys, DoReleaseObeys, DoLoadObeys, DoArmObeys
    <2> QED
      BY <2>1, <2>2, <2>3
  <1> QED
    BY <1>3, <1>4, <1>5

\* Refreshing a session changes no authority.
LEMMA SeeSessionKeeps ==
    ASSUME NEW s, Sound(s), NEW r, WellFormed(r), NEW x \in Contexts
    PROVE  Keeps(s, SeeSession(s, r, x))
  <1> DEFINE n == [id |-> r.session, principal |-> r.principal, seen |-> x.now]
             others == s.sessions \ SessionOf(s, r.session)
  <1>1. n \in Sessions
    BY DEF WellFormed, Sessions, Contexts
  <1>2. others \cup {n} \in SUBSET Sessions
    BY <1>1 DEF Sound, Typed, Service
  <1>3. SeeSession(s, r, x) = [s EXCEPT !.sessions = others \cup {n}]
    BY DEF SeeSession
  <1> HIDE DEF n, others
  <1> QED
    BY <1>2, <1>3 DEF Keeps, Sound, Typed, Service, Mode, Locked, Free

\* Any change of the replay cache alone.
LEMMA ReplayKeeps ==
    ASSUME NEW s, Sound(s), NEW T \in SUBSET ReplayEntries, IsFiniteSet(T)
    PROVE  Keeps(s, [s EXCEPT !.replay = T])
  BY DEF Keeps, Sound, Typed, Service, Mode, Locked, Free

\* remember only adds to the replay cache.
LEMMA RememberKeeps ==
    ASSUME NEW s, Sound(s), NEW r, WellFormed(r), r.id # NoRequestId, NEW reply \in Replies,
           NEW x \in Contexts
    PROVE  Keeps(s, Remember(s, r, reply, x))
  <1> DEFINE mine == {e \in s.replay : e.session = r.session}
             oldest == CHOOSE e \in mine : \A f \in mine : f.pos <= e.pos
             kept == IF Cardinality(mine) >= ReplayCap THEN s.replay \ {oldest} ELSE s.replay
             entry == [session |-> r.session, principal |-> r.principal, id |-> r.id, op |-> r.op,
                       body |-> r.body, reply |-> reply, at |-> x.now, pos |-> 0]
             closed == Compact(kept)
  <1>1. entry \in ReplayEntries
    BY DEF WellFormed, ReplayEntries, Contexts, Replies
  <1>2. Remember(s, r, reply, x) = [s EXCEPT !.replay = PushFront(closed, entry)]
    BY DEF Remember
  <1> HIDE DEF mine, oldest, entry
  <1>3. kept \in SUBSET s.replay /\ s.replay \in SUBSET ReplayEntries /\ IsFiniteSet(s.replay)
    BY DEF Sound, Typed, Service
  <1> HIDE DEF kept
  <1>4. kept \in SUBSET ReplayEntries /\ IsFiniteSet(kept)
    BY <1>3, FS_Subset
  <1>5. closed \in SUBSET ReplayEntries /\ IsFiniteSet(closed)
    BY <1>1, <1>4, ReplayType, CompactFinite
  <1> HIDE DEF closed
  <1>6. PushFront(closed, entry) \in SUBSET ReplayEntries /\ IsFiniteSet(PushFront(closed, entry))
    BY <1>1, <1>5, ReplayType, PushFrontFinite
  <1> QED
    BY <1>2, <1>6, ReplayKeeps

\* Replay and dispatch obey alike.
LEMMA ServeObeys ==
    ASSUME NEW s, Sound(s), NEW r, WellFormed(r), NEW x \in Contexts
    PROVE  Obeys(s, r, Serve(s, r, x))
  <1> DEFINE done == Dispatch(s, r, x)
             hits == Cached(s, r)
  <1>1. Obeys(s, r, done)
    BY DispatchObeys
  <1>2. CASE hits # {}
    <2> DEFINE hit == CHOOSE e \in hits : TRUE
               rest == s.replay \ {hit}
               front == PushFront(rest, hit)
    <2>1. hit \in s.replay
      BY <1>2 DEF Cached
    <2>2. \/ Serve(s, r, x) = [s |-> [s EXCEPT !.replay = Compact(front)], reply |-> hit.reply]
          \/ Serve(s, r, x) = Reject(s, r, "REQUEST_ID_REUSE")
      BY <1>2 DEF Serve, ToFront
    <2> HIDE DEF hit
    <2>3. /\ hit \in ReplayEntries /\ rest \in SUBSET ReplayEntries
          /\ IsFiniteSet(s.replay) /\ rest \in SUBSET s.replay
      BY <2>1 DEF Sound, Typed, Service
    <2>4. IsFiniteSet(rest)
      BY <2>3, FS_Subset
    <2> HIDE DEF rest
    <2>5. front \in SUBSET ReplayEntries /\ IsFiniteSet(front)
      BY <2>3, <2>4, ReplayType, PushFrontFinite
    <2> HIDE DEF front
    <2>6. Compact(front) \in SUBSET ReplayEntries /\ IsFiniteSet(Compact(front))
      BY <2>3, <2>5, ReplayType, CompactFinite
    <2> DEFINE t == [s EXCEPT !.replay = Compact(front)]
    <2>7. Keeps(s, t)
      BY <2>6, ReplayKeeps
    <2>8. hit.reply \in Replies
      BY <2>3 DEF ReplayEntries, Replies
    <2> HIDE DEF t
    <2>9. Obeys(s, r, [s |-> t, reply |-> hit.reply])
      BY <2>7, <2>8 DEF Obeys, Keeps
    <2>10. Keeps(s, s) /\ "REQUEST_ID_REUSE" \in ErrorCodes
      BY DEF Keeps, ErrorCodes
    <2> QED
      BY <2>2, <2>9, <2>10, RejectObeys DEF t
  <1>3. CASE hits = {} /\ r.id = NoRequestId
    BY <1>1, <1>3 DEF Serve, Remembered
  <1>4. CASE hits = {} /\ r.id # NoRequestId
    <2> DEFINE t == Remember(done.s, r, done.reply, x)
    <2>1. Serve(s, r, x) = [done EXCEPT !.s = t]
      BY <1>4 DEF Serve, Remembered
    <2>2. Keeps(done.s, t)
      BY <1>1, <1>4, RememberKeeps DEF Obeys
    <2> HIDE DEF t, done
    <2>3. Serve(s, r, x) = [s |-> t, reply |-> done.reply]
      BY <1>1, <2>1 DEF Obeys
    <2>4. r.op \notin Authority => Keeps(s, t)
      BY <1>1, <2>2, KeepsTransitive DEF Obeys
    <2> QED
      BY <1>1, <2>2, <2>3, <2>4 DEF Obeys, Keeps
  <1> QED
    BY <1>2, <1>3, <1>4

\* The outcome d of a request in s. With the interlock set, or in maintenance,
\* no request leaves more than they do.
Handled(s, d, t) ==
    /\ Sound(d.s) /\ Mode(d.s) = Mode(s) /\ d.reply \in Replies
    /\ s.inhibited /\ Locked(s) => Locked(d.s)
    /\ Maintenance(s, t) /\ Free(s) => Free(d.s)

\* A request, from its prologue to its reply.
LEMMA HandleOwnedHandled ==
    ASSUME NEW s0, Sound(s0), NEW r, WellFormed(r), NEW x \in Contexts
    PROVE  Handled(s0, HandleOwned(s0, r, x), x.now)
  <1> DEFINE s == Refresh(s0, x)
             seen == SeeSession(s, r, x)
             d == HandleOwned(s0, r, x)
  <1>1. Keeps(s0, s) /\ Sound(s)
    BY RefreshKeeps DEF Keeps
  <1>2. \/ \E err \in {"DEVICE_FAULT", "BUSY", "HELLO_REQUIRED", "AUTHENTICATION_REQUIRED"} :
             d = Reject(s, r, err)
        \/ d = Serve(seen, r, x) /\ ~Refused(s, r, x)
    BY DEF HandleOwned, Handle
  <1> HIDE DEF s, d
  <1>3. CASE \E err \in {"DEVICE_FAULT", "BUSY", "HELLO_REQUIRED", "AUTHENTICATION_REQUIRED"} :
               d = Reject(s, r, err)
    <2>1. {"DEVICE_FAULT", "BUSY", "HELLO_REQUIRED", "AUTHENTICATION_REQUIRED"} \subseteq ErrorCodes
      BY DEF ErrorCodes
    <2> QED
      BY <1>1, <1>3, <2>1 DEF Handled, Keeps, Reject, Replies, WellFormed, d
  <1>4. CASE d = Serve(seen, r, x) /\ ~Refused(s, r, x)
    <2>1. Keeps(s, seen)
      BY <1>1, SeeSessionKeeps
    <2> HIDE DEF seen
    <2>2. Keeps(s0, seen) /\ Sound(seen)
      BY <1>1, <2>1, KeepsTransitive DEF Keeps
    <2>3. Obeys(seen, r, d)
      BY <1>4, <2>2, ServeObeys
    <2>4. /\ s.inhibited = s0.inhibited /\ s.maint = s0.maint /\ s.verify = s0.verify
      BY <1>1 DEF Keeps, Mode
    <2>5. s0.inhibited \/ Maintenance(s0, x.now) => Keeps(seen, d.s)
      BY <1>4, <2>3, <2>4 DEF Refused, Maintenance, Obeys
    <2> QED
      BY <2>2, <2>3, <2>5 DEF Handled, Obeys, Keeps, d
  <1> QED
    BY <1>2, <1>3, <1>4

-------------------------------------------------------------------------------
(* Local controls, resets and the engine. *)

\* Whatever a local abort meets, nothing is left to execute, and an owner only
\* beside a failed transmitter.
LEMMA LocalAbortKeeps ==
    ASSUME NEW s0, Sound(s0), NEW r, NEW x \in Contexts
    PROVE  Keeps(s0, LocalAbortOf(s0, r, x).s) /\ Locked(LocalAbortOf(s0, r, x).s)
  <1> DEFINE s == PollService(s0, x)
             aborted == AbortJob(s, r, s.job.id, x)
             d == LocalAbortOf(s0, r, x)
  <1>1. Keeps(s0, s) /\ Sound(s)
    BY PollServiceKeeps DEF Keeps
  <1>2. CASE s.state = "FAILED" \/ ~s.ready
    <2>1. s.state = "FAILED" /\ d.s = s
      BY <1>1, <1>2 DEF LocalAbortOf, AbortPolled, Reject, Sound
    <2> QED
      BY <1>1, <2>1 DEF Locked, Live
  <1>3. CASE s.state # "FAILED" /\ s.ready /\ s.job # NoJob /\ s.state \notin {"COMPLETE", "MISSED"}
    <2> HIDE DEF s
    <2>1. /\ Keeps(s, aborted.s) /\ aborted = [s |-> aborted.s, reply |-> aborted.reply]
          /\ aborted.reply.err = "NONE" => aborted.s.state = "ABORTED"
          /\ aborted.reply.err # "NONE" => aborted.s.state = "FAILED"
      BY <1>1, <1>3, AbortJobKeeps
    <2>2. d = IF aborted.reply.err = "NONE" THEN [aborted EXCEPT !.s = DropOwner(aborted.s)]
                                            ELSE aborted
      BY <1>3 DEF LocalAbortOf, AbortPolled, s
    <2> HIDE DEF aborted
    <2>3. CASE aborted.reply.err = "NONE"
      <3> DEFINE u == DropOwner(aborted.s)
      <3>1. d.s = u
        BY <2>1, <2>2, <2>3
      <3>2. /\ Sound(u) /\ Mode(u) = Mode(aborted.s) /\ u.state = "ABORTED"
            /\ u.owner = NoOwner
        <4>1. /\ Typed(aborted.s) /\ aborted.s.state = "ABORTED" /\ Quiet(aborted.s.eng)
              /\ aborted.s.ready
          BY <2>1, <2>3 DEF Keeps, Sound, Typed, Service
        <4> QED
          BY <4>1, DropOwnerSound, DropOwnerProps DEF Live
      <3>3. ~Free(s0)
        BY <1>1, <1>3 DEF Keeps, Free, Sound
      <3> HIDE DEF u
      <3> QED
        BY <1>1, <2>1, <3>1, <3>2, <3>3 DEF Keeps, Locked, Live, d
    <2>4. CASE aborted.reply.err # "NONE"
      BY <1>1, <2>1, <2>2, <2>4, KeepsTransitive DEF Locked, Live
    <2> QED
      BY <2>3, <2>4
  <1>4. CASE s.state # "FAILED" /\ s.ready /\ ~(s.job # NoJob /\ s.state \notin {"COMPLETE", "MISSED"})
    <2> DEFINE u == DropOwner(s)
    <2>1. s.state \notin Live /\ Quiet(s.eng) /\ Typed(s) /\ (s.state = "EMPTY" => s.job = NoJob)
      BY <1>1, <1>4 DEF Sound, Live
    <2>2. d.s = u
      BY <1>4, <2>1 DEF LocalAbortOf, AbortPolled, Success, Quiet
    <2> HIDE DEF s, d
    <2>3. /\ Sound(u) /\ Mode(u) = Mode(s) /\ u.state = s.state /\ u.owner = NoOwner
          /\ u.eng = CalibrationBoundary(s.eng)
      BY <1>4, <2>1, DropOwnerSound, DropOwnerProps
    <2>4. Quiet(u.eng)
      BY <2>1, <2>3, CalibrationType DEF Quiet, Typed, Service
    <2> HIDE DEF u
    <2>5. Keeps(s, u) /\ Locked(u)
      BY <2>1, <2>3, <2>4 DEF Keeps, Locked, Free
    <2> QED
      BY <1>1, <2>2, <2>5, KeepsTransitive DEF d
  <1> QED
    BY <1>2, <1>3, <1>4

\* The worker's latch changes nothing that the service sees.
LEMMA InhibitOutputType ==
    ASSUME NEW e \in Engine
    PROVE  LET f == InhibitOutput(e) IN
           /\ f \in Engine /\ f.st = e.st /\ f.out = e.out /\ f.frozen = e.frozen
           /\ f.pair = e.pair
  BY DEF InhibitOutput, Engine

\* A change of the engine that starts nothing and thaws nothing.
LEMMA EngineKeeps ==
    ASSUME NEW s, Sound(s), NEW f \in Engine, Quiet(s.eng) => Quiet(f),
           f.frozen = s.eng.frozen, f.pair = s.eng.pair
    PROVE  LET t == [s EXCEPT !.eng = f] IN
           Keeps(s, t) /\ t.state = s.state /\ t.owner = s.owner
  <1> DEFINE t == [s EXCEPT !.eng = f]
  <1>1. /\ Typed(t) /\ Mode(t) = Mode(s) /\ t.state = s.state /\ t.job = s.job /\ t.arm = s.arm
        /\ t.owner = s.owner /\ t.eng = f /\ t.ready = s.ready
    BY DEF Sound, Typed, Service, Mode
  <1> HIDE DEF t
  <1>2. Sound(t)
    BY <1>1 DEF Sound, Thawed
  <1>3. Keeps(s, t)
    BY <1>1, <1>2 DEF Keeps, Locked, Free
  <1> QED
    BY <1>1, <1>3 DEF t

\* The physical interlock leaves nothing to execute.
LEMMA LocalInhibitSound ==
    ASSUME NEW s0, Sound(s0), NEW r, NEW x \in Contexts, NEW off2 \in BOOLEAN
    PROVE  LET t == LocalInhibitOf(s0, r, x, off2).s IN
           /\ Sound(t) /\ Locked(t) /\ (Free(s0) => Free(t))
           /\ t.maint = s0.maint /\ t.verify = s0.verify
  <1> DEFINE held == [s0 EXCEPT !.inhibited = TRUE, !.eng = InhibitOutput(s0.eng)]
             a == LocalAbortOf(held, r, x).s
             e == Disable(a.eng, off2)
             t == [a EXCEPT !.eng = e]
  <1>1. /\ Sound(held) /\ (Free(s0) => Free(held))
        /\ held.maint = s0.maint /\ held.verify = s0.verify
    <2> DEFINE f == InhibitOutput(s0.eng)
    <2>1. /\ f \in Engine /\ f.st = s0.eng.st /\ f.out = s0.eng.out
          /\ f.frozen = s0.eng.frozen /\ f.pair = s0.eng.pair
      BY InhibitOutputType DEF Sound, Typed, Service
    <2> HIDE DEF f
    <2>2. /\ Typed(held) /\ held.state = s0.state /\ held.job = s0.job /\ held.arm = s0.arm
          /\ held.owner = s0.owner /\ held.eng = f /\ held.ready = s0.ready
          /\ held.maint = s0.maint /\ held.verify = s0.verify
      BY <2>1 DEF Sound, Typed, Service, f
    <2> HIDE DEF held
    <2> QED
      BY <2>1, <2>2 DEF Sound, Free, Quiet, Thawed
  <1> HIDE DEF held
  <1>2. Keeps(held, a) /\ Locked(a)
    BY <1>1, LocalAbortKeeps
  <1>3. LocalInhibitOf(s0, r, x, off2).s = t
    BY DEF LocalInhibitOf, InhibitAborted, Success, Reject, held
  <1> HIDE DEF a
  <1>4. /\ e \in Engine /\ e.frozen = a.eng.frozen /\ e.pair = a.eng.pair
        /\ Quiet(a.eng) => Quiet(e)
    <2>1. a.eng \in Engine
      BY <1>2 DEF Keeps, Sound, Typed, Service
    <2>2. /\ e \in Engine /\ e.frozen = a.eng.frozen /\ e.pair = a.eng.pair
          /\ e.st \in {"idle", "failed"} /\ (~a.eng.out => ~e.out)
      BY <2>1, DisableType
    <2> HIDE DEF e
    <2> QED
      BY <2>2 DEF Quiet
  <1> HIDE DEF e
  <1>5. Keeps(a, t) /\ t.state = a.state /\ t.owner = a.owner
    BY <1>2, <1>4, EngineKeeps DEF Keeps
  <1> HIDE DEF t
  <1> QED
    BY <1>1, <1>2, <1>3, <1>5 DEF Keeps, Mode

\* The constructor, whether or not the first disable is confirmed.
LEMMA BootSound ==
    ASSUME NEW e \in Engine, Thawed(e), NEW off \in BOOLEAN, NEW verify \in BOOLEAN
    PROVE  LET b == Boot(e, off, verify) IN
           /\ Sound(b) /\ b.owner = NoOwner /\ b.state \in {"EMPTY", "FAILED"} /\ b.ready = off
           /\ ~b.inhibited /\ b.maint = 0
           /\ b.eng \in Engine /\ (off => b.state = "EMPTY" /\ Quiet(b.eng))
           /\ ~off => b.state = "FAILED"
           /\ ~e.out => Quiet(b.eng)
  <1> DEFINE f == Disable(e, off)
             b == Boot(e, off, verify)
  <1>1. /\ f \in Engine /\ f.frozen = e.frozen /\ f.pair = e.pair
        /\ (off => Quiet(f)) /\ (~e.out => Quiet(f))
    <2>1. CASE off
      BY <2>1, DisableType DEF Quiet
    <2>2. CASE ~off
      BY <2>2, DisableType DEF Quiet
    <2> QED
      BY <2>1, <2>2
  <1>2. b = [state |-> IF off THEN "EMPTY" ELSE "FAILED", ready |-> off, owner |-> NoOwner,
             job |-> NoJob, arm |-> NoArm, sessions |-> {}, replay |-> {}, terminals |-> {},
             retained |-> {}, inhibited |-> FALSE, maint |-> 0, verify |-> verify,
             boot |-> 0, eng |-> f]
    BY DEF Boot
  <1> HIDE DEF f, b
  <1>3. IsFiniteSet({})
    BY FS_EmptySet
  <1>4. /\ Typed(b) /\ b.owner = NoOwner /\ b.job = NoJob /\ b.ready = off /\ b.eng = f
        /\ b.inhibited = FALSE /\ b.maint = 0
    <2>1. CASE off
      BY <1>1, <1>2, <1>3, <2>1 DEF Typed, Service, States
    <2>2. CASE ~off
      BY <1>1, <1>2, <1>3, <2>2 DEF Typed, Service, States
    <2> QED
      BY <2>1, <2>2
  <1>5. (off => b.state = "EMPTY") /\ (~off => b.state = "FAILED")
    BY <1>2
  <1>6. Sound(b)
    BY <1>1, <1>4, <1>5 DEF Sound, Live, Thawed
  <1> QED
    BY <1>1, <1>4, <1>5, <1>6 DEF b

\* reset forgets all but the interlock; an unconfirmed one leaves a failed service.
LEMMA ResetSound ==
    ASSUME NEW s, Sound(s), NEW off \in BOOLEAN, NEW fresh \in BOOLEAN
    PROVE  LET t == ResetOf(s, off, fresh) IN
           /\ Sound(t) /\ Locked(t) /\ t.maint = 0 /\ ~t.verify
  <1> DEFINE e == CalibrationBoundary(s.eng)
             b == Boot(e, off, FALSE)
             ok == off /\ fresh
             st == IF ok THEN "EMPTY" ELSE "FAILED"
             t == ResetOf(s, off, fresh)
  <1>1. e \in Engine /\ Thawed(e)
    BY CalibrationType DEF Thawed, Sound, Typed, Service
  <1>2. t = [b EXCEPT !.inhibited = s.inhibited, !.ready = ok, !.state = st, !.boot = s.boot + 1]
    BY DEF ResetOf
  <1> HIDE DEF e
  <1>3. /\ Sound(b) /\ b.owner = NoOwner /\ b.maint = 0 /\ (off => Quiet(b.eng))
        /\ (off => b.state = "EMPTY")
    BY <1>1, BootSound
  <1>4. b.verify = FALSE /\ b.job = NoJob
    BY DEF Boot
  <1> HIDE DEF b, t
  <1>5. s.inhibited \in BOOLEAN /\ s.boot + 1 \in Nat
    BY DEF Sound, Typed, Service
  <1>6. ok \in BOOLEAN /\ st \in {"EMPTY", "FAILED"} /\ (st = "EMPTY" => off) /\ (~ok => st = "FAILED")
    OBVIOUS
  <1> HIDE DEF ok, st
  <1>7. /\ Typed(t) /\ t.state = st /\ t.ready = ok /\ t.owner = NoOwner /\ t.eng = b.eng
        /\ t.maint = 0 /\ t.verify = FALSE /\ t.job = NoJob
    <2> DEFINE u == [b EXCEPT !.inhibited = s.inhibited]
               v == [u EXCEPT !.ready = ok]
               w == [v EXCEPT !.state = st]
    <2>1. Typed(b)
      BY <1>3 DEF Sound
    <2>2. /\ Typed(u) /\ u.owner = NoOwner /\ u.eng = b.eng /\ u.maint = 0 /\ u.verify = FALSE
          /\ u.job = NoJob
      BY <1>3, <1>4, <1>5, <2>1 DEF Typed, Service
    <2>3. t = [[v EXCEPT !.state = st] EXCEPT !.boot = s.boot + 1]
      BY <1>2
    <2> HIDE DEF u
    <2>4. /\ Typed(v) /\ v.owner = NoOwner /\ v.eng = b.eng /\ v.maint = 0 /\ v.verify = FALSE
          /\ v.job = NoJob /\ v.ready = ok
      BY <1>6, <2>2 DEF Typed, Service
    <2> HIDE DEF v
    <2>5. /\ Typed(w) /\ w.owner = NoOwner /\ w.eng = b.eng /\ w.maint = 0 /\ w.verify = FALSE
          /\ w.job = NoJob /\ w.ready = ok /\ w.state = st
      BY <1>6, <2>4 DEF Typed, Service, States
    <2> HIDE DEF w
    <2>6. t = [w EXCEPT !.boot = s.boot + 1]
      BY <2>3 DEF w
    <2> QED
      BY <1>5, <2>5, <2>6 DEF Typed, Service
  <1>8. Sound(t)
    BY <1>3, <1>6, <1>7 DEF Sound, Live
  <1> QED
    BY <1>6, <1>7, <1>8 DEF Locked, Live, t

\* An engine that has completed is quiet about everything but its report.
LEMMA CompletedType ==
    ASSUME NEW e \in Engine
    PROVE  /\ Completed(e) \in Engine /\ Completed(e).frozen = e.frozen
           /\ Completed(e).pair = e.pair
  <1> DEFINE g == [e EXCEPT !.st = "complete", !.phase = "none"]
  <1>1. g \in Engine /\ g.frozen = e.frozen /\ g.pair = e.pair
    BY ZenonT(30) DEF Engine, EngineStates
  <1>2. Completed(e) = [g EXCEPT !.out = FALSE]
    BY DEF Completed, Engine
  <1> HIDE DEF g
  <1>3. [g EXCEPT !.out = FALSE] \in Engine
    BY <1>1, ZenonT(30) DEF Engine
  <1>4. [g EXCEPT !.out = FALSE].frozen = g.frozen /\ [g EXCEPT !.out = FALSE].pair = g.pair
    BY <1>1 DEF Engine
  <1> QED
    BY <1>1, <1>2, <1>3, <1>4

\* No step of the engine by itself starts a job that was not armed.
LEMMA EngineStepType ==
    ASSUME NEW e \in Engine, NEW t \in Nat, NEW f,
           \/ f \in EngLead(e)
           \/ \E c \in Clocks : f \in EngLaunch(e, t, c)
           \/ \E c \in Clocks : f \in EngMiss(e, t, c)
           \/ f \in EngFinish(e, t) \/ f \in EngTail(e, t)
           \/ f \in EngFault(e) \/ f \in EngSafetyStop(e)
    PROVE  /\ f \in Engine /\ f.frozen = e.frozen /\ f.pair = e.pair
           /\ Quiet(e) => Quiet(f)
  <1>1. CASE f \in EngLead(e)
    BY <1>1 DEF EngLead, Engine, Quiet
  <1>2. CASE \E c \in Clocks : f \in EngLaunch(e, t, c)
    BY <1>2, ZenonT(30) DEF EngLaunch, Engine, EngineStates, Quiet
  <1>3. CASE \E c \in Clocks : f \in EngMiss(e, t, c)
    BY <1>3, ZenonT(30) DEF EngMiss, Engine, EngineStates, Quiet
  <1>4. CASE f \in EngFinish(e, t)
    <2>1. t + TailHold \in Nat
      BY TxEngineAssumption
    <2>2. e.st = "running"
      BY <1>4 DEF EngFinish
    <2>3. ~Quiet(e)
      BY <2>2 DEF Quiet
    <2>4. CASE HasChain
      <3> DEFINE n == t + TailHold
      <3>1. f = [[e EXCEPT !.phase = "tail"] EXCEPT !.tailEnd = n]
        BY <1>4, <2>4 DEF EngFinish
      <3> HIDE DEF n
      <3>2. n \in Nat
        BY <2>1 DEF n
      <3> DEFINE g == [e EXCEPT !.phase = "tail"]
      <3>3. g \in Engine /\ g.frozen = e.frozen /\ g.pair = e.pair
        BY DEF Engine
      <3> HIDE DEF g
      <3>4. f = [g EXCEPT !.tailEnd = n]
        BY <3>1 DEF g
      <3>5. f \in Engine /\ f.frozen = g.frozen /\ f.pair = g.pair
        BY <3>2, <3>3, <3>4 DEF Engine
      <3> QED
        BY <2>3, <3>3, <3>5
    <2>5. CASE ~HasChain
      <3>1. f = Completed(e)
        BY <1>4, <2>5 DEF EngFinish
      <3> QED
        BY <2>3, <3>1, CompletedType
    <2> QED
      BY <2>4, <2>5
  <1>5. CASE f \in EngTail(e, t)
    <2>1. f = Completed(e) /\ e.st = "running"
      BY <1>5 DEF EngTail
    <2> QED
      BY <2>1, CompletedType DEF Quiet
  <1>6. CASE f \in EngFault(e)
    BY <1>6, ZenonT(30) DEF EngFault, Engine, EngineStates, Quiet
  <1>7. CASE f \in EngSafetyStop(e)
    <2>1. f = [Stopped(e) EXCEPT !.safety = "stopped"]
      BY <1>7 DEF EngSafetyStop
    <2>2. /\ Stopped(e) \in Engine /\ Stopped(e).st = "idle" /\ Stopped(e).out = FALSE
          /\ Stopped(e).frozen = e.frozen /\ Stopped(e).pair = e.pair
      BY StoppedType
    <2> QED
      BY <2>1, <2>2 DEF Engine, Quiet
  <1> QED
    BY <1>1, <1>2, <1>3, <1>4, <1>5, <1>6, <1>7

-------------------------------------------------------------------------------
(* The inductive invariant. *)

IInv ==
    /\ Sound(svc) /\ now \in Nat /\ saved \in Ppbs
    /\ svc.inhibited => Locked(svc)
    /\ Maintenance(svc, now) => Free(svc)

\* Whatever the constructor meets, the service starts sound.
LEMMA InitIInv == Init => IInv
  <1> SUFFICES ASSUME Init PROVE IInv
    OBVIOUS
  <1>1. PICK off \in BOOLEAN, verify \in BOOLEAN : svc = Boot(EngineInit, off, verify)
    BY DEF Init
  <1>2. EngineInit \in Engine /\ ~EngineInit.out /\ Thawed(EngineInit)
    BY DEF EngineInit, Engine, EngineStates, Thawed
  <1>3. /\ Sound(svc) /\ svc.owner = NoOwner /\ svc.state \in {"EMPTY", "FAILED"}
        /\ ~svc.inhibited /\ Quiet(svc.eng)
    BY <1>1, <1>2, BootSound
  <1>4. now \in Nat /\ saved \in Ppbs
    BY TxEngineAssumption DEF Init
  <1> QED
    BY <1>3, <1>4 DEF IInv, Free

\* A step that leaves the modes and the time alone and keeps the service.
LEMMA KeepsIInv ==
    ASSUME IInv, Keeps(svc, svc'), now' = now, saved' = saved
    PROVE  IInv'
  BY DEF IInv, Keeps, Mode, Maintenance

\* The contexts of a request and of poll().
LEMMA ContextType ==
    ASSUME now \in Nat, saved \in Ppbs, NEW o \in BOOLEAN
    PROVE  /\ Off(o) \in Contexts /\ Off(o).now = now
           /\ \A a \in {"ok", "memory", "store"} :
                /\ [Off(o) EXCEPT !.admit = a] \in Contexts
                /\ [Off(o) EXCEPT !.admit = a].now = now
           /\ \A c \in Clocks, st \in StartOutcomes(HasChain) :
                /\ [Off(o) EXCEPT !.clk = c, !.start = st] \in Contexts
                /\ [Off(o) EXCEPT !.clk = c, !.start = st].now = now
  <1> DEFINE clk == CHOOSE c \in Clocks : TRUE
             x == Context
             y == Off(o)
  <1>1. clk \in Clocks
    BY JobServiceAssumption
  <1>2. x = [now |-> now, saved |-> saved, off |-> TRUE, clk |-> clk, start |-> "ok",
             admit |-> "ok"]
    BY DEF Context
  <1> HIDE DEF clk, x
  <1>3. x \in Contexts /\ x.now = now
    BY <1>1, <1>2 DEF Contexts
  <1>4. y = [x EXCEPT !.off = o]
    BY DEF Off, x
  <1> HIDE DEF y
  <1>5. y \in Contexts /\ y.now = now
    BY <1>3, <1>4 DEF Contexts
  <1>6. StartOutcomes(HasChain) \subseteq {"ok", "refuse", "fault", "early"}
    BY DEF StartOutcomes
  <1>7. ASSUME NEW a \in {"ok", "memory", "store"}
        PROVE  [y EXCEPT !.admit = a] \in Contexts /\ [y EXCEPT !.admit = a].now = now
    BY <1>5 DEF Contexts
  <1>8. ASSUME NEW c \in Clocks, NEW st \in StartOutcomes(HasChain)
        PROVE  /\ [y EXCEPT !.clk = c, !.start = st] \in Contexts
               /\ [y EXCEPT !.clk = c, !.start = st].now = now
    BY <1>5, <1>6 DEF Contexts
  <1> QED
    BY <1>5, <1>7, <1>8 DEF y

\* A request r of the sender from, with a body of its operation's kind, that
\* the service handles in the context x.
Serves(from, r, x) ==
    /\ WellFormed(r) /\ x.now = now
    /\ r.session = from.session /\ r.principal = from.principal
    /\ svc' = HandleOwned(svc, r, x).s
    /\ last' = [op |-> r.op, err |-> HandleOwned(svc, r, x).reply.err, from |-> from]
    /\ UNCHANGED <<now, saved>>

\* A request of the next-state relation is a well-formed one, in a typed context.
LEMMA RequestServes ==
    ASSUME NEW op \in Ops, NEW from \in Senders, NEW body \in Bodies,
           op \in {"CLAIM", "RENEW"} => body \in [owner: OwnerIds, lease: Leases],
           op = "LOAD" => body \in [job: Jobs, full: BOOLEAN],
           op = "ARM" => body \in [job: JobIds, arm: ArmBodies],
           NEW x \in Contexts, x.now = now, Request(op, from, body, x)
    PROVE  \E r : Serves(from, r, x)
  <1> DEFINE r == [op |-> op, session |-> from.session, principal |-> from.principal,
                   id |-> from.id, body |-> body]
             d == HandleOwned(svc, r, x)
  <1>1. /\ svc' = d.s /\ last' = [op |-> r.op, err |-> d.reply.err, from |-> from]
        /\ UNCHANGED <<now, saved>>
    BY DEF Request
  <1>2. WellFormed(r)
    <2>1. /\ from.session \in SessionIds /\ from.principal \in Principals
          /\ from.id \in RequestIds \cup {NoRequestId}
      BY DEF Senders
    <2> QED
      BY <2>1 DEF WellFormed
  <1>3. r.session = from.session /\ r.principal = from.principal
    OBVIOUS
  <1> HIDE DEF r
  <1> QED
    BY <1>1, <1>2, <1>3 DEF Serves

\* A request of any operation is one call of handle_owned.
LEMMA RequestsCases ==
    ASSUME now \in Nat, saved \in Ppbs, Requests
    PROVE  \E r : \E from \in Senders, x \in Contexts : Serves(from, r, x)
  <1>1. PICK from \in Senders :
          \/ Hello(from) \/ Status(from) \/ Claim(from) \/ Renew(from) \/ Release(from)
          \/ Load(from) \/ Arm(from) \/ Abort(from)
    BY DEF Requests, RequestOf
  <1>2. \A o \in Confirms : o \in BOOLEAN
    BY DEF Confirms
  <1>4. \A o \in Confirms : Off(o) \in Contexts /\ Off(o).now = now
    BY <1>2, ContextType
  <1>5. Ops = {"HELLO", "STATUS", "CLAIM", "RENEW", "RELEASE", "LOAD", "ARM", "ABORT"}
    BY DEF Ops
  <1>6. NoBody \in Bodies
    BY DEF Bodies
  <1>7. CASE Hello(from)
    BY <1>4, <1>5, <1>6, <1>7, RequestServes DEF Hello
  <1>8. CASE Status(from)
    BY <1>4, <1>5, <1>6, <1>8, RequestServes DEF Status
  <1>9. CASE Release(from)
    BY <1>4, <1>5, <1>6, <1>9, RequestServes DEF Release
  <1>10. \A i \in OwnerIds, n \in Leases :
           /\ [owner |-> i, lease |-> n] \in [owner: OwnerIds, lease: Leases]
           /\ [owner |-> i, lease |-> n] \in Bodies
    BY DEF Bodies
  <1>11. CASE Claim(from)
    BY <1>4, <1>5, <1>10, <1>11, RequestServes DEF Claim
  <1>12. CASE Renew(from)
    BY <1>4, <1>5, <1>10, <1>12, RequestServes DEF Renew
  <1>13. CASE Load(from)
    <2>1. PICK j \in Jobs, o \in Confirms, full \in BOOLEAN, a \in {"ok", "memory", "store"} :
            Request("LOAD", from, [job |-> j, full |-> full], [Off(o) EXCEPT !.admit = a])
      BY <1>13 DEF Load
    <2> DEFINE x == [Off(o) EXCEPT !.admit = a]
               body == [job |-> j, full |-> full]
    <2>2. x \in Contexts /\ x.now = now
      BY <1>2, ContextType
    <2>3. body \in [job: Jobs, full: BOOLEAN]
      OBVIOUS
    <2>4. body \in Bodies
      BY <2>3 DEF Bodies
    <2>5. Request("LOAD", from, body, x)
      BY <2>1
    <2> HIDE DEF x, body
    <2> QED
      BY <1>5, <2>2, <2>3, <2>4, <2>5, RequestServes
  <1>14. CASE Arm(from)
    <2>1. PICK i \in JobIds, b \in ArmBodies, o \in Confirms, c \in Clocks, st \in StartOutcomes(HasChain) :
            Request("ARM", from, [job |-> i, arm |-> b], Starting(o, c, st))
      BY <1>14 DEF Arm
    <2>2. Starting(o, c, st) \in Contexts /\ Starting(o, c, st).now = now
      BY <1>2, ContextType DEF Starting
    <2>3. [job |-> i, arm |-> b] \in [job: JobIds, arm: ArmBodies]
      OBVIOUS
    <2>4. [job |-> i, arm |-> b] \in Bodies
      BY <2>3 DEF Bodies
    <2> QED
      BY <1>5, <2>1, <2>2, <2>3, <2>4, RequestServes
  <1>15. CASE Abort(from)
    <2>1. PICK i \in JobIds, o \in Confirms : Request("ABORT", from, [job |-> i], Off(o))
      BY <1>15 DEF Abort
    <2>2. [job |-> i] \in Bodies
      BY DEF Bodies
    <2> QED
      BY <1>4, <1>5, <2>1, <2>2, RequestServes
  <1> QED
    BY <1>1, <1>7, <1>8, <1>9, <1>11, <1>12, <1>13, <1>14, <1>15

\* Every request action.
LEMMA RequestsIInv == ASSUME IInv, Requests PROVE IInv'
  <1>1. PICK r : \E from \in Senders, x \in Contexts : Serves(from, r, x)
    BY RequestsCases DEF IInv
  <1>2. PICK from \in Senders, x \in Contexts : Serves(from, r, x)
    BY <1>1
  <1>3. Handled(svc, HandleOwned(svc, r, x), now)
    BY <1>2, HandleOwnedHandled DEF IInv, Serves
  <1> QED
    BY <1>2, <1>3 DEF Serves, IInv, Handled, Mode, Maintenance

\* poll() meets a well-formed context.
LEMMA PollContextType ==
    ASSUME IInv, NEW x \in PollContexts
    PROVE  x \in Contexts /\ x.now = now
  <1>1. \A o \in Confirms : o \in BOOLEAN
    BY DEF Confirms
  <1>2. now \in Nat /\ saved \in Ppbs
    BY DEF IInv
  <1>3. CASE Local
    <2>1. PollContexts = {Off(o) : o \in Confirms}
      BY <1>3 DEF PollContexts
    <2>2. PICK o \in Confirms : x = Off(o)
      BY <2>1
    <2> QED
      BY <1>1, <1>2, <2>2, ContextType
  <1>4. CASE ~Local
    <2>1. PICK o \in Confirms, c \in Clocks, st \in StartOutcomes(HasChain) : x = Starting(o, c, st)
      BY <1>4, SMT DEF PollContexts
    <2> QED
      BY <1>1, <1>2, <2>1, ContextType DEF Starting
  <1> QED
    BY <1>3, <1>4

\* Maintenance and verification begin and end only around a free transmitter.
LEMMA UpkeepIInv == ASSUME IInv, Upkeep PROVE IInv'
  <1>1. CASE BeginMaintenance
    <2> DEFINE n == now + MaintenanceHold
               t == [svc EXCEPT !.maint = n]
    <2>1. n \in Nat
      BY JobServiceAssumption DEF IInv
    <2>2. svc' = t /\ now' = now /\ saved' = saved
      BY <1>1 DEF BeginMaintenance
    <2>3. svc.owner = NoOwner /\ svc.state = "EMPTY" /\ ~svc.inhibited
      BY <1>1 DEF BeginMaintenance, MayBeginMaintenance
    <2> HIDE DEF n
    <2>4. /\ Typed(t) /\ t.state = svc.state /\ t.owner = svc.owner /\ t.job = svc.job
          /\ t.arm = svc.arm /\ t.eng = svc.eng /\ t.ready = svc.ready
          /\ t.inhibited = svc.inhibited
      BY <2>1 DEF IInv, Sound, Typed, Service
    <2> HIDE DEF t
    <2>5. Sound(t) /\ Free(t)
      BY <2>3, <2>4 DEF IInv, Sound, Free
    <2> QED
      BY <2>2, <2>3, <2>4, <2>5 DEF IInv
  <1>2. CASE EndMaintenance \/ FinishVerification
    <2>1. PICK v \in BOOLEAN : /\ svc' = [svc EXCEPT !.maint = 0, !.verify = v]
                               /\ v => svc.verify
      <3>1. svc.verify \in BOOLEAN /\ svc = [svc EXCEPT !.verify = svc.verify]
        BY DEF IInv, Sound, Typed, Service
      <3>2. CASE EndMaintenance
        BY <3>1, <3>2 DEF EndMaintenance
      <3>3. CASE FinishVerification
        <4>1. svc' = [svc EXCEPT !.maint = 0, !.verify = FALSE]
          BY <3>3 DEF FinishVerification
        <4> QED
          BY <4>1
      <3> QED
        BY <1>2, <3>2, <3>3
    <2>2. now' = now /\ saved' = saved
      BY <1>2 DEF EndMaintenance, FinishVerification
    <2> DEFINE t == svc'
    <2>3. /\ Typed(t) /\ t.state = svc.state /\ t.owner = svc.owner /\ t.job = svc.job
          /\ t.arm = svc.arm /\ t.eng = svc.eng /\ t.ready = svc.ready
          /\ t.inhibited = svc.inhibited /\ t.maint = 0 /\ t.verify = v
      BY <2>1 DEF IInv, Sound, Typed, Service
    <2> HIDE DEF t
    <2>4. Sound(t) /\ (Free(svc) => Free(t)) /\ (Locked(svc) => Locked(t))
      BY <2>3 DEF IInv, Sound, Free, Locked
    <2>5. Maintenance(t, now) => Maintenance(svc, now)
      BY <2>1, <2>3 DEF Maintenance, IInv
    <2> QED
      BY <2>2, <2>3, <2>4, <2>5 DEF IInv, t
  <1> QED
    BY <1>1, <1>2 DEF Upkeep

\* The calibration of a pair is frozen for an owner only.
LEMMA FreezePairIInv == ASSUME IInv, FreezePair PROVE IInv'
  <1>1. PICK freeze \in BOOLEAN :
          /\ freeze => svc.owner # NoOwner
          /\ svc' = [svc EXCEPT !.eng = FreezePairCalibration(svc.eng, freeze)]
          /\ now' = now /\ saved' = saved
    BY DEF FreezePair
  <1> DEFINE f == FreezePairCalibration(svc.eng, freeze)
             t == [svc EXCEPT !.eng = f]
  <1>2. svc.eng \in Engine
    BY DEF IInv, Sound, Typed, Service
  <1>3. /\ f \in Engine /\ f.frozen = svc.eng.frozen /\ f.pair = freeze
        /\ f.st = svc.eng.st /\ f.out = svc.eng.out
    BY <1>2 DEF FreezePairCalibration, Engine
  <1>4. svc' = t
    BY <1>1
  <1> HIDE DEF f
  <1>5. /\ Typed(t) /\ Mode(t) = Mode(svc) /\ t.state = svc.state /\ t.owner = svc.owner
        /\ t.job = svc.job /\ t.arm = svc.arm /\ t.eng = f /\ t.ready = svc.ready
    BY <1>3 DEF IInv, Sound, Typed, Service, Mode
  <1> HIDE DEF t
  <1>6. Quiet(svc.eng) => Quiet(f)
    BY <1>3 DEF Quiet
  <1>7. Sound(t)
    BY <1>1, <1>3, <1>5, <1>6 DEF IInv, Sound, Thawed
  <1>8. Keeps(svc, t)
    BY <1>5, <1>6, <1>7 DEF Keeps, Locked, Free
  <1> QED
    BY <1>1, <1>4, <1>8, KeepsIInv

\* A step of the engine by itself, whichever it is.
LEMMA EngineIInv == ASSUME IInv, Engine1 PROVE IInv'
  <1>1. PICK f : /\ \/ f \in EngLead(svc.eng)
                    \/ \E c \in Clocks : f \in EngLaunch(svc.eng, now, c)
                    \/ \E c \in Clocks : f \in EngMiss(svc.eng, now, c)
                    \/ f \in EngFinish(svc.eng, now) \/ f \in EngTail(svc.eng, now)
                    \/ f \in EngFault(svc.eng) \/ f \in EngSafetyStop(svc.eng)
                 /\ svc' = [svc EXCEPT !.eng = f] /\ now' = now /\ saved' = saved
    BY DEF Engine1, EngineLead, EngineLaunch, EngineMiss, EngineFinish, EngineTail, EngineFault,
           EngineSafetyStop, EngineStep
  <1>2. Sound(svc) /\ svc.eng \in Engine /\ now \in Nat
    BY DEF IInv, Sound, Typed, Service
  <1>3. /\ f \in Engine /\ f.frozen = svc.eng.frozen /\ f.pair = svc.eng.pair
        /\ Quiet(svc.eng) => Quiet(f)
    BY <1>1, <1>2, EngineStepType
  <1>4. Keeps(svc, [svc EXCEPT !.eng = f])
    BY <1>2, <1>3, EngineKeeps
  <1> QED
    BY <1>1, <1>4, KeepsIInv

\* Every step keeps the invariant: one case for each action.
LEMMA NextIInv == IInv /\ [Next]_vars => IInv'
  <1> SUFFICES ASSUME IInv, [Next]_vars PROVE IInv'
    OBVIOUS
  <1>1. CASE Requests
    BY <1>1, RequestsIInv
  <1>2. CASE Poll
    <2>1. PICK x \in PollContexts : svc' = PollService(svc, x)
      BY <1>2 DEF Poll
    <2>2. Keeps(svc, svc')
      BY <2>1, PollContextType, PollServiceKeeps DEF IInv
    <2> QED
      BY <1>2, <2>2, KeepsIInv DEF Poll
  <1>3. CASE LocalAbort
    <2>1. PICK x \in PollContexts : svc' = LocalAbortOf(svc, [op |-> "LOCAL_ABORT"], x).s
      BY <1>3 DEF LocalAbort
    <2>2. Keeps(svc, svc')
      BY <2>1, PollContextType, LocalAbortKeeps DEF IInv
    <2> QED
      BY <1>3, <2>2, KeepsIInv DEF LocalAbort
  <1>4. CASE LocalInhibit
    <2>1. PICK x \in PollContexts, off2 \in BOOLEAN :
            svc' = LocalInhibitOf(svc, [op |-> "INHIBIT"], x, off2).s
      BY <1>4 DEF LocalInhibit
    <2>2. /\ Sound(svc') /\ Locked(svc') /\ (Free(svc) => Free(svc'))
          /\ svc'.maint = svc.maint /\ svc'.verify = svc.verify
      BY <2>1, PollContextType, LocalInhibitSound DEF IInv
    <2>3. now' = now /\ saved' = saved
      BY <1>4 DEF LocalInhibit
    <2> QED
      BY <2>2, <2>3 DEF IInv, Maintenance
  <1>5. CASE Upkeep
    BY <1>5, UpkeepIInv
  <1>6. CASE FreezePair
    BY <1>6, FreezePairIInv
  <1>7. CASE Reset
    <2>1. PICK off \in BOOLEAN, fresh \in BOOLEAN : svc' = ResetOf(svc, off, fresh)
      BY <1>7 DEF Reset
    <2>2. Sound(svc') /\ Locked(svc') /\ svc'.maint = 0 /\ ~svc'.verify
      BY <2>1, ResetSound DEF IInv
    <2>3. now' = now /\ saved' = saved
      BY <1>7 DEF Reset
    <2> QED
      BY <2>2, <2>3 DEF IInv, Maintenance
  <1>8. CASE SaveCorrection
    BY <1>8 DEF SaveCorrection, IInv
  <1>9. CASE Tick
    <2>1. svc' = svc /\ saved' = saved /\ now' = now + 1 /\ svc.maint \in Nat
      BY <1>9 DEF Tick, IInv, Sound, Typed, Service
    <2> QED
      BY <2>1 DEF IInv, Maintenance
  <1>10. CASE Engine1
    BY <1>10, EngineIInv
  <1>11. CASE UNCHANGED vars
    BY <1>11 DEF vars, IInv
  <1> QED
    BY <1>1, <1>2, <1>3, <1>4, <1>5, <1>6, <1>7, <1>8, <1>9, <1>10, <1>11 DEF Next

\* The service stays sound whatever requests, polls, controls, resets and
\* engine steps follow each other.
THEOREM Soundness == Spec => []IInv
  BY InitIInv, NextIInv, PTL DEF Spec

\* Every member keeps its type, and a live job has its job and arm records.
THEOREM TypeCorrect == Spec => []TypeOK
  <1>1. IInv => TypeOK
    BY DEF IInv, Sound, Typed, TypeOK, Live
  <1> QED
    BY <1>1, Soundness, PTL

\* RF is on only in a state that says so.
THEOREM OutputAuthorized == Spec => []OutputAuthority
  <1>1. IInv => OutputAuthority
    BY DEF IInv, Sound, Quiet, OutputAuthority
  <1> QED
    BY <1>1, Soundness, PTL

\* Whatever becomes of its lease, a live job has an owner.
THEOREM ExecutionOwned == Spec => []OwnedExecution
  <1>1. IInv => OwnedExecution
    BY DEF IInv, Sound, OwnedExecution
  <1> QED
    BY <1>1, Soundness, PTL

\* Nothing of a frozen calibration outlives the ownership.
THEOREM CalibrationEnds == Spec => []CalibrationReleased
  <1>1. IInv => CalibrationReleased
    BY DEF IInv, Sound, Thawed, CalibrationReleased
  <1> QED
    BY <1>1, Soundness, PTL

\* Behind the interlock nothing is left to execute.
THEOREM InhibitHolds == Spec => []InhibitLatched
  <1>1. IInv => InhibitLatched
    BY DEF IInv, Locked, InhibitLatched
  <1> QED
    BY <1>1, Soundness, PTL

\* Maintenance and update verification have the transmitter to themselves.
THEOREM MaintenanceAlone == Spec => []MaintenanceExclusive
  <1>1. IInv => MaintenanceExclusive
    BY DEF IInv, Free, Quiet, MaintenanceExclusive
  <1> QED
    BY <1>1, Soundness, PTL

\* Output behind a state that says so, an owner behind every live job, no
\* calibration without its owner (poll and expire_resources, job_service.cpp:614,
\* 989).
THEOREM AuthorityHeld == Spec => []JobAuthority
  BY OutputAuthorized, ExecutionOwned, CalibrationEnds, PTL DEF JobAuthority

\* The interlock and maintenance leave nobody with authority
\* (begin_maintenance and local_inhibit_output, job_service.cpp:575, 602).
THEOREM InterlockHolds == Spec => []Interlocked
  BY InhibitHolds, MaintenanceAlone, PTL DEF Interlocked
===============================================================================
