--------------------------- MODULE SchedulerProofs ----------------------------
(***************************************************************************)
(* The standalone scheduler transmits no start twice and stays where it    *)
(* was left, whatever its schedules, networks and hardware settings, and   *)
(* whatever writes, calls, clocks and restarts do in between.              *)
(*                                                                         *)
(* A call of the scheduler is an operator on a world, and so is the        *)
(* invariant: Held says what is true of the job that the scheduler has out *)
(* (Owned), of the pair of frames it is in (Paired), of the records in     *)
(* memory and on flash (Stored) and of the settings that await a restart   *)
(* (Settled), where l is the last start that went out. Each operator is    *)
(* shown to keep the parts it disturbs.                                    *)
(***************************************************************************)
EXTENDS Scheduler, WellFoundedInduction, TLAPS

\* The configuration.
Cfgs == [enabled: BOOLEAN, dial: BOOLEAN, hw: Hardware \cup {FactoryHardware},
         net: Networks \cup {-1}]

\* The record of the store.
Recs == [cfg: Cfgs, msg: {"none", "paused", "enabled"}, mark: Int, flight: BOOLEAN, lastMsg: Int]

\* The kinds of job.
Kinds == {"none", "wspr", "msg", "other"}

\* The job service.
Svcs == [owner: {"none", "local", "other"}, release: BOOLEAN,
         state: {"EMPTY", "LOADED", "ARMED", "RUNNING", "COMPLETE", "ABORTED", "MISSED", "FAILED"},
         job: [kind: Kinds, slot: Int], at: Int, out: BOOLEAN, inhibited: BOOLEAN,
         maint: BOOLEAN, record: {"none", "complete", "bad"}]

\* The scheduler.
Schs == [suspended: BOOLEAN, pause: BOOLEAN, recovery: BOOLEAN,
         pair: [frame: {"none", "first", "second"}, second: Int, off: Int, stale: BOOLEAN],
         msgJob: Int, lastJob: Int, reboot: BOOLEAN, pins: BOOLEAN, external: BOOLEAN,
         hwFailed: BOOLEAN,
         boot: [hw: Hardware \cup {FactoryHardware}, net: Networks \cup {-1}]]

\* All of it.
Worlds == [svc: Svcs, ram: [ok: BOOLEAN, data: Recs], disk: Recs, sch: Schs]

\* The service s has a job of the scheduler armed or on the air.
Out(s) == s.job.kind \in {"wspr", "msg"} /\ s.state \in Executing

\* A record that Store::load accepts.
Fits(d) == /\ ~(d.cfg.enabled /\ d.msg = "enabled")
           /\ d.lastMsg \in 0..d.mark
           /\ d.flight => d.lastMsg = d.mark

\* A healthy store has in memory what is on flash; no start is beyond the mark.
Stored(w, l) ==
    /\ w.ram.ok => w.ram.data = w.disk
    /\ Fits(w.ram.data) /\ Fits(w.disk)
    /\ l \in Nat /\ l <= w.disk.mark

\* The scheduler's job is its own, is not a repetition, is reserved, and is the one
\* the scheduler remembers. One that ran is the last start.
Owned(w, l) ==
    /\ Out(w.svc) =>
        /\ w.svc.owner = "local" /\ w.svc.record = "none"
        /\ w.svc.job \in {Job("wspr", w.sch.lastJob), Job("msg", w.sch.msgJob)}
        /\ w.svc.job.slot <= w.disk.mark
        /\ w.svc.state = "ARMED" => w.svc.job.slot > l
        /\ w.svc.job.kind = "msg" => w.disk.flight /\ w.disk.lastMsg = w.svc.job.slot
        /\ ~w.sch.suspended
    /\ w.svc.state \in Executing => w.svc.job.kind # "none"
    /\ w.svc.state \in {"RUNNING", "COMPLETE"} /\ w.svc.job.kind \in {"wspr", "msg"} =>
        l = w.svc.job.slot

\* The frames of a pair are a slot apart, and both are reserved before the first.
Paired(w, l) ==
    /\ w.sch.pair.frame # "none" =>
        /\ w.sch.pair.second <= w.disk.mark
        /\ Out(w.svc) => w.svc.job = Job("wspr", w.sch.lastJob)
    /\ w.sch.pair.frame = "first" =>
        w.sch.pair.second = w.sch.lastJob + SlotDuration /\ l <= w.sch.lastJob
    /\ w.sch.pair.frame = "second" =>
        /\ w.sch.pair.second = w.sch.lastJob
        /\ Out(w.svc) => l >= w.sch.pair.second - SlotDuration

\* Hardware settings that differ from those of this boot hold the outputs until
\* the restart.
Settled(w) ==
    /\ w.ram.data.cfg.hw # w.sch.boot.hw => w.sch.pins
    /\ w.sch.pins => w.sch.reboot
    /\ Out(w.svc) => w.ram.data.cfg.hw = w.sch.boot.hw

\* What every call keeps but for the settings that CONFIG changes.
Core(w, l) == w \in Worlds /\ Stored(w, l) /\ Owned(w, l) /\ Paired(w, l)

\* What every call keeps.
Held(w, l) == Core(w, l) /\ Settled(w)

\* The inductive invariant.
Sound == Held(World, last) /\ off \in Nat /\ now \in Nat /\ synced \in BOOLEAN

-------------------------------------------------------------------------------
(* The calls of the job service. *)

\* The call leaves the job alone or ends it, or the service holds none that runs.
Calms(s, t) ==
    \/ /\ t.state = s.state /\ t.job = s.job
       /\ (t.record = s.record /\ t.owner = s.owner) \/ ~Out(s)
    \/ t.state \notin {"ARMED", "RUNNING", "COMPLETE"}
    \/ s.state = "RUNNING" /\ t.state = "COMPLETE" /\ t.job = s.job

\* Only the service differs.
ByService(w, v) == v \in Worlds /\ v.ram = w.ram /\ v.disk = w.disk /\ v.sch = w.sch

\* What leaves the job alone or ends it keeps the invariant.
LEMMA CalmHeld ==
    ASSUME NEW w, NEW v, NEW l, Held(w, l), ByService(w, v), Calms(w.svc, v.svc)
    PROVE  Held(v, l)
<1>1. Out(v.svc) => /\ Out(w.svc) /\ v.svc.job = w.svc.job /\ v.svc.record = w.svc.record
                    /\ v.svc.owner = w.svc.owner /\ v.svc.state = w.svc.state
  BY DEF Calms, Out, Executing
<1>2. v \in Worlds /\ v.ram = w.ram /\ v.disk = w.disk /\ v.sch = w.sch
  BY DEF ByService
<1>3. Stored(v, l)
  BY <1>2 DEF Held, Core, Stored
<1>4. Owned(v, l)
  <2>1. Out(v.svc) =>
          /\ v.svc.owner = "local" /\ v.svc.record = "none"
          /\ v.svc.job \in {Job("wspr", v.sch.lastJob), Job("msg", v.sch.msgJob)}
          /\ v.svc.job.slot <= v.disk.mark
          /\ v.svc.state = "ARMED" => v.svc.job.slot > l
          /\ v.svc.job.kind = "msg" => v.disk.flight /\ v.disk.lastMsg = v.svc.job.slot
          /\ ~v.sch.suspended
    BY <1>1, <1>2 DEF Held, Core, Owned
  <2>2. v.svc.state \in Executing => v.svc.job.kind # "none"
    BY DEF Held, Core, Owned, Calms, Executing
  <2>3. v.svc.state \in {"RUNNING", "COMPLETE"} /\ v.svc.job.kind \in {"wspr", "msg"} =>
          l = v.svc.job.slot
    BY DEF Held, Core, Owned, Calms
  <2> QED
    BY <2>1, <2>2, <2>3 DEF Owned
<1>5. Paired(v, l)
  BY <1>1, <1>2 DEF Held, Core, Paired
<1>6. Settled(v)
  BY <1>1, <1>2 DEF Held, Settled
<1> QED
  BY <1>2, <1>3, <1>4, <1>5, <1>6 DEF Held, Core

\* The fields of a world.
LEMMA WorldFields ==
    ASSUME NEW w \in Worlds
    PROVE  /\ w.svc \in Svcs /\ w.ram.ok \in BOOLEAN /\ w.ram.data \in Recs /\ w.disk \in Recs
           /\ w.sch \in Schs /\ w.ram \in [ok: BOOLEAN, data: Recs]
BY DEF Worlds

\* A world with another service.
LEMMA WithService ==
    ASSUME NEW w \in Worlds, NEW s \in Svcs
    PROVE  ByService(w, [w EXCEPT !.svc = s]) /\ [w EXCEPT !.svc = s].svc = s
BY DEF Worlds, ByService

\* HELLO and CLAIM change the owner of a free service only.
LEMMA ClaimDoes ==
    ASSUME NEW w \in Worlds, NEW f
    PROVE  /\ ByService(w, Claim(w, f)) /\ Claim(w, f) \in Worlds
           /\ Claim(w, f).svc.state = w.svc.state /\ Claim(w, f).svc.job = w.svc.job
           /\ Claim(w, f).svc.record = w.svc.record
           /\ Claim(w, f).svc.owner \in {w.svc.owner, "local"}
           /\ Claim(w, f).svc.owner = w.svc.owner \/ w.svc.owner = "none"
<1>1. w.svc \in Svcs
  BY WorldFields
<1> DEFINE s == [w.svc EXCEPT !.owner = "local", !.release = FALSE]
<1>2. /\ s \in Svcs /\ s.state = w.svc.state /\ s.job = w.svc.job /\ s.record = w.svc.record
      /\ s.owner = "local"
  BY <1>1 DEF Svcs
<1>3. Claim(w, f) = w \/ (w.svc.owner = "none" /\ Claim(w, f) = [w EXCEPT !.svc = s])
  BY DEF Claim, Worlds
<1> HIDE DEF s
<1>4. CASE Claim(w, f) = w
  BY <1>4 DEF ByService
<1>5. CASE w.svc.owner = "none" /\ Claim(w, f) = [w EXCEPT !.svc = s]
  BY <1>2, <1>5, WithService DEF ByService
<1> QED
  BY <1>3, <1>4, <1>5

\* RELEASE empties a service whose job does not run.
LEMMA ReleaseDoes ==
    ASSUME NEW w \in Worlds, NEW f
    PROVE  /\ ByService(w, Release(w, f)) /\ Release(w, f) \in Worlds
           /\ \/ Release(w, f) = w
              \/ w.svc.state \notin Executing /\ Release(w, f).svc.state = "EMPTY"
<1>1. w.svc \in Svcs
  BY WorldFields
<1>2. Cleared(w.svc) \in Svcs /\ Cleared(w.svc).state = "EMPTY"
  <2>1. NoJob \in [kind: Kinds, slot: Int]
    BY DEF NoJob, Kinds
  <2> QED
    BY <1>1, <2>1 DEF Svcs, Cleared
<1>3. Release(w, f) = w \/ (w.svc.state \notin Executing /\ Release(w, f) = [w EXCEPT !.svc = Cleared(w.svc)])
  BY DEF Release, Worlds
<1>4. CASE Release(w, f) = w
  BY <1>4 DEF ByService
<1>5. CASE w.svc.state \notin Executing /\ Release(w, f) = [w EXCEPT !.svc = Cleared(w.svc)]
  BY <1>2, <1>5, WithService DEF ByService
<1> QED
  BY <1>3, <1>4, <1>5

\* ABORT ends the job, confirmed or not.
LEMMA AbortDoes ==
    ASSUME NEW w \in Worlds, NEW f
    PROVE  /\ ByService(w, Abort(w, f)) /\ Abort(w, f) \in Worlds
           /\ Abort(w, f).svc.state \in {"FAILED", "ABORTED"}
<1>1. w.svc \in Svcs
  BY WorldFields
<1>2. ASSUME NEW st \in {"FAILED", "ABORTED"}, NEW out \in BOOLEAN
      PROVE  /\ Ended(Recorded(w.svc, "bad"), st, out) \in Svcs
             /\ Ended(Recorded(w.svc, "bad"), st, out).state = st
  <2>1. Recorded(w.svc, "bad") \in Svcs
    BY <1>1 DEF Svcs, Recorded
  <2> QED
    BY <2>1 DEF Svcs, Ended
<1>3. \E st \in {"FAILED", "ABORTED"}, out \in BOOLEAN :
        Abort(w, f) = [w EXCEPT !.svc = Ended(Recorded(w.svc, "bad"), st, out)]
  BY DEF Abort, Worlds
<1>4. PICK st \in {"FAILED", "ABORTED"}, out \in BOOLEAN :
        Abort(w, f) = [w EXCEPT !.svc = Ended(Recorded(w.svc, "bad"), st, out)]
  BY <1>3
<1> DEFINE s == Ended(Recorded(w.svc, "bad"), st, out)
<1>5. s \in Svcs /\ s.state = st
  BY <1>2
<1>6. Abort(w, f) = [w EXCEPT !.svc = s]
  BY <1>4
<1> HIDE DEF s
<1> QED
  BY <1>5, <1>6, WithService DEF ByService

\* LOAD and ARM replace a job that does not run, and only for the owner.
LEMMA LoadArmDoes ==
    ASSUME NEW w \in Worlds, NEW f, NEW job \in [kind: Kinds, slot: Int], off \in Nat
    PROVE  /\ ByService(w, LoadArm(w, job, f)) /\ LoadArm(w, job, f) \in Worlds
           /\ \/ LoadArm(w, job, f) = w
              \/ LoadArm(w, job, f).svc.state \in {"LOADED", "FAILED"}
              \/ /\ w.svc.owner = "local" /\ w.svc.state \notin Executing
                 /\ LoadArm(w, job, f).svc.state = "ARMED"
                 /\ LoadArm(w, job, f).svc.job = job
                 /\ LoadArm(w, job, f).svc.owner = "local"
                 /\ LoadArm(w, job, f).svc.record = "none"
<1>1. w.svc \in Svcs
  BY WorldFields
<1> DEFINE s1 == [w.svc EXCEPT !.job = job, !.state = "LOADED"]
           s2 == [w.svc EXCEPT !.job = job, !.state = "FAILED"]
           s3 == [w.svc EXCEPT !.job = job, !.state = "ARMED", !.at = job.slot - off,
                               !.record = "none"]
<1>2. s1 \in Svcs /\ s1.state = "LOADED"
  BY <1>1 DEF Svcs
<1>3. s2 \in Svcs /\ s2.state = "FAILED"
  BY <1>1 DEF Svcs
<1>4. /\ s3 \in Svcs /\ s3.state = "ARMED" /\ s3.job = job /\ s3.record = "none"
      /\ s3.owner = w.svc.owner
  <2>1. job.slot - off \in Int
    OBVIOUS
  <2> QED
    BY <1>1, <2>1 DEF Svcs
<1>5. \/ LoadArm(w, job, f) = w
      \/ LoadArm(w, job, f) = [w EXCEPT !.svc = s1]
      \/ LoadArm(w, job, f) = [w EXCEPT !.svc = s2]
      \/ /\ LoadArm(w, job, f) = [w EXCEPT !.svc = s3]
         /\ w.svc.owner = "local" /\ w.svc.state \notin Executing
  BY DEF LoadArm, Worlds
<1> HIDE DEF s1, s2, s3
<1>6. CASE LoadArm(w, job, f) = w
  BY <1>6 DEF ByService
<1>7. CASE LoadArm(w, job, f) = [w EXCEPT !.svc = s1]
  BY <1>2, <1>7, WithService DEF ByService
<1>8. CASE LoadArm(w, job, f) = [w EXCEPT !.svc = s2]
  BY <1>3, <1>8, WithService DEF ByService
<1>9. CASE /\ LoadArm(w, job, f) = [w EXCEPT !.svc = s3]
           /\ w.svc.owner = "local" /\ w.svc.state \notin Executing
  BY <1>4, <1>9, WithService DEF ByService
<1> QED
  BY <1>5, <1>6, <1>7, <1>8, <1>9

\* Claims, releases and aborts keep the invariant.
LEMMA CallsHeld ==
    ASSUME NEW w, NEW l, Held(w, l), NEW f
    PROVE  Held(Claim(w, f), l) /\ Held(Release(w, f), l) /\ Held(Abort(w, f), l)
<1>1. w \in Worlds
  BY DEF Held, Core
<1>2. Held(Claim(w, f), l)
  <2>1. Calms(w.svc, Claim(w, f).svc)
    BY <1>1, ClaimDoes DEF Calms, Held, Core, Owned
  <2> QED
    BY <1>1, <2>1, ClaimDoes, CalmHeld
<1>3. Held(Release(w, f), l)
  <2>1. Calms(w.svc, Release(w, f).svc)
    BY <1>1, ReleaseDoes DEF Calms
  <2> QED
    BY <1>1, <2>1, ReleaseDoes, CalmHeld
<1>4. Held(Abort(w, f), l)
  <2>1. Calms(w.svc, Abort(w, f).svc)
    BY <1>1, AbortDoes DEF Calms
  <2> QED
    BY <1>1, <2>1, AbortDoes, CalmHeld
<1> QED
  BY <1>2, <1>3, <1>4

-------------------------------------------------------------------------------
(* Writes to the store. *)

\* The scheduler is as it was, but for what the store tells a pair.
SameSch(r, s) ==
    /\ s \in Schs
    /\ s.suspended = r.suspended /\ s.msgJob = r.msgJob /\ s.lastJob = r.lastJob
    /\ s.pair.frame = r.pair.frame /\ s.pair.second = r.pair.second
    /\ s.reboot = r.reboot /\ s.pins = r.pins /\ s.boot = r.boot
    /\ s.external = r.external /\ s.pause = r.pause

\* v is w after an append of next, done or failed.
Appends(w, v, next) ==
    /\ v \in Worlds /\ v.svc = w.svc /\ SameSch(w.sch, v.sch)
    /\ \/ v.ram.ok /\ v.ram.data = next /\ v.disk = next
       \/ ~v.ram.ok /\ v.ram.data = w.ram.data /\ v.disk \in {w.disk, next}

\* A failed append leaves the old or the new record on flash, and a sick store.
LEMMA AppendDoes ==
    ASSUME NEW w \in Worlds, w.ram.ok, NEW next \in Recs, NEW o, NEW n, NEW f
    PROVE  Appends(w, Append(w, next, o, n, f), next) /\ Append(w, next, o, n, f).sch = w.sch
<1>1. /\ w.svc \in Svcs /\ w.ram.ok \in BOOLEAN /\ w.ram.data \in Recs /\ w.disk \in Recs
      /\ w.sch \in Schs /\ w.ram \in [ok: BOOLEAN, data: Recs]
  BY WorldFields
<1> DEFINE v1 == [w EXCEPT !.ram.ok = FALSE]
           v2 == [w EXCEPT !.ram.ok = FALSE, !.disk = next]
           v3 == [w EXCEPT !.ram.data = next, !.disk = next]
<1>2. /\ v1 \in Worlds /\ v1.svc = w.svc /\ v1.sch = w.sch /\ ~v1.ram.ok
      /\ v1.ram.data = w.ram.data /\ v1.disk = w.disk
  BY <1>1 DEF Worlds
<1>3. /\ v2 \in Worlds /\ v2.svc = w.svc /\ v2.sch = w.sch /\ ~v2.ram.ok
      /\ v2.ram.data = w.ram.data /\ v2.disk = next
  BY <1>1 DEF Worlds
<1>4. /\ v3 \in Worlds /\ v3.svc = w.svc /\ v3.sch = w.sch /\ v3.ram.ok
      /\ v3.ram.data = next /\ v3.disk = next
  BY <1>1 DEF Worlds
<1>5. Append(w, next, o, n, f) \in {v1, v2, v3}
  BY DEF Append
<1>6. SameSch(w.sch, w.sch)
  BY <1>1 DEF SameSch
<1> HIDE DEF v1, v2, v3
<1> QED
  BY <1>2, <1>3, <1>4, <1>5, <1>6 DEF Appends

\* A saved configuration is an append, of which a pair is told.
LEMMA SavedDoes ==
    ASSUME NEW w \in Worlds, w.ram.ok, NEW next \in Recs, NEW f
    PROVE  Appends(w, Saved(w, next, f), next)
<1> DEFINE done == Append(w, next, "append_old", "append_new", f)
           v    == [done EXCEPT !.sch.pair.stale = TRUE]
<1>1. Appends(w, done, next) /\ done.sch = w.sch
  BY AppendDoes
<1>2. Saved(w, next, f) = IF done.ram.ok THEN v ELSE done
  BY DEF Saved
<1> HIDE DEF done
<1>3. done \in Worlds /\ done.sch \in Schs
  BY <1>1, WorldFields DEF Appends
<1>4. /\ v \in Worlds /\ v.svc = done.svc /\ v.ram = done.ram /\ v.disk = done.disk
      /\ v.sch = [done.sch EXCEPT !.pair.stale = TRUE]
  <2>1. [done.sch EXCEPT !.pair.stale = TRUE] \in Schs
    BY <1>3 DEF Schs
  <2>2. v = [done EXCEPT !.sch = [done.sch EXCEPT !.pair.stale = TRUE]]
    BY <1>3 DEF Worlds
  <2> DEFINE t == [done.sch EXCEPT !.pair.stale = TRUE]
  <2>3. v = [done EXCEPT !.sch = t] /\ t \in Schs
    BY <2>1, <2>2
  <2> HIDE DEF t, v
  <2>4. /\ v \in Worlds /\ v.svc = done.svc /\ v.ram = done.ram /\ v.disk = done.disk
        /\ v.sch = t
    BY <1>3, <2>3 DEF Worlds
  <2> QED
    BY <2>4 DEF t
<1>5. SameSch(done.sch, v.sch)
  <2>1. v.sch \in Schs
    BY <1>4, WorldFields
  <2> QED
    BY <1>3, <1>4, <2>1 DEF SameSch, Schs
<1> HIDE DEF v
<1>6. Appends(w, v, next) \/ ~done.ram.ok
  BY <1>1, <1>4, <1>5 DEF Appends
<1> QED
  BY <1>1, <1>2, <1>6

\* A record that load accepts, that is not behind, and that keeps the mark of a
\* message on the air may be written.
LEMMA AppendsCore ==
    ASSUME NEW w, NEW l, Core(w, l), w.ram.ok, NEW next \in Recs, Fits(next),
           next.mark >= w.disk.mark,
           Out(w.svc) => next.flight = w.disk.flight /\ next.lastMsg = w.disk.lastMsg,
           NEW v, Appends(w, v, next)
    PROVE  Core(v, l)
<1>1. w \in Worlds /\ v \in Worlds /\ v.svc = w.svc /\ SameSch(w.sch, v.sch)
  BY DEF Core, Appends
<1>2. w.disk \in Recs /\ w.ram.data \in Recs /\ w.svc \in Svcs /\ w.sch \in Schs
  BY <1>1, WorldFields
<1>3. v.disk \in {w.disk, next} /\ v.ram.data \in {w.ram.data, next}
  BY DEF Appends
<1>4. w.disk.mark \in Int /\ next.mark \in Int /\ w.svc.job.slot \in Int /\ w.sch.pair.second \in Int
  BY <1>2 DEF Recs, Svcs, Schs
<1>5. v.disk.mark \in Int /\ v.disk.mark >= w.disk.mark
  BY <1>3, <1>4
<1>6. Stored(v, l)
  <2>1. v.ram.ok => v.ram.data = v.disk
    BY DEF Appends
  <2>2. Fits(v.ram.data) /\ Fits(v.disk)
    BY <1>3 DEF Core, Stored
  <2>3. l \in Nat /\ l <= w.disk.mark
    BY DEF Core, Stored
  <2> QED
    BY <1>4, <1>5, <2>1, <2>2, <2>3 DEF Stored
<1>7. Owned(v, l)
  <2>1. Out(w.svc) => w.svc.job.slot <= v.disk.mark
    BY <1>4, <1>5 DEF Core, Owned
  <2>2. Out(w.svc) => v.disk.flight = w.disk.flight /\ v.disk.lastMsg = w.disk.lastMsg
    BY <1>3
  <2>3. v.sch.lastJob = w.sch.lastJob /\ v.sch.msgJob = w.sch.msgJob /\ v.sch.suspended = w.sch.suspended
    BY <1>1 DEF SameSch
  <2> QED
    BY <1>1, <2>1, <2>2, <2>3 DEF Core, Owned
<1>8. Paired(v, l)
  <2>1. /\ v.sch.lastJob = w.sch.lastJob /\ v.sch.pair.frame = w.sch.pair.frame
        /\ v.sch.pair.second = w.sch.pair.second
    BY <1>1 DEF SameSch
  <2>2. v.sch.pair.frame # "none" => v.sch.pair.second <= v.disk.mark
    BY <1>4, <1>5, <2>1 DEF Core, Paired
  <2> QED
    BY <1>1, <2>1, <2>2 DEF Core, Paired
<1> QED
  BY <1>1, <1>6, <1>7, <1>8 DEF Core

\* And if it keeps the settings, the invariant holds on.
LEMMA AppendsHeld ==
    ASSUME NEW w, NEW l, Held(w, l), w.ram.ok, NEW next \in Recs, Fits(next),
           next.mark >= w.disk.mark, next.cfg.hw = w.ram.data.cfg.hw,
           Out(w.svc) => next.flight = w.disk.flight /\ next.lastMsg = w.disk.lastMsg,
           NEW v, Appends(w, v, next)
    PROVE  Held(v, l)
<1>1. Core(v, l)
  BY AppendsCore DEF Held
<1>2. v.svc = w.svc /\ SameSch(w.sch, v.sch) /\ v.ram.data \in {w.ram.data, next}
  BY DEF Appends
<1>3. Settled(v)
  BY <1>2 DEF Held, Settled, SameSch
<1> QED
  BY <1>1, <1>3 DEF Held

\* The world of a healthy store.
LEMMA HealthyFacts ==
    ASSUME NEW w, NEW l, Held(w, l), w.ram.ok
    PROVE  /\ w \in Worlds /\ w.ram.data = w.disk /\ w.disk \in Recs /\ Fits(w.disk)
           /\ w.disk.mark \in Nat /\ l \in Nat /\ l <= w.disk.mark
<1>1. w \in Worlds
  BY DEF Held, Core
<1>2. w.disk \in Recs
  BY <1>1, WorldFields
<1>3. w.disk.mark \in Int
  BY <1>2 DEF Recs
<1>4. w.ram.data = w.disk /\ Fits(w.disk) /\ l \in Nat /\ l <= w.disk.mark
  BY DEF Held, Core, Stored
<1>5. w.disk.mark \in Nat
  BY <1>3, <1>4
<1> QED
  BY <1>1, <1>2, <1>4, <1>5

\* v is w after the reservation of slot, done or failed.
Reserves(w, v, l, slot, flight) ==
    /\ Held(v, l) /\ v.svc = w.svc /\ v.sch = w.sch /\ v.ram.data.cfg = w.ram.data.cfg
    /\ Reserved(v, slot) /\ slot > w.ram.data.mark =>
        v.disk.mark = slot /\ (flight => v.disk.flight /\ v.disk.lastMsg = slot)

\* The reservation of a start: a later mark, and with it the message in flight.
LEMMA ReserveHeld ==
    ASSUME NEW w, NEW l, Held(w, l), ~Out(w.svc), NEW slot \in Int, NEW flight \in BOOLEAN, NEW f
    PROVE  Reserves(w, Reserve(w, slot, flight, f), l, slot, flight)
<1>1. w \in Worlds
  BY DEF Held, Core
<1>2. w.ram.data \in Recs
  BY <1>1, WorldFields
<1>3. CASE w.ram.ok /\ ~w.ram.data.flight /\ slot > w.ram.data.mark
  <2>1. /\ w.ram.data = w.disk /\ Fits(w.disk) /\ w.disk.mark \in Nat
    BY <1>3, HealthyFacts
  <2> DEFINE next == [w.ram.data EXCEPT !.mark = slot, !.flight = flight,
                                        !.lastMsg = IF flight THEN slot ELSE @]
  <2>2. next \in Recs
    BY <1>2 DEF Recs
  <2>3. /\ next.mark = slot /\ next.flight = flight /\ next.cfg = w.ram.data.cfg
        /\ next.msg = w.ram.data.msg
        /\ next.lastMsg = IF flight THEN slot ELSE w.ram.data.lastMsg
    BY <1>2 DEF Recs
  <2> DEFINE v == Reserve(w, slot, flight, f)
  <2>4. v = Append(w, next, "append_old", "append_new", f)
    BY <1>3 DEF Reserve, ReserveCursor
  <2> HIDE DEF next
  <2>5. Fits(next)
    <3>1. w.disk.lastMsg \in 0 .. w.disk.mark /\ slot > w.disk.mark
      BY <1>3, <2>1 DEF Fits
    <3>2. next.lastMsg \in 0 .. next.mark
      BY <2>1, <2>3, <3>1
    <3> QED
      BY <2>1, <2>3, <3>2 DEF Fits
  <2>6. Appends(w, v, next) /\ v.sch = w.sch
    BY <1>1, <1>3, <2>2, <2>4, AppendDoes
  <2> HIDE DEF v
  <2>7. next.mark >= w.disk.mark
    BY <1>3, <2>1, <2>3
  <2>8. Held(v, l)
    BY <1>3, <2>2, <2>3, <2>5, <2>6, <2>7, AppendsHeld
  <2>9. v.svc = w.svc /\ v.ram.data.cfg = w.ram.data.cfg
    BY <2>3, <2>6 DEF Appends
  <2>10. v.ram.ok => v.disk = next
    BY <2>6 DEF Appends
  <2>11. Reserved(v, slot) =>
           v.disk.mark = slot /\ (flight => v.disk.flight /\ v.disk.lastMsg = slot)
    BY <2>3, <2>10 DEF Reserved
  <2> QED
    BY <2>6, <2>8, <2>9, <2>11 DEF v, Reserves
<1>4. CASE ~(w.ram.ok /\ ~w.ram.data.flight /\ slot > w.ram.data.mark)
  <2>1. Reserve(w, slot, flight, f) = w
    BY <1>4 DEF Reserve
  <2>2. w.ram.data.mark \in Int
    BY <1>2 DEF Recs
  <2>3. ~(Reserved(w, slot) /\ slot > w.ram.data.mark)
    BY <2>2 DEF Reserved
  <2> QED
    BY <2>1, <2>3 DEF Reserves
<1> QED
  BY <1>3, <1>4

\* The end of a message in flight.
LEMMA ClearFlightHeld ==
    ASSUME NEW w, NEW l, Held(w, l), ~Out(w.svc), NEW f
    PROVE  Held(ClearFlight(w, f), l) /\ ClearFlight(w, f).svc = w.svc /\ ClearFlight(w, f).sch = w.sch
<1>1. CASE ~w.ram.ok \/ ~w.ram.data.flight
  BY <1>1 DEF ClearFlight
<1>2. CASE ~(~w.ram.ok \/ ~w.ram.data.flight)
  <2>1. /\ w \in Worlds /\ w.ram.data = w.disk /\ w.disk \in Recs /\ Fits(w.disk)
        /\ w.disk.mark \in Nat
    BY <1>2, HealthyFacts
  <2> DEFINE next == [w.ram.data EXCEPT !.flight = FALSE]
  <2>2. /\ next \in Recs /\ next.mark = w.disk.mark /\ next.flight = FALSE
        /\ next.cfg = w.ram.data.cfg /\ next.msg = w.ram.data.msg /\ next.lastMsg = w.disk.lastMsg
    BY <2>1 DEF Recs
  <2>3. ClearFlight(w, f) = Append(w, next, "clear_old", "clear_new", f)
    BY <1>2 DEF ClearFlight
  <2> HIDE DEF next
  <2>4. Fits(next)
    BY <2>1, <2>2 DEF Fits
  <2>5. Appends(w, ClearFlight(w, f), next) /\ ClearFlight(w, f).sch = w.sch
    BY <1>2, <2>1, <2>2, <2>3, AppendDoes
  <2>6. next.mark >= w.disk.mark
    BY <2>1, <2>2
  <2>7. Held(ClearFlight(w, f), l)
    BY <1>2, <2>2, <2>4, <2>5, <2>6, AppendsHeld
  <2> QED
    BY <2>5, <2>7 DEF Appends
<1> QED
  BY <1>1, <1>2

\* A schedule of messages is saved beside a disabled configuration, or disabled.
LEMMA SaveMessageHeld ==
    ASSUME NEW w, NEW l, Held(w, l), NEW m \in {"paused", "enabled"}, MaySaveMessage(w, m), NEW f
    PROVE  /\ Held(Saved(w, [w.ram.data EXCEPT !.msg = m], f), l)
           /\ Saved(w, [w.ram.data EXCEPT !.msg = m], f).svc = w.svc
           /\ SameSch(w.sch, Saved(w, [w.ram.data EXCEPT !.msg = m], f).sch)
<1>1. w.ram.ok /\ ~(m = "enabled" /\ w.ram.data.cfg.enabled)
  BY DEF MaySaveMessage
<1>2. /\ w \in Worlds /\ w.ram.data = w.disk /\ w.disk \in Recs /\ Fits(w.disk)
      /\ w.disk.mark \in Nat
  BY <1>1, HealthyFacts
<1> DEFINE next == [w.ram.data EXCEPT !.msg = m]
<1>3. /\ next \in Recs /\ next.mark = w.disk.mark /\ next.flight = w.disk.flight
      /\ next.cfg = w.ram.data.cfg /\ next.msg = m /\ next.lastMsg = w.disk.lastMsg
  BY <1>2 DEF Recs
<1> DEFINE v == Saved(w, next, f)
<1> HIDE DEF next
<1>4. Fits(next)
  BY <1>1, <1>2, <1>3 DEF Fits
<1>5. Appends(w, v, next)
  BY <1>1, <1>2, <1>3, SavedDoes
<1> HIDE DEF v
<1>6. next.mark >= w.disk.mark
  BY <1>2, <1>3
<1>7. Held(v, l)
  BY <1>1, <1>3, <1>4, <1>5, <1>6, AppendsHeld
<1>8. v.svc = w.svc /\ SameSch(w.sch, v.sch)
  BY <1>5 DEF Appends
<1> QED
  BY <1>7, <1>8 DEF v, next

\* A record of the same journal that changes none of what the scheduler reads.
LEMMA SaveSameHeld ==
    ASSUME NEW w, NEW l, Held(w, l), w.ram.ok, NEW f
    PROVE  /\ Held(Saved(w, w.ram.data, f), l) /\ Saved(w, w.ram.data, f).svc = w.svc
           /\ SameSch(w.sch, Saved(w, w.ram.data, f).sch)
<1>1. /\ w \in Worlds /\ w.ram.data = w.disk /\ w.disk \in Recs /\ Fits(w.disk)
      /\ w.disk.mark \in Nat
  BY HealthyFacts
<1>2. Appends(w, Saved(w, w.ram.data, f), w.ram.data)
  BY <1>1, SavedDoes
<1>3. w.ram.data.mark >= w.disk.mark
  BY <1>1
<1>4. Held(Saved(w, w.ram.data, f), l)
  BY <1>1, <1>2, <1>3, AppendsHeld
<1> QED
  BY <1>2, <1>4 DEF Appends

-------------------------------------------------------------------------------
(* The scheduler's own variables. *)

\* t may stand in for the scheduler's variables: no job is forgotten, a pair is
\* dropped or kept, and the restart latches stay.
Follows(w, t) ==
    /\ t \in Schs /\ t.lastJob = w.sch.lastJob
    /\ t.msgJob = w.sch.msgJob \/ (Out(w.svc) => w.svc.job.kind = "wspr")
    /\ \/ t.pair.frame = "none"
       \/ t.pair.frame = w.sch.pair.frame /\ t.pair.second = w.sch.pair.second
    /\ Out(w.svc) => ~t.suspended
    /\ t.boot = w.sch.boot /\ (w.sch.pins => t.pins) /\ (t.pins => t.reboot)

\* Such a change of the scheduler's variables keeps the invariant.
LEMMA SchHeld ==
    ASSUME NEW w, NEW l, Held(w, l), NEW t, Follows(w, t), NEW v, v = [w EXCEPT !.sch = t]
    PROVE  /\ Held(v, l) /\ v.sch = t /\ v.svc = w.svc /\ v.ram = w.ram /\ v.disk = w.disk
<1>1. w \in Worlds /\ t \in Schs
  BY DEF Held, Core, Follows
<1>2. v \in Worlds /\ v.sch = t /\ v.svc = w.svc /\ v.ram = w.ram /\ v.disk = w.disk
  BY <1>1 DEF Worlds
<1>3. Stored(v, l)
  BY <1>2 DEF Held, Core, Stored
<1>4. Owned(v, l)
  <2>1. Out(w.svc) => w.svc.job \in {Job("wspr", t.lastJob), Job("msg", t.msgJob)}
    <3>1. Out(w.svc) => w.svc.job \in {Job("wspr", w.sch.lastJob), Job("msg", w.sch.msgJob)}
      BY DEF Held, Core, Owned
    <3>2. Job("msg", w.sch.msgJob).kind = "msg"
      BY DEF Job
    <3> QED
      BY <3>1, <3>2 DEF Follows
  <2> QED
    BY <1>2, <2>1 DEF Held, Core, Owned, Follows
<1>5. Paired(v, l)
  BY <1>2 DEF Held, Core, Paired, Follows
<1>6. Settled(v)
  BY <1>2 DEF Held, Settled, Follows
<1> QED
  BY <1>2, <1>3, <1>4, <1>5, <1>6 DEF Held, Core

\* The recovery of the message is only noted.
LEMMA RecoveryHeld ==
    ASSUME NEW w, NEW l, Held(w, l)
    PROVE  Held(Recovery(w), l) /\ Recovery(w).svc = w.svc /\ Recovery(w).ram = w.ram
<1>1. w \in Worlds /\ w.sch \in Schs /\ (w.sch.pins => w.sch.reboot) /\ (Out(w.svc) => ~w.sch.suspended)
  BY WorldFields DEF Held, Core, Settled, Owned
<1> DEFINE t == [w.sch EXCEPT !.recovery = TRUE]
<1>2. Follows(w, t)
  BY <1>1 DEF Follows, Schs
<1>3. Recovery(w) = [w EXCEPT !.sch = t]
  BY <1>1 DEF Recovery, Worlds
<1> HIDE DEF t
<1> QED
  BY <1>2, <1>3, SchHeld

\* A message job is forgotten when it is not out.
LEMMA ForgottenHeld ==
    ASSUME NEW w, NEW l, Held(w, l), Out(w.svc) => w.svc.job.kind = "wspr"
    PROVE  /\ Held(Forgotten(w), l) /\ Forgotten(w).svc = w.svc /\ Forgotten(w).ram = w.ram
<1>1. w \in Worlds /\ w.sch \in Schs /\ (w.sch.pins => w.sch.reboot) /\ (Out(w.svc) => ~w.sch.suspended)
  BY WorldFields DEF Held, Core, Settled, Owned
<1> DEFINE t == [w.sch EXCEPT !.msgJob = 0]
<1>2. Follows(w, t)
  BY <1>1 DEF Follows, Schs
<1>3. Forgotten(w) = [w EXCEPT !.sch = t]
  BY <1>1 DEF Forgotten, Worlds
<1> HIDE DEF t
<1> QED
  BY <1>2, <1>3, SchHeld

\* A saved message schedule resumes or stays off.
LEMMA MessageSavedHeld ==
    ASSUME NEW w, NEW l, Held(w, l), NEW resume \in BOOLEAN
    PROVE  Held(MessageSaved(w, resume), l) /\ MessageSaved(w, resume).svc = w.svc
<1>1. w \in Worlds /\ w.sch \in Schs /\ (w.sch.pins => w.sch.reboot) /\ (Out(w.svc) => ~w.sch.suspended)
  BY WorldFields DEF Held, Core, Settled, Owned
<1> DEFINE t == [w.sch EXCEPT !.pause = FALSE, !.recovery = FALSE, !.suspended = @ /\ ~resume]
<1>2. Follows(w, t)
  <2>1. t \in Schs
    BY <1>1 DEF Schs
  <2> QED
    BY <1>1, <2>1 DEF Follows, Schs
<1>3. MessageSaved(w, resume) = [w EXCEPT !.sch = t]
  BY <1>1 DEF MessageSaved, Worlds
<1> HIDE DEF t
<1> QED
  BY <1>2, <1>3, SchHeld

\* A pair that is dropped.
LEMMA DropPairHeld ==
    ASSUME NEW w, NEW l, Held(w, l)
    PROVE  /\ Held([w EXCEPT !.sch.pair = NoPair], l)
           /\ [w EXCEPT !.sch.pair = NoPair].svc = w.svc
           /\ [w EXCEPT !.sch.pair = NoPair].sch.lastJob = w.sch.lastJob
<1>1. w \in Worlds /\ w.sch \in Schs /\ (w.sch.pins => w.sch.reboot) /\ (Out(w.svc) => ~w.sch.suspended)
  BY WorldFields DEF Held, Core, Settled, Owned
<1>2. /\ NoPair \in [frame: {"none", "first", "second"}, second: Int, off: Int, stale: BOOLEAN]
      /\ NoPair.frame = "none"
  BY DEF NoPair
<1> DEFINE t == [w.sch EXCEPT !.pair = NoPair]
           v == [w EXCEPT !.sch.pair = NoPair]
<1>3. /\ t \in Schs /\ t.pair = NoPair /\ t.lastJob = w.sch.lastJob /\ t.msgJob = w.sch.msgJob
      /\ t.suspended = w.sch.suspended /\ t.boot = w.sch.boot /\ t.pins = w.sch.pins
      /\ t.reboot = w.sch.reboot
  BY <1>1, <1>2 DEF Schs
<1>4. v = [w EXCEPT !.sch = t]
  BY <1>1 DEF Worlds
<1> HIDE DEF t, v
<1>5. Follows(w, t)
  BY <1>1, <1>2, <1>3 DEF Follows
<1>6. Held(v, l) /\ v.svc = w.svc /\ v.sch = t
  BY <1>4, <1>5, SchHeld
<1> QED
  BY <1>3, <1>6 DEF v

\* An idle service holds no job of the scheduler.
LEMMA IdleOut == ASSUME NEW w, Idle(w) PROVE ~Out(w.svc) /\ w.svc.state \notin Executing
BY DEF Idle, Out

\* A pause saves the schedule as paused.
LEMMA PauseSavedHeld ==
    ASSUME NEW w, NEW l, Held(w, l), NEW f
    PROVE  Held(PauseSaved(w, f), l) /\ PauseSaved(w, f).svc = w.svc
BY SaveMessageHeld DEF PauseSaved

\* And it clears the message in flight, with the service left alone.
LEMMA FinishPauseHeld ==
    ASSUME NEW w, NEW l, Held(w, l), NEW f
    PROVE  Held(FinishPause(w, f), l) /\ FinishPause(w, f).svc = w.svc
<1>1. CASE ~Idle(w) \/ w.sch.msgJob # 0
  BY <1>1 DEF FinishPause
<1>2. CASE ~(~Idle(w) \/ w.sch.msgJob # 0)
  <2> DEFINE saved == PauseSaved(w, f)
             cleared == ClearFlight(saved, f)
  <2>1. Held(saved, l) /\ ~Out(saved.svc) /\ saved.svc = w.svc
    BY <1>2, PauseSavedHeld, IdleOut
  <2> HIDE DEF saved
  <2>2. Held(cleared, l) /\ cleared.svc = w.svc
    BY <2>1, ClearFlightHeld
  <2>3. FinishPause(w, f) = IF cleared.ram.ok THEN MessageSaved(cleared, FALSE) ELSE cleared
    BY <1>2 DEF FinishPause, saved
  <2> HIDE DEF cleared
  <2>4. Held(MessageSaved(cleared, FALSE), l) /\ MessageSaved(cleared, FALSE).svc = w.svc
    BY <2>2, MessageSavedHeld
  <2> QED
    BY <2>2, <2>3, <2>4
<1> QED
  BY <1>1, <1>2

-------------------------------------------------------------------------------
(* poll() *)

\* While a message job is out, its record decides; it is forgotten only when it
\* does not run.
LEMMA FollowMessageHeld ==
    ASSUME NEW w, NEW l, Held(w, l), NEW f
    PROVE  Held(FollowMessage(w, f), l)
<1> DEFINE mine     == w.svc.job = Job("msg", w.sch.msgJob)
           released == IF w.svc.owner = "local" /\ mine THEN Release(w, f) ELSE w
           cleared  == ClearFlight(released, f)
           paused   == FinishPause(Forgotten(cleared), f)
<1>1. FollowMessage(w, f) =
        IF w.svc.record = "none"
        THEN IF mine /\ w.svc.state \in Executing THEN w ELSE Forgotten(Recovery(w))
        ELSE IF w.svc.record = "bad" THEN Forgotten(Recovery(w))
        ELSE IF w.svc.out \/ w.svc.state \in Executing THEN w
        ELSE IF w.svc.owner = "local" /\ mine /\ f = "release" THEN Recovery(w)
        ELSE IF ~Idle(released) THEN released
        ELSE IF ~cleared.ram.ok THEN Recovery(cleared)
        ELSE IF ~w.sch.pause THEN Forgotten(cleared)
        ELSE IF paused.ram.ok THEN paused ELSE Recovery(paused)
  BY DEF FollowMessage
<1>2. Held(Recovery(w), l) /\ Recovery(w).svc = w.svc
  BY RecoveryHeld
<1>3. CASE w.svc.record = "none" /\ ~(mine /\ w.svc.state \in Executing)
  <2>1. Out(w.svc) => w.svc.job = Job("wspr", w.sch.lastJob)
    BY <1>3 DEF Held, Core, Owned, Out
  <2>2. Out(w.svc) => w.svc.job.kind = "wspr"
    BY <2>1 DEF Job
  <2>3. Held(Forgotten(Recovery(w)), l)
    BY <1>2, <2>2, ForgottenHeld
  <2> QED
    BY <1>1, <1>3, <2>3
<1>4. CASE w.svc.record = "bad"
  <2>1. ~Out(w.svc)
    BY <1>4 DEF Held, Core, Owned
  <2>2. Held(Forgotten(Recovery(w)), l)
    BY <1>2, <2>1, ForgottenHeld
  <2> QED
    BY <1>1, <1>4, <2>2
<1>5. Held(released, l)
  BY CallsHeld
<1>6. CASE Idle(released)
  <2>1. ~Out(released.svc)
    BY <1>6, IdleOut
  <2> HIDE DEF released
  <2>2. Held(cleared, l) /\ ~Out(cleared.svc)
    BY <1>5, <2>1, ClearFlightHeld
  <2> HIDE DEF cleared
  <2>3. Held(Recovery(cleared), l)
    BY <2>2, RecoveryHeld
  <2>4. Held(Forgotten(cleared), l)
    BY <2>2, ForgottenHeld
  <2>5. Held(paused, l)
    BY <2>4, FinishPauseHeld
  <2> HIDE DEF paused
  <2>6. Held(Recovery(paused), l)
    BY <2>5, RecoveryHeld
  <2> QED
    BY <1>1, <1>2, <1>3, <1>4, <1>6, <2>3, <2>4, <2>5, <2>6
<1>7. CASE ~Idle(released)
  BY <1>1, <1>2, <1>3, <1>4, <1>5, <1>7
<1> QED
  BY <1>6, <1>7

\* A job that is new, reserved and allowed may be armed.
LEMMA ArmHeld ==
    ASSUME NEW w, NEW l, Held(w, l), off \in Nat, NEW job, NEW f,
           job \in {Job("wspr", w.sch.lastJob), Job("msg", w.sch.msgJob)},
           job.slot > l, job.slot <= w.disk.mark, ~w.sch.suspended,
           job.kind = "msg" => w.disk.flight /\ w.disk.lastMsg = job.slot,
           w.ram.data.cfg.hw = w.sch.boot.hw,
           w.sch.pair.frame # "none" => job = Job("wspr", w.sch.lastJob),
           w.sch.pair.frame = "second" => l >= w.sch.pair.second - SlotDuration
    PROVE  /\ Held(LoadArm(w, job, f), l)
           /\ Armed(LoadArm(w, job, f), job) \/ (Out(LoadArm(w, job, f).svc) => Out(w.svc))
<1>1. w \in Worlds /\ w.sch.lastJob \in Int /\ w.sch.msgJob \in Int
  BY WorldFields DEF Held, Core, Schs
<1>2. job \in [kind: Kinds, slot: Int] /\ job.kind \in {"wspr", "msg"}
  BY <1>1 DEF Job, Kinds
<1> DEFINE v == LoadArm(w, job, f)
<1>3. /\ ByService(w, v) /\ v \in Worlds
      /\ \/ v = w
         \/ v.svc.state \in {"LOADED", "FAILED"}
         \/ /\ v.svc.state = "ARMED" /\ v.svc.job = job
            /\ v.svc.owner = "local" /\ v.svc.record = "none"
  BY <1>1, <1>2, LoadArmDoes
<1> HIDE DEF v
<1>4. CASE v = w
  BY <1>4 DEF v
<1>5. CASE v.svc.state \in {"LOADED", "FAILED"}
  <2>1. Held(v, l)
    BY <1>3, <1>5, CalmHeld DEF Calms
  <2>2. ~Out(v.svc)
    BY <1>5 DEF Out, Executing
  <2> QED
    BY <2>1, <2>2 DEF v
<1>6. CASE /\ v.svc.state = "ARMED" /\ v.svc.job = job
           /\ v.svc.owner = "local" /\ v.svc.record = "none"
  <2>1. v.ram = w.ram /\ v.disk = w.disk /\ v.sch = w.sch
    BY <1>3 DEF ByService
  <2>2. Stored(v, l)
    BY <2>1 DEF Held, Core, Stored
  <2>3. Owned(v, l)
    BY <1>2, <1>6, <2>1 DEF Owned
  <2>4. Paired(v, l)
    BY <1>6, <2>1 DEF Held, Core, Paired
  <2>5. Settled(v)
    BY <2>1 DEF Held, Settled
  <2>6. Armed(v, job)
    BY <1>6 DEF Armed
  <2> QED
    BY <1>3, <2>2, <2>3, <2>4, <2>5, <2>6 DEF Held, Core, v
<1> QED
  BY <1>3, <1>4, <1>5, <1>6

\* No restart is due: the settings are those of this boot.
LEMMA CurrentHardware ==
    ASSUME NEW w, NEW l, Held(w, l), ~w.sch.reboot
    PROVE  w.ram.data.cfg.hw = w.sch.boot.hw /\ ~w.sch.pins
BY DEF Held, Settled

\* One frame; a frame that is not armed drops the pair and gives the service back.
LEMMA PrepareFrameHeld ==
    ASSUME NEW w \in Worlds, NEW l, NEW slot \in Int, NEW f, off \in Nat,
           Held([w EXCEPT !.sch.lastJob = slot], l), slot > l, slot <= w.disk.mark,
           ~w.sch.suspended, ~w.sch.reboot,
           w.sch.pair.frame = "second" => l >= w.sch.pair.second - SlotDuration
    PROVE  Held(PrepareFrame(w, slot, f), l)
<1> DEFINE w1   == [w EXCEPT !.sch.lastJob = slot]
           job  == Job("wspr", slot)
           done == LoadArm(w1, job, f)
<1>1. w.sch \in Schs
  BY WorldFields
<1>2. /\ w1.sch.lastJob = slot /\ w1.disk = w.disk /\ w1.sch.suspended = w.sch.suspended
      /\ w1.sch.reboot = w.sch.reboot /\ w1.sch.pair = w.sch.pair
  BY <1>1 DEF Worlds, Schs
<1>3. PrepareFrame(w, slot, f) =
        IF Armed(done, job) THEN done ELSE [Release(done, f) EXCEPT !.sch.pair = NoPair]
  BY DEF PrepareFrame
<1>4. job = Job("wspr", w1.sch.lastJob) /\ job.slot = slot /\ job.kind = "wspr"
  BY <1>2 DEF Job
<1>5. Held(w1, l)
  OBVIOUS
<1> HIDE DEF w1, job
<1>6. w1.ram.data.cfg.hw = w1.sch.boot.hw
  BY <1>2, <1>5, CurrentHardware
<1>7. Held(done, l)
  BY <1>2, <1>4, <1>5, <1>6, ArmHeld
<1> HIDE DEF done
<1>8. Held(Release(done, f), l)
  BY <1>7, CallsHeld
<1>9. Held([Release(done, f) EXCEPT !.sch.pair = NoPair], l)
  BY <1>8, DropPairHeld
<1> QED
  BY <1>3, <1>7, <1>9

\* A pair that is given up.
LEMMA CancelPairHeld ==
    ASSUME NEW w, NEW l, Held(w, l), NEW f
    PROVE  Held(CancelPair(w, f), l)
<1> DEFINE v    == [w EXCEPT !.sch.pair = NoPair]
           mine == v.svc.job = Job("wspr", v.sch.lastJob) /\ v.svc.state \in Executing \cup {"LOADED"}
           done == IF mine THEN Abort(v, f) ELSE v
<1>1. Held(v, l)
  BY DropPairHeld
<1>2. CancelPair(w, f) = IF v.svc.owner # "local" THEN v
                         ELSE IF mine /\ f = "abort" THEN done ELSE Release(done, f)
  BY DEF CancelPair
<1> HIDE DEF v
<1>3. Held(done, l)
  BY <1>1, CallsHeld
<1> HIDE DEF done
<1>4. Held(Release(done, f), l)
  BY <1>3, CallsHeld
<1> QED
  BY <1>1, <1>2, <1>3, <1>4

\* The second frame follows a first one that went out.
LEMMA PollPairHeld ==
    ASSUME NEW w, NEW l, Held(w, l), w.sch.pair.frame # "none", NEW f, off \in Nat
    PROVE  Held(PollPair(w, f), l)
<1> DEFINE second == w.sch.pair.second
           w1     == [w EXCEPT !.sch.pair.frame = "second"]
<1>1. Held(CancelPair(w, f), l)
  BY CancelPairHeld
<1>2. CASE PollPair(w, f) \in {w, CancelPair(w, f)}
  BY <1>1, <1>2
<1>3. CASE /\ PairSound(w) /\ w.sch.pair.frame = "first" /\ w.svc.state = "COMPLETE"
           /\ PollPair(w, f) = PrepareFrame(w1, second, f)
  <2>1. /\ w.ram.ok /\ ~w.sch.reboot /\ ~w.sch.suspended
        /\ w.svc.job = Job("wspr", w.sch.lastJob) /\ ~Out(w.svc)
    BY <1>3 DEF PairSound, Out, Executing
  <2>2. w \in Worlds /\ w.sch \in Schs
    BY WorldFields DEF Held, Core
  <2>3. w.sch.lastJob \in Int /\ second \in Int
    BY <2>2 DEF Schs
  <2>4. l = w.sch.lastJob
    BY <1>3, <2>1 DEF Held, Core, Owned, Job
  <2>5. second = w.sch.lastJob + SlotDuration /\ second <= w.disk.mark
    BY <1>3 DEF Held, Core, Paired
  <2>6. SlotDuration \in Nat /\ SlotDuration > 0
    BY SchedulerAssumption
  <2>7. second > l /\ l >= second - SlotDuration
    BY <2>3, <2>4, <2>5, <2>6
  <2> DEFINE t  == [w.sch EXCEPT !.pair.frame = "second", !.lastJob = second]
             w2 == [w1 EXCEPT !.sch.lastJob = second]
  <2>8. /\ t \in Schs /\ t.lastJob = second /\ t.pair.frame = "second" /\ t.pair.second = second
        /\ t.boot = w.sch.boot /\ t.pins = w.sch.pins /\ t.reboot = w.sch.reboot
        /\ t.suspended = w.sch.suspended
    BY <2>2, <2>3 DEF Schs
  <2>9. /\ w1 \in Worlds /\ w1.disk = w.disk /\ w1.sch.suspended = w.sch.suspended
        /\ w1.sch.reboot = w.sch.reboot /\ w1.sch.pair.second = second
    BY <2>2 DEF Worlds, Schs
  <2>10. /\ w2 \in Worlds /\ w2.svc = w.svc /\ w2.ram = w.ram /\ w2.disk = w.disk /\ w2.sch = t
    BY <2>2, <2>3, <2>8 DEF Worlds, Schs
  <2> HIDE DEF w1, w2, t
  <2>11. Stored(w2, l)
    BY <2>10 DEF Held, Core, Stored
  <2>12. Owned(w2, l)
    BY <2>1, <2>10 DEF Held, Core, Owned
  <2>13. Paired(w2, l)
    BY <2>1, <2>5, <2>8, <2>10 DEF Paired
  <2>14. Settled(w2)
    BY <2>1, <2>8, <2>10 DEF Held, Settled
  <2>15. Held(w2, l)
    BY <2>10, <2>11, <2>12, <2>13, <2>14 DEF Held, Core
  <2>16. Held([w1 EXCEPT !.sch.lastJob = second], l)
    BY <2>15 DEF w2
  <2>17. Held(PrepareFrame(w1, second, f), l)
    BY <2>1, <2>3, <2>5, <2>7, <2>9, <2>16, PrepareFrameHeld
  <2> QED
    BY <1>3, <2>17
<1> QED
  BY <1>2, <1>3 DEF PollPair

-------------------------------------------------------------------------------
(* Slots. *)

\* A set of natural numbers has a least element.
LEMMA LeastOf ==
    ASSUME NEW S, S \subseteq Nat, S # {}
    PROVE  Min(S) \in S /\ \A y \in S : Min(S) <= y
<1>1. IsWellFoundedOn(OpToRel(<, Nat), Nat)
  BY NatLessThanWellFounded
<1>2. PICK x \in S : \A y \in S : ~(<<y, x>> \in OpToRel(<, Nat))
  BY <1>1, WFMin
<1>3. \A y \in S : x <= y
  <2>1. \A y \in S : ~(y < x)
    BY <1>2 DEF OpToRel
  <2> QED
    BY <2>1
<1>4. \E z \in S : \A y \in S : z <= y
  BY <1>2, <1>3
<1> QED
  BY <1>4 DEF Min

\* The larger of two integers.
LEMMA LargerOf ==
    ASSUME NEW a \in Int, NEW b \in Int
    PROVE  Max({a, b}) \in {a, b} /\ Max({a, b}) >= a /\ Max({a, b}) >= b
<1>1. \E x \in {a, b} : \A y \in {a, b} : x >= y
  BY a >= b \/ b >= a
<1> QED
  BY <1>1 DEF Max

\* Division rounds down.
LEMMA Floor ==
    ASSUME NEW a \in Nat, NEW p \in Nat \ {0}
    PROVE  /\ a \div p \in Nat /\ (a \div p) * p \in Nat
           /\ (a \div p) * p <= a /\ a < (a \div p) * p + p
OBVIOUS

\* A WSPR start is later than the present, by a period at most.
LEMMA WsprSlotLater ==
    ASSUME utc \in Nat, NEW s \in WsprSchedules
    PROVE  WsprSlot(s) \in Nat /\ utc < WsprSlot(s)
<1>1. s.period \in Nat \ {0} /\ s.phase \in 0 .. s.period - 1
  BY SchedulerAssumption
<1> DEFINE b == (utc \div s.period) * s.period
<1>2. b \in Nat /\ b <= utc /\ utc < b + s.period
  BY <1>1, Floor
<1>3. WsprSlot(s) = IF b + s.phase <= utc THEN b + s.phase + s.period ELSE b + s.phase
  BY DEF WsprSlot
<1> HIDE DEF b
<1> QED
  BY <1>1, <1>2, <1>3

\* The start that poll() considers is beyond the mark.
LEMMA CandidateBeyond ==
    ASSUME NEW w, utc \in Nat, WsprCandidates(w) # {}
    PROVE  Min(WsprCandidates(w)) \in Nat /\ Min(WsprCandidates(w)) > w.ram.data.mark
<1>1. WsprCandidates(w) \subseteq Nat
  BY WsprSlotLater DEF WsprCandidates
<1>2. Min(WsprCandidates(w)) \in WsprCandidates(w)
  BY <1>1, LeastOf
<1> QED
  BY <1>1, <1>2 DEF WsprCandidates

\* The next start of the message is beyond the mark, and not before the earliest.
LEMMA MessageSlotBeyond ==
    ASSUME NEW earliest \in Int, NEW mark \in Int
    PROVE  /\ NextMessageSlot(earliest, mark) \in Int
           /\ NextMessageSlot(earliest, mark) > mark
           /\ NextMessageSlot(earliest, mark) >= earliest
<1> DEFINE from == Max({earliest, mark + 1})
           d    == from - MessageFirst + MessagePeriod - 1
           q    == (d \div MessagePeriod) * MessagePeriod
<1>1. from \in Int /\ from >= earliest /\ from >= mark + 1
  BY LargerOf
<1>2. MessageFirst \in Nat /\ MessagePeriod \in Nat \ {0}
  BY SchedulerAssumption
<1>3. NextMessageSlot(earliest, mark) =
        IF from <= MessageFirst THEN MessageFirst ELSE MessageFirst + q
  BY DEF NextMessageSlot
<1> HIDE DEF from
<1>4. CASE from <= MessageFirst
  BY <1>1, <1>2, <1>3, <1>4
<1>5. CASE from > MessageFirst
  <2>1. d \in Nat
    BY <1>1, <1>2, <1>5
  <2>2. q \in Nat /\ d < q + MessagePeriod
    BY <1>2, <2>1, Floor
  <2>3. NextMessageSlot(earliest, mark) = MessageFirst + q
    BY <1>1, <1>2, <1>3, <1>5
  <2> HIDE DEF q
  <2> QED
    BY <1>1, <1>2, <2>2, <2>3
<1> QED
  BY <1>1, <1>2, <1>4, <1>5

\* A message start that is not 0 is allowed and beyond the mark.
LEMMA MessageStartBeyond ==
    ASSUME NEW w \in Worlds, NEW f, utc \in Nat, NextMessageStart(w, f) # 0
    PROVE  /\ NextMessageStart(w, f) \in Int /\ NextMessageStart(w, f) > w.ram.data.mark
           /\ w.ram.ok /\ ~w.sch.suspended /\ ~w.sch.reboot
<1> DEFINE next == NextMessageSlot(utc + MessageLead, w.ram.data.mark)
<1>1. w.ram.data.mark \in Int /\ utc + MessageLead \in Int
  BY WorldFields, SchedulerAssumption DEF Recs
<1>2. next \in Int /\ next > w.ram.data.mark
  BY <1>1, MessageSlotBeyond
<1>3. NextMessageStart(w, f) = next /\ w.ram.ok /\ ~w.sch.suspended /\ ~w.sch.reboot
  BY DEF NextMessageStart
<1> QED
  BY <1>2, <1>3

-------------------------------------------------------------------------------
(* Starts. *)

\* The message: reserved and marked in flight before it is armed.
LEMMA StartMessageHeld ==
    ASSUME NEW w, NEW l, Held(w, l), ~Out(w.svc), NEW next \in Int, next > w.ram.data.mark,
           w.ram.ok, ~w.sch.suspended, ~w.sch.reboot, w.sch.pair.frame = "none", NEW f, off \in Nat
    PROVE  Held(StartMessage(w, next, f), l)
<1> DEFINE claimed  == Claim(w, f)
           reserved == Reserve(claimed, next, TRUE, f)
           w1       == [reserved EXCEPT !.sch.msgJob = next]
           job      == Job("msg", next)
           done     == LoadArm(w1, job, f)
<1>1. StartMessage(w, next, f) =
        IF claimed.svc.owner # "local" THEN w
        ELSE IF ~Reserved(reserved, next) THEN Recovery(Release(reserved, f))
        ELSE IF Armed(done, job) THEN done
        ELSE Forgotten(Recovery(IF done.svc.state = "FAILED" THEN done ELSE Release(done, f)))
  BY DEF StartMessage
<1>2. w \in Worlds
  BY DEF Held, Core
<1>3. Held(claimed, l) /\ ~Out(claimed.svc) /\ claimed.ram = w.ram /\ claimed.sch = w.sch
  BY <1>2, CallsHeld, ClaimDoes DEF ByService, Out
<1>4. /\ l <= w.disk.mark /\ w.ram.data = w.disk /\ l \in Nat /\ w.disk.mark \in Nat
  BY HealthyFacts
<1> HIDE DEF claimed
<1>5. /\ Held(reserved, l) /\ reserved.svc = claimed.svc /\ reserved.sch = claimed.sch
      /\ reserved.ram.data.cfg = claimed.ram.data.cfg
      /\ Reserved(reserved, next) =>
            reserved.disk.mark = next /\ reserved.disk.flight /\ reserved.disk.lastMsg = next
  <2>1. next > claimed.ram.data.mark
    BY <1>3
  <2>2. Reserves(claimed, reserved, l, next, TRUE)
    BY <1>3, ReserveHeld
  <2> QED
    BY <2>1, <2>2 DEF Reserves
<1> HIDE DEF reserved
<1>6. Held(Recovery(Release(reserved, f)), l)
  BY <1>5, CallsHeld, RecoveryHeld
<1>7. CASE Reserved(reserved, next)
  <2> DEFINE t == [reserved.sch EXCEPT !.msgJob = next]
  <2>1. reserved \in Worlds /\ reserved.sch \in Schs
    BY <1>5, WorldFields DEF Held, Core
  <2>2. /\ t \in Schs /\ t.msgJob = next /\ t.lastJob = reserved.sch.lastJob
        /\ t.pair = reserved.sch.pair /\ t.suspended = reserved.sch.suspended
        /\ t.boot = reserved.sch.boot /\ t.pins = reserved.sch.pins
        /\ t.reboot = reserved.sch.reboot
    BY <2>1 DEF Schs
  <2>3. w1 = [reserved EXCEPT !.sch = t]
    BY <2>1 DEF Worlds
  <2> HIDE DEF t, w1
  <2>4. Follows(reserved, t)
    BY <1>3, <1>5, <2>2 DEF Follows, Held, Settled
  <2>5. Held(w1, l) /\ w1.sch = t /\ w1.svc = reserved.svc /\ w1.ram = reserved.ram /\ w1.disk = reserved.disk
    BY <1>5, <2>3, <2>4, SchHeld
  <2>6. job = Job("msg", w1.sch.msgJob) /\ job.slot = next /\ job.kind = "msg"
    BY <2>2, <2>5 DEF Job
  <2>7. w1.ram.data.cfg.hw = w1.sch.boot.hw
    BY <1>3, <1>5, <2>2, <2>5, CurrentHardware
  <2>8. job.slot > l /\ job.slot <= w1.disk.mark
    BY <1>4, <1>5, <1>7, <2>5, <2>6
  <2> HIDE DEF job
  <2>9. /\ Held(done, l)
        /\ Armed(done, job) \/ ~Out(done.svc)
    <3>1. /\ ~w1.sch.suspended /\ w1.sch.pair.frame = "none" /\ ~Out(w1.svc)
          /\ w1.disk.flight /\ w1.disk.lastMsg = next
      BY <1>3, <1>5, <1>7, <2>2, <2>5
    <3> QED
      BY <2>5, <2>6, <2>7, <2>8, <3>1, ArmHeld
  <2> HIDE DEF done
  <2>10. ASSUME ~Armed(done, job), NEW v \in {done, Release(done, f)}
         PROVE  Held(Forgotten(Recovery(v)), l)
    <3>1. Held(v, l) /\ done \in Worlds
      BY <2>9, CallsHeld DEF Held, Core
    <3>2. ~Out(v.svc)
      BY <2>9, <2>10, <3>1, ReleaseDoes DEF Out, Executing
    <3>3. Held(Recovery(v), l) /\ Recovery(v).svc = v.svc
      BY <3>1, RecoveryHeld
    <3> QED
      BY <3>2, <3>3, ForgottenHeld
  <2> QED
    BY <1>1, <1>6, <1>7, <2>9, <2>10
<1> QED
  BY <1>1, <1>6, <1>7

\* poll_message keeps the invariant on each of its ways out.
LEMMA PollMessageHeld ==
    ASSUME NEW w, NEW l, Held(w, l), NEW f, off \in Nat, utc \in Nat
    PROVE  Held(PollMessage(w, f), l)
<1> DEFINE next == NextMessageStart(w, f)
           done == FinishPause(w, f)
<1>1. PollMessage(w, f) =
        IF w.sch.msgJob # 0 THEN FollowMessage(w, f)
        ELSE IF w.sch.pause THEN (IF done.ram.ok THEN done ELSE Recovery(done))
        ELSE IF \/ MessageRecovery(w) \/ w.sch.pair.frame # "none" \/ ~Idle(w) \/ w.sch.suspended
                \/ w.sch.reboot \/ ~w.ram.ok \/ next = 0 \/ next - utc > MessageWindow
             THEN w
        ELSE IF f = "compile" THEN Recovery(w)
        ELSE StartMessage(w, next, f)
  BY DEF PollMessage
<1>2. Held(FollowMessage(w, f), l)
  BY FollowMessageHeld
<1>3. Held(done, l)
  BY FinishPauseHeld
<1> HIDE DEF done
<1>4. Held(Recovery(done), l) /\ Held(Recovery(w), l)
  BY <1>3, RecoveryHeld
<1>5. CASE PollMessage(w, f) \in {FollowMessage(w, f), done, Recovery(done), w, Recovery(w)}
  BY <1>2, <1>3, <1>4, <1>5
<1>6. CASE /\ PollMessage(w, f) = StartMessage(w, next, f)
           /\ w.sch.pair.frame = "none" /\ Idle(w) /\ next # 0
  <2>1. /\ next \in Int /\ next > w.ram.data.mark /\ w.ram.ok /\ ~w.sch.suspended /\ ~w.sch.reboot
    BY <1>6, MessageStartBeyond DEF Held, Core
  <2> HIDE DEF next
  <2>2. Held(StartMessage(w, next, f), l)
    BY <1>6, <2>1, IdleOut, StartMessageHeld
  <2> QED
    BY <1>6, <2>2
<1> QED
  BY <1>1, <1>5, <1>6

\* A WSPR frame: the whole plan is reserved before its first frame is armed.
LEMMA StartWsprHeld ==
    ASSUME NEW w, NEW l, Held(w, l), ~Out(w.svc), NEW slot \in Int, slot > w.ram.data.mark,
           w.ram.ok, ~w.sch.suspended, ~w.sch.reboot, w.sch.pair.frame = "none",
           NEW count \in 1..2, NEW f, off \in Nat
    PROVE  Held(StartWspr(w, slot, count, f), l)
<1> DEFINE final    == slot + (count - 1) * SlotDuration
           claimed  == Claim(w, f)
           reserved == Reserve(claimed, final, FALSE, f)
           pair     == [frame |-> "first", second |-> final, off |-> off, stale |-> FALSE]
           paired   == IF count = 1 THEN reserved ELSE [reserved EXCEPT !.sch.pair = pair]
<1>1. StartWspr(w, slot, count, f) =
        IF claimed.svc.owner # "local" THEN w
        ELSE IF ~Reserved(reserved, final) THEN Release(reserved, f)
        ELSE PrepareFrame(paired, slot, f)
  BY DEF StartWspr
<1>2. /\ final \in Int /\ final >= slot
      /\ count # 1 => final = slot + SlotDuration
  BY SchedulerAssumption
<1>3. w \in Worlds
  BY DEF Held, Core
<1>4. Held(claimed, l) /\ ~Out(claimed.svc) /\ claimed.ram = w.ram /\ claimed.sch = w.sch
  BY <1>3, CallsHeld, ClaimDoes DEF ByService, Out
<1>5. /\ l <= w.disk.mark /\ w.ram.data = w.disk /\ l \in Nat /\ w.disk.mark \in Nat
  BY HealthyFacts
<1> HIDE DEF claimed, final
<1>6. final > claimed.ram.data.mark
  BY <1>2, <1>4, <1>5
<1>7. Reserves(claimed, reserved, l, final, FALSE)
  BY <1>2, <1>4, ReserveHeld
<1> HIDE DEF reserved
<1>8. /\ Held(reserved, l) /\ reserved.sch = w.sch /\ ~Out(reserved.svc)
      /\ Reserved(reserved, final) => reserved.disk.mark = final
  BY <1>4, <1>6, <1>7 DEF Reserves
<1>9. Held(Release(reserved, f), l)
  BY <1>8, CallsHeld
<1>10. CASE Reserved(reserved, final)
  <2>1. reserved \in Worlds /\ reserved.sch \in Schs
    BY <1>8, WorldFields DEF Held, Core
  <2>2. pair \in [frame: {"none", "first", "second"}, second: Int, off: Int, stale: BOOLEAN]
    BY <1>2
  <2> DEFINE u == IF count = 1 THEN w.sch.pair ELSE pair
             t == [w.sch EXCEPT !.pair = u]
             r == [w.sch EXCEPT !.pair = u, !.lastJob = slot]
             v == [paired EXCEPT !.sch.lastJob = slot]
  <2>3. u \in [frame: {"none", "first", "second"}, second: Int, off: Int, stale: BOOLEAN]
    BY <1>8, <2>1, <2>2 DEF Schs
  <2>4. /\ count = 1 => u.frame = "none"
        /\ count # 1 => u.frame = "first" /\ u.second = final
    OBVIOUS
  <2>5. paired = [reserved EXCEPT !.sch = t]
    <3>1. CASE count = 1
      <4>1. w.sch \in Schs /\ u = w.sch.pair
        BY <1>8, <2>1, <3>1
      <4>2. t = w.sch
        BY <4>1 DEF Schs
      <4> HIDE DEF t
      <4>3. [reserved EXCEPT !.sch = t] = reserved
        BY <1>8, <2>1, <4>2 DEF Worlds
      <4> QED
        BY <3>1, <4>3
    <3>2. CASE count # 1
      <4>1. paired = [reserved EXCEPT !.sch.pair = pair] /\ u = pair
        BY <3>2
      <4> HIDE DEF u, paired
      <4> QED
        BY <1>8, <4>1
    <3> QED
      BY <3>1, <3>2
  <2> HIDE DEF u, pair, paired
  <2>6. /\ t \in Schs /\ t.suspended = w.sch.suspended /\ t.reboot = w.sch.reboot /\ t.pair = u
        /\ r = [t EXCEPT !.lastJob = slot]
    BY <1>8, <2>1, <2>3 DEF Schs
  <2>7. /\ r \in Schs /\ r.pair = u /\ r.lastJob = slot /\ r.boot = w.sch.boot
        /\ r.pins = w.sch.pins /\ r.reboot = w.sch.reboot
    BY <1>8, <2>1, <2>3 DEF Schs
  <2> HIDE DEF t, r
  <2>8. paired \in Worlds /\ paired.sch = t /\ paired.disk = reserved.disk /\ paired.svc = reserved.svc
        /\ paired.ram = reserved.ram
    BY <2>1, <2>5, <2>6 DEF Worlds
  <2>9. /\ v \in Worlds /\ v.sch = r /\ v.svc = reserved.svc /\ v.ram = reserved.ram
        /\ v.disk = reserved.disk
    <3>1. v = [paired EXCEPT !.sch = r]
      BY <2>6, <2>8
    <3> HIDE DEF v
    <3> QED
      BY <2>7, <2>8, <3>1 DEF Worlds
  <2> HIDE DEF v
  <2>10. slot > l /\ slot <= reserved.disk.mark
    BY <1>2, <1>5, <1>8, <1>10
  <2>11. Stored(v, l)
    BY <1>8, <2>9 DEF Held, Core, Stored
  <2>12. Owned(v, l)
    BY <1>8, <2>9 DEF Held, Core, Owned
  <2>13. Paired(v, l)
    <3>1. l \in Nat /\ l <= slot
      BY <1>5, <2>10
    <3>2. reserved.disk.mark = final /\ final <= final
      BY <1>2, <1>8, <1>10
    <3> QED
      BY <1>2, <1>8, <2>4, <2>7, <2>9, <3>1, <3>2 DEF Paired
  <2>14. Settled(v)
    BY <1>8, <2>7, <2>9 DEF Held, Settled
  <2>15. Held(v, l)
    BY <2>9, <2>11, <2>12, <2>13, <2>14 DEF Held, Core
  <2>16. /\ ~paired.sch.suspended /\ ~paired.sch.reboot /\ paired.sch.pair.frame # "second"
         /\ slot <= paired.disk.mark
    BY <2>4, <2>6, <2>8, <2>10
  <2>17. Held(PrepareFrame(paired, slot, f), l)
    BY <2>8, <2>10, <2>15, <2>16, PrepareFrameHeld DEF v
  <2> QED
    BY <1>1, <1>10, <2>17
<1> QED
  BY <1>1, <1>9, <1>10

\* And so does poll().
LEMMA PollHeld ==
    ASSUME NEW w, NEW l, Held(w, l), NEW count \in 1..2, NEW f, off \in Nat, utc \in Nat
    PROVE  Held(PollOf(w, count, f), l)
<1> DEFINE slot == Min(WsprCandidates(w))
<1>1. CASE PollOf(w, count, f) = w
  BY <1>1
<1>2. CASE PollOf(w, count, f) = PollMessage(w, f)
  BY <1>2, PollMessageHeld
<1>3. CASE PollOf(w, count, f) = PollPair(w, f) /\ w.sch.pair.frame # "none"
  BY <1>3, PollPairHeld
<1>4. CASE /\ PollOf(w, count, f) = StartWspr(w, slot, count, f)
           /\ w.sch.pair.frame = "none" /\ w.ram.ok /\ ~w.sch.reboot /\ ~w.sch.suspended
           /\ Idle(w) /\ WsprCandidates(w) # {}
  <2>1. slot \in Int /\ slot > w.ram.data.mark
    BY <1>4, CandidateBeyond
  <2>2. ~Out(w.svc)
    BY <1>4, IdleOut
  <2> HIDE DEF slot
  <2>3. Held(StartWspr(w, slot, count, f), l)
    BY <1>4, <2>1, <2>2, StartWsprHeld
  <2> QED
    BY <1>4, <2>3
<1> QED
  BY <1>1, <1>2, <1>3, <1>4 DEF PollOf

-------------------------------------------------------------------------------
(* Commands *)

\* STOP ends what the scheduler has out, whichever of its two jobs that is.
LEMMA StopHeld ==
    ASSUME NEW w0, NEW l, Held(w0, l), NEW f
    PROVE  Held(StopOf(w0, f), l) /\ (w0.svc.owner = "none" => StopOf(w0, f).svc = w0.svc)
<1> DEFINE w    == [w0 EXCEPT !.sch.suspended = TRUE, !.sch.pair = NoPair]
           t    == [w0.sch EXCEPT !.suspended = TRUE, !.pair = NoPair]
           mine == /\ w.svc.owner = "local" /\ w.svc.job # NoJob
                   /\ w.svc.job \in {Job("wspr", w.sch.lastJob), Job("msg", w.sch.msgJob)}
           v    == StopOf(w0, f)
<1>1. v = IF ~mine THEN w
          ELSE IF w.svc.state \in Executing \cup {"LOADED"}
               THEN IF f = "abort" THEN Abort(w, f) ELSE Release(Abort(w, f), f)
          ELSE Release(w, f)
  BY DEF StopOf
<1>2. w0 \in Worlds /\ w0.sch \in Schs /\ (w0.sch.pins => w0.sch.reboot)
  BY WorldFields DEF Held, Core, Settled
<1>3. /\ t \in Schs /\ t.suspended /\ t.pair.frame = "none" /\ t.lastJob = w0.sch.lastJob
      /\ t.msgJob = w0.sch.msgJob /\ t.boot = w0.sch.boot /\ t.pins = w0.sch.pins
      /\ t.reboot = w0.sch.reboot
  <2>1. /\ NoPair \in [frame: {"none", "first", "second"}, second: Int, off: Int, stale: BOOLEAN]
        /\ NoPair.frame = "none"
    BY DEF NoPair
  <2> QED
    BY <1>2, <2>1 DEF Schs
<1>4. w = [w0 EXCEPT !.sch = t]
  BY <1>2 DEF Worlds
<1> HIDE DEF t, w
<1>5. /\ w \in Worlds /\ w.svc = w0.svc /\ w.ram = w0.ram /\ w.disk = w0.disk /\ w.sch = t
  BY <1>2, <1>3, <1>4 DEF Worlds
<1>6. /\ ByService(w, v) /\ v \in Worlds /\ ~Out(v.svc)
      /\ v.svc = w.svc \/ v.svc.state \notin {"ARMED", "RUNNING", "COMPLETE"}
  <2>1. CASE v = w /\ ~mine
    <3>1. Out(w0.svc) => mine
      <4>1. Out(w0.svc) => /\ w0.svc.owner = "local"
                           /\ w0.svc.job \in {Job("wspr", w0.sch.lastJob), Job("msg", w0.sch.msgJob)}
                           /\ w0.svc.job.kind # "none"
        BY DEF Held, Core, Owned, Out
      <4>2. NoJob.kind = "none"
        BY DEF NoJob
      <4> QED
        BY <1>3, <1>5, <4>1, <4>2
    <3> QED
      BY <1>5, <2>1, <3>1 DEF ByService
  <2>2. CASE v = Abort(w, f)
    BY <1>5, <2>2, AbortDoes DEF Out, Executing
  <2>3. CASE v = Release(Abort(w, f), f)
    <3>1. /\ ByService(w, Abort(w, f)) /\ Abort(w, f) \in Worlds
          /\ Abort(w, f).svc.state \in {"FAILED", "ABORTED"}
      BY <1>5, AbortDoes
    <3>2. /\ ByService(Abort(w, f), v) /\ v \in Worlds
          /\ v = Abort(w, f) \/ v.svc.state = "EMPTY"
      BY <2>3, <3>1, ReleaseDoes
    <3> QED
      BY <3>1, <3>2 DEF ByService, Out, Executing
  <2>4. CASE v = Release(w, f) /\ w.svc.state \notin Executing
    <3>1. /\ ByService(w, v) /\ v \in Worlds
          /\ v = w \/ v.svc.state = "EMPTY"
      BY <1>5, <2>4, ReleaseDoes
    <3> QED
      BY <2>4, <3>1 DEF Out, Executing
  <2> QED
    BY <1>1, <2>1, <2>2, <2>3, <2>4
<1>7. w0.svc.owner = "none" => v.svc = w0.svc
  BY <1>1, <1>5
<1> HIDE DEF v
<1> DEFINE s == v.svc
           u == [w0 EXCEPT !.svc = s]
<1>8. s \in Svcs
  BY <1>6, WorldFields
<1>9. Calms(w0.svc, s)
  BY <1>5, <1>6 DEF Calms
<1>10. u \in Worlds /\ ByService(w0, u) /\ u.svc = s
  BY <1>2, <1>8, WithService DEF ByService
<1>11. Held(u, l)
  BY <1>9, <1>10, CalmHeld
<1>12. ~Out(u.svc) /\ u.sch = w0.sch /\ u.ram = w0.ram /\ u.disk = w0.disk
  BY <1>6, <1>10 DEF ByService
<1>13. v = [u EXCEPT !.sch = t]
  BY <1>5, <1>6, <1>10, <1>12 DEF Worlds, ByService
<1> HIDE DEF u
<1>14. Follows(u, t)
  BY <1>2, <1>3, <1>12 DEF Follows
<1> QED
  BY <1>7, <1>11, <1>13, <1>14, SchHeld DEF v

\* With no job out, the restart latches and the interlock are free.
LEMMA LatchCore ==
    ASSUME NEW w, NEW l, Core(w, l), ~Out(w.svc), NEW v \in Worlds,
           v.ram = w.ram, v.disk = w.disk, v.svc.state = w.svc.state, v.svc.job = w.svc.job,
           v.sch.lastJob = w.sch.lastJob, v.sch.msgJob = w.sch.msgJob, v.sch.pair = w.sch.pair
    PROVE  Core(v, l) /\ ~Out(v.svc)
<1>1. ~Out(v.svc)
  BY DEF Out
<1>2. Stored(v, l)
  BY DEF Core, Stored
<1>3. Owned(v, l)
  BY <1>1 DEF Core, Owned
<1>4. Paired(v, l)
  BY <1>1 DEF Core, Paired
<1> QED
  BY <1>1, <1>2, <1>3, <1>4 DEF Core

\* The outputs are held until a restart.
Pinned(d) == Inhibit([d EXCEPT !.sch.pins = TRUE])

\* With the outputs held, the settings are all that may differ from this boot's.
LEMMA PinnedCore ==
    ASSUME NEW d, NEW l, Core(d, l), ~Out(d.svc)
    PROVE  /\ Core(Pinned(d), l) /\ ~Out(Pinned(d).svc) /\ Pinned(d).ram = d.ram
           /\ Pinned(d).sch.boot = d.sch.boot /\ Pinned(d).sch.pins
           /\ Pinned(d).svc.owner = d.svc.owner
<1> DEFINE s == [d.svc EXCEPT !.inhibited = TRUE]
           t == [d.sch EXCEPT !.pins = TRUE]
           h == Pinned(d)
<1>1. d \in Worlds /\ d.svc \in Svcs /\ d.sch \in Schs
  BY WorldFields DEF Core
<1>2. s \in Svcs /\ s.state = d.svc.state /\ s.job = d.svc.job /\ s.owner = d.svc.owner
  BY <1>1 DEF Svcs
<1>3. /\ t \in Schs /\ t.lastJob = d.sch.lastJob /\ t.msgJob = d.sch.msgJob /\ t.pair = d.sch.pair
      /\ t.boot = d.sch.boot /\ t.pins
  BY <1>1 DEF Schs
<1>4. h = [d EXCEPT !.svc = s, !.sch = t]
  BY <1>1 DEF Pinned, Inhibit, Worlds
<1> HIDE DEF s, t, h
<1>5. h \in Worlds /\ h.svc = s /\ h.sch = t /\ h.ram = d.ram /\ h.disk = d.disk
  BY <1>1, <1>2, <1>3, <1>4 DEF Worlds
<1>6. Core(h, l) /\ ~Out(h.svc)
  BY <1>2, <1>3, <1>5, LatchCore
<1> QED
  BY <1>2, <1>3, <1>5, <1>6 DEF h

\* The restart latch and the hardware fault.
Latched(h, reboot, failed) == [h EXCEPT !.sch.hwFailed = failed, !.sch.reboot = reboot]

\* With the latch set the settings may differ, for the outputs are held.
LEMMA LatchedHeld ==
    ASSUME NEW h, NEW l, Core(h, l), ~Out(h.svc),
           h.ram.data.cfg.hw # h.sch.boot.hw => h.sch.pins,
           NEW reboot \in BOOLEAN, NEW failed \in BOOLEAN, h.sch.pins => reboot
    PROVE  Held(Latched(h, reboot, failed), l) /\ Latched(h, reboot, failed).svc = h.svc
<1> DEFINE t == [h.sch EXCEPT !.reboot = reboot, !.hwFailed = failed]
           v == Latched(h, reboot, failed)
<1>1. h \in Worlds /\ h.sch \in Schs
  BY WorldFields DEF Core
<1>2. /\ t \in Schs /\ t.lastJob = h.sch.lastJob /\ t.msgJob = h.sch.msgJob /\ t.pair = h.sch.pair
      /\ t.boot = h.sch.boot /\ t.pins = h.sch.pins /\ t.reboot = reboot
  BY <1>1 DEF Schs
<1>3. v = [h EXCEPT !.sch = t]
  BY <1>1 DEF Worlds, Schs, Latched
<1> HIDE DEF t, v
<1>4. v \in Worlds /\ v.svc = h.svc /\ v.sch = t /\ v.ram = h.ram /\ v.disk = h.disk
  BY <1>1, <1>2, <1>3 DEF Worlds
<1>5. Core(v, l) /\ ~Out(v.svc)
  BY <1>2, <1>4, LatchCore
<1>6. Settled(v)
  BY <1>2, <1>4, <1>5 DEF Settled
<1> QED
  BY <1>4, <1>5, <1>6 DEF Held, v

\* CONFIG: settings that differ from those of this boot hold the outputs.
LEMMA ConfigHeld ==
    ASSUME NEW w, NEW l, Held(w, l), NEW f,
           NEW c0 \in [enabled: BOOLEAN, dial: BOOLEAN, hw: Hardware, net: Networks]
    PROVE  Held(ConfigOf(w, c0, f), l) /\ ConfigOf(w, c0, f).svc.owner = w.svc.owner
<1> DEFINE c     == IF c0.dial /\ ~w.ram.data.cfg.dial THEN [c0 EXCEPT !.enabled = FALSE] ELSE c0
           next  == [w.ram.data EXCEPT !.cfg = c]
           done  == IF c = w.ram.data.cfg THEN w ELSE Saved(w, next, f)
           moved == c.hw # w.sch.boot.hw
           held  == IF moved THEN Inhibit([done EXCEPT !.sch.pins = TRUE]) ELSE done
           v1    == [held EXCEPT !.sch.hwFailed = TRUE, !.sch.reboot = TRUE]
           v2    == [held EXCEPT !.sch.reboot =
                                   w.sch.external \/ held.sch.pins \/ c.net # w.sch.boot.net]
<1>1. ConfigOf(w, c0, f) =
        IF ~Idle(w) \/ ~MaySaveConfig(w, c) THEN w
        ELSE IF ~done.ram.ok THEN done
        ELSE IF moved /\ f = "inhibit" THEN v1
        ELSE v2
  BY DEF ConfigOf
<1>2. c \in Cfgs
  BY DEF Cfgs
<1> HIDE DEF c
<1>3. CASE Idle(w) /\ MaySaveConfig(w, c)
  <2>1. w.ram.ok /\ ~(c.enabled /\ w.ram.data.msg = "enabled") /\ ~Out(w.svc)
    BY <1>3, IdleOut DEF MaySaveConfig
  <2>2. /\ w \in Worlds /\ w.ram.data = w.disk /\ w.disk \in Recs /\ Fits(w.disk)
        /\ w.disk.mark \in Nat
    BY <2>1, HealthyFacts
  <2>3. /\ next \in Recs /\ next.mark = w.disk.mark /\ next.flight = w.disk.flight
        /\ next.cfg = c /\ next.msg = w.disk.msg /\ next.lastMsg = w.disk.lastMsg
    BY <1>2, <2>2 DEF Recs
  <2> HIDE DEF next
  <2>4. Fits(next)
    BY <2>1, <2>2, <2>3 DEF Fits
  <2>5. next.mark >= w.disk.mark
    BY <2>2, <2>3
  <2>6. /\ Core(done, l) /\ done.svc = w.svc /\ SameSch(w.sch, done.sch)
        /\ done.ram.ok => done.ram.data.cfg = c
        /\ ~done.ram.ok => done.ram.data = w.ram.data
    <3>1. CASE c = w.ram.data.cfg
      <4>1. SameSch(w.sch, w.sch)
        BY <2>2, WorldFields DEF SameSch
      <4> QED
        BY <2>1, <3>1, <4>1 DEF Held
    <3>2. CASE c # w.ram.data.cfg
      <4>1. Appends(w, done, next)
        BY <2>1, <2>2, <2>3, <3>2, SavedDoes
      <4> HIDE DEF done
      <4>2. Core(done, l)
        BY <2>1, <2>3, <2>4, <2>5, <4>1, AppendsCore DEF Held
      <4> QED
        BY <2>3, <4>1, <4>2 DEF Appends
    <3> QED
      BY <3>1, <3>2
  <2> HIDE DEF done
  <2>7. CASE ~done.ram.ok
    <3>1. Settled(done)
      BY <2>1, <2>6, <2>7 DEF Settled, SameSch, Held
    <3>2. ConfigOf(w, c0, f) = done
      BY <1>1, <1>3, <2>7
    <3> QED
      BY <2>6, <3>1, <3>2 DEF Held
  <2>8. CASE done.ram.ok
    <3>1. /\ Core(held, l) /\ ~Out(held.svc) /\ held.ram = done.ram
          /\ held.sch.boot = w.sch.boot /\ (moved => held.sch.pins)
          /\ held.svc.owner = w.svc.owner
      <4>1. CASE moved
        <5>1. held = Pinned(done)
          BY <4>1 DEF Pinned
        <5> HIDE DEF held
        <5> QED
          BY <2>1, <2>6, <5>1, PinnedCore DEF SameSch
      <4>2. CASE ~moved
        BY <2>1, <2>6, <4>2 DEF SameSch
      <4> QED
        BY <4>1, <4>2
    <3>2. held.ram.data.cfg.hw # held.sch.boot.hw => held.sch.pins
      BY <2>6, <2>8, <3>1
    <3> HIDE DEF held, moved
    <3>3. /\ held \in Worlds /\ held.sch \in Schs /\ held.sch.pins \in BOOLEAN
          /\ held.sch.hwFailed \in BOOLEAN /\ w.sch.external \in BOOLEAN
      BY <2>2, <3>1, WorldFields DEF Core, Schs
    <3> DEFINE reboot == w.sch.external \/ held.sch.pins \/ c.net # w.sch.boot.net
    <3>4. v1 = Latched(held, TRUE, TRUE)
      BY DEF Latched
    <3>5. v2 = Latched(held, reboot, held.sch.hwFailed)
      <4>1. held.sch = [held.sch EXCEPT !.hwFailed = held.sch.hwFailed]
        BY <3>3 DEF Schs
      <4> QED
        BY <3>3, <4>1 DEF Latched, Worlds, Schs
    <3>6. reboot \in BOOLEAN /\ (held.sch.pins => reboot)
      BY <3>3
    <3> HIDE DEF reboot, v1, v2
    <3>7. Held(v1, l) /\ v1.svc = held.svc
      BY <3>1, <3>2, <3>4, LatchedHeld
    <3>8. Held(v2, l) /\ v2.svc = held.svc
      BY <3>1, <3>2, <3>3, <3>5, <3>6, LatchedHeld
    <3> QED
      BY <1>1, <1>3, <2>8, <3>1, <3>7, <3>8
  <2> QED
    BY <2>7, <2>8
<1>4. CASE ~(Idle(w) /\ MaySaveConfig(w, c))
  BY <1>1, <1>4
<1> QED
  BY <1>3, <1>4

\* The browser saves a message schedule, or disables it.
LEMMA PutMessageHeld ==
    ASSUME NEW w, NEW l, Held(w, l), NEW m \in {"enabled", "paused"}, NEW f
    PROVE  Held(PutMessageOf(w, m, f), l) /\ PutMessageOf(w, m, f).svc = w.svc
<1> DEFINE done    == Saved(w, [w.ram.data EXCEPT !.msg = m], f)
           cleared == IF m = "enabled" THEN done ELSE ClearFlight(done, f)
           on      == m = "enabled"
<1>1. PutMessageOf(w, m, f) =
        IF \/ ~w.ram.ok \/ ~Idle(w) \/ ~MaySaveMessage(w, m)
           \/ m = "enabled" /\ MessageRecovery(w)
        THEN w
        ELSE IF ~cleared.ram.ok THEN cleared
        ELSE MessageSaved(cleared, on)
  BY DEF PutMessageOf
<1>2. CASE Idle(w) /\ MaySaveMessage(w, m)
  <2>1. Held(done, l) /\ ~Out(done.svc) /\ done.svc = w.svc
    <3>1. m \in {"paused", "enabled"}
      OBVIOUS
    <3>2. Held(done, l) /\ done.svc = w.svc
      BY <1>2, <3>1, SaveMessageHeld
    <3> HIDE DEF done
    <3> QED
      BY <1>2, <3>2, IdleOut
  <2> HIDE DEF done
  <2>2. Held(cleared, l) /\ cleared.svc = w.svc
    BY <2>1, ClearFlightHeld
  <2>3. on \in BOOLEAN
    OBVIOUS
  <2> HIDE DEF cleared, on
  <2>4. Held(MessageSaved(cleared, on), l) /\ MessageSaved(cleared, on).svc = w.svc
    BY <2>2, <2>3, MessageSavedHeld
  <2> QED
    BY <1>1, <2>2, <2>4
<1>3. CASE ~(Idle(w) /\ MaySaveMessage(w, m))
  BY <1>1, <1>3
<1> QED
  BY <1>2, <1>3

\* A pause is kept in memory even when it cannot be saved.
LEMMA PauseHeld ==
    ASSUME NEW w, NEW l, Held(w, l), NEW f
    PROVE  Held(PauseOf(w, f), l) /\ PauseOf(w, f).svc = w.svc
<1>1. w \in Worlds /\ w.sch \in Schs /\ (w.sch.pins => w.sch.reboot) /\ (Out(w.svc) => ~w.sch.suspended)
  BY WorldFields DEF Held, Core, Settled, Owned
<1> DEFINE t == [w.sch EXCEPT !.pause = TRUE]
           v == [w EXCEPT !.sch.pause = TRUE]
<1>2. Follows(w, t)
  BY <1>1 DEF Follows, Schs
<1>3. v = [w EXCEPT !.sch = t]
  BY <1>1 DEF Worlds
<1>4. PauseOf(w, f) \in {w, FinishPause(v, f)}
  BY DEF PauseOf
<1> HIDE DEF t, v
<1>5. Held(v, l) /\ v.svc = w.svc
  BY <1>2, <1>3, SchHeld
<1>6. Held(FinishPause(v, f), l) /\ FinishPause(v, f).svc = w.svc
  BY <1>5, FinishPauseHeld
<1> QED
  BY <1>4, <1>6

\* Filter settings that differ from this boot's hold the outputs too.
LEMMA SaveFiltersHeld ==
    ASSUME NEW w, NEW l, Held(w, l), NEW moved \in BOOLEAN, NEW f
    PROVE  /\ Held(SaveFiltersOf(w, moved, f), l)
           /\ SaveFiltersOf(w, moved, f).svc.owner = w.svc.owner
<1> DEFINE done == Saved(w, w.ram.data, f)
           held == Inhibit([done EXCEPT !.sch.pins = TRUE, !.sch.reboot = TRUE])
           v    == [held EXCEPT !.sch.hwFailed = TRUE]
<1>1. SaveFiltersOf(w, moved, f) =
        IF ~Idle(w) \/ ~w.ram.ok THEN w
        ELSE IF ~done.ram.ok \/ ~moved THEN done
        ELSE IF f = "inhibit" THEN v ELSE held
  BY DEF SaveFiltersOf
<1>2. CASE Idle(w) /\ w.ram.ok
  <2>1. Held(done, l) /\ ~Out(done.svc) /\ done.svc = w.svc
    BY <1>2, SaveSameHeld, IdleOut
  <2> HIDE DEF done
  <2>2. /\ Core(Pinned(done), l) /\ ~Out(Pinned(done).svc) /\ Pinned(done).sch.pins
        /\ Pinned(done).svc.owner = w.svc.owner
        /\ done \in Worlds /\ done.sch \in Schs /\ done.svc \in Svcs
    BY <2>1, PinnedCore, WorldFields DEF Held, Core
  <2>3. done.sch.hwFailed \in BOOLEAN
    BY <2>2 DEF Schs
  <2> DEFINE u  == [done.svc EXCEPT !.inhibited = TRUE]
             t  == [done.sch EXCEPT !.pins = TRUE]
             t1 == [done.sch EXCEPT !.pins = TRUE, !.reboot = TRUE]
             t2 == [done.sch EXCEPT !.pins = TRUE, !.reboot = TRUE, !.hwFailed = TRUE]
             h  == Pinned(done)
  <2>4. h = [done EXCEPT !.svc = u, !.sch = t]
    BY <2>2 DEF Pinned, Inhibit, Worlds
  <2>5. held = [done EXCEPT !.svc = u, !.sch = t1]
    BY <2>2 DEF Inhibit, Worlds, Schs
  <2>6. v = [done EXCEPT !.svc = u, !.sch = t2]
    <3> HIDE DEF held
    <3> QED
      BY <2>2, <2>5 DEF Worlds
  <2>7. /\ t1 = [t EXCEPT !.hwFailed = done.sch.hwFailed, !.reboot = TRUE]
        /\ t2 = [t EXCEPT !.hwFailed = TRUE, !.reboot = TRUE]
    BY <2>2 DEF Schs
  <2> HIDE DEF held, v, u, t, t1, t2, h
  <2>8. h.sch = t /\ h.svc = u
    BY <2>2, <2>4 DEF Worlds
  <2>9. held = Latched(h, TRUE, done.sch.hwFailed)
    <3>1. Latched(h, TRUE, done.sch.hwFailed) = [h EXCEPT !.sch = t1]
      BY <2>2, <2>4, <2>7, <2>8 DEF Latched, Worlds
    <3>2. [h EXCEPT !.sch = t1] = [done EXCEPT !.svc = u, !.sch = t1]
      BY <2>2, <2>4 DEF Worlds
    <3> QED
      BY <2>5, <3>1, <3>2
  <2>10. v = Latched(h, TRUE, TRUE)
    <3>1. Latched(h, TRUE, TRUE) = [h EXCEPT !.sch = t2]
      BY <2>2, <2>4, <2>7, <2>8 DEF Latched, Worlds
    <3>2. [h EXCEPT !.sch = t2] = [done EXCEPT !.svc = u, !.sch = t2]
      BY <2>2, <2>4 DEF Worlds
    <3> QED
      BY <2>6, <3>1, <3>2
  <2>11. Held(held, l) /\ held.svc = h.svc
    BY <2>2, <2>3, <2>9, LatchedHeld DEF h
  <2>12. Held(v, l) /\ v.svc = h.svc
    BY <2>2, <2>10, LatchedHeld DEF h
  <2> QED
    BY <1>1, <2>1, <2>2, <2>11, <2>12 DEF h
<1>3. CASE ~(Idle(w) /\ w.ram.ok)
  BY <1>1, <1>3
<1> QED
  BY <1>2, <1>3

\* The logging settings share the journal.
LEMMA SaveLoggingHeld ==
    ASSUME NEW w, NEW l, Held(w, l), NEW f
    PROVE  Held(SaveLoggingOf(w, f), l) /\ SaveLoggingOf(w, f).svc = w.svc
BY SaveSameHeld DEF SaveLoggingOf

\* Network settings that were saved elsewhere ask for a restart.
NetworkRestart(w) == [w EXCEPT !.sch.external = TRUE, !.sch.reboot = TRUE]

\* A restart that is asked for changes nothing before it happens.
LEMMA NetworkRestartHeld ==
    ASSUME NEW w, NEW l, Held(w, l)
    PROVE  Held(NetworkRestart(w), l) /\ NetworkRestart(w).svc = w.svc
<1>1. w \in Worlds /\ w.sch \in Schs /\ (w.sch.pins => w.sch.reboot) /\ (Out(w.svc) => ~w.sch.suspended)
  BY WorldFields DEF Held, Core, Settled, Owned
<1> DEFINE t == [w.sch EXCEPT !.external = TRUE, !.reboot = TRUE]
           v == NetworkRestart(w)
<1>2. Follows(w, t)
  BY <1>1 DEF Follows, Schs
<1>3. v = [w EXCEPT !.sch = t]
  BY <1>1 DEF NetworkRestart, Worlds
<1> HIDE DEF t, v
<1>4. Held(v, l) /\ v.svc = w.svc
  BY <1>2, <1>3, SchHeld
<1> QED
  BY <1>4 DEF v

-------------------------------------------------------------------------------
(* Steps *)

\* A step that makes w of the world.
LEMMA BecameHeld ==
    ASSUME NEW w, Held(w, last), Became(w)
    PROVE  Held(World', last)
<1>1. w \in Worlds
  BY DEF Held, Core
<1>2. World' = [svc |-> w.svc, ram |-> w.ram, disk |-> w.disk, sch |-> w.sch]
  BY DEF Became, World
<1>3. World' = w
  BY <1>1, <1>2 DEF Worlds
<1> QED
  BY <1>3

\* A step of the service that leaves the scheduler's job alone or ends it.
LEMMA ServiceHeld ==
    ASSUME Held(World, last), NEW s \in Svcs, Calms(svc, s), svc' = s, UNCHANGED <<ram, disk, sch>>
    PROVE  Held(World', last)
<1>1. World \in Worlds /\ World.svc = svc
  BY DEF Held, Core, World
<1> DEFINE v == World'
<1>2. v.svc = s /\ v.ram = World.ram /\ v.disk = World.disk /\ v.sch = World.sch
  BY DEF World
<1>3. v \in Worlds
  BY <1>1 DEF World, Worlds
<1> HIDE DEF v
<1>4. Held(v, last)
  BY <1>1, <1>2, <1>3, CalmHeld DEF ByService
<1> QED
  BY <1>4 DEF v

\* A boot on a record that load accepts.
LEMMA FreshHeld ==
    ASSUME NEW d \in Recs, Fits(d), NEW l \in Nat, l <= d.mark,
           NEW w, w = [svc |-> FreshService, ram |-> [ok |-> TRUE, data |-> d], disk |-> d,
                       sch |-> Fresh(d)]
    PROVE  Held(w, l)
<1>1. FreshService \in Svcs /\ FreshService.state = "EMPTY"
  <2>1. NoJob \in [kind: Kinds, slot: Int]
    BY DEF NoJob, Kinds
  <2> QED
    BY <2>1 DEF FreshService, Svcs
<1>2. /\ Fresh(d) \in Schs /\ Fresh(d).pair.frame = "none" /\ Fresh(d).boot.hw = d.cfg.hw
      /\ Fresh(d).pins = FALSE
  <2>1. NoPair \in [frame: {"none", "first", "second"}, second: Int, off: Int, stale: BOOLEAN]
    BY DEF NoPair
  <2>2. d.cfg.hw \in Hardware \cup {FactoryHardware} /\ d.cfg.net \in Networks \cup {-1}
    BY DEF Recs, Cfgs
  <2> QED
    BY <2>1, <2>2 DEF Fresh, Schs, NoPair
<1>3. /\ w \in Worlds /\ w.svc = FreshService /\ w.ram.data = d /\ w.disk = d
      /\ w.sch = Fresh(d)
  BY <1>1, <1>2 DEF Worlds
<1>4. ~Out(w.svc)
  BY <1>1, <1>3 DEF Out, Executing
<1>5. Stored(w, l)
  BY <1>3 DEF Stored
<1>6. Owned(w, l)
  BY <1>1, <1>3, <1>4 DEF Owned, Executing
<1>7. Paired(w, l)
  BY <1>2, <1>3 DEF Paired
<1>8. Settled(w)
  BY <1>2, <1>3, <1>4 DEF Settled
<1> QED
  BY <1>3, <1>5, <1>6, <1>7, <1>8 DEF Held, Core

\* The flash holds what an earlier boot saved.
LEMMA InitSound == Init => Sound
<1> SUFFICES ASSUME Init PROVE Sound
  OBVIOUS
<1>1. disk \in Recs /\ Fits(disk) /\ disk.mark = 0
  <2>1. NoCfg \in Cfgs /\ ~NoCfg.enabled
    BY DEF NoCfg, Cfgs
  <2>2. Blank \in Recs /\ Fits(Blank) /\ Blank.mark = 0 /\ Blank.lastMsg = 0 /\ Blank.flight = FALSE
    BY <2>1 DEF Blank, Recs, Fits
  <2>3. CASE disk = Blank
    BY <2>2, <2>3
  <2>4. ASSUME NEW e \in BOOLEAN, NEW m \in {"none", "paused", "enabled"}, disk = Configured(e, m)
        PROVE  disk \in Recs /\ Fits(disk) /\ disk.mark = 0
    <3> DEFINE c == [enabled |-> e, dial |-> TRUE, hw |-> FactoryHardware,
                     net |-> CHOOSE n \in Networks : TRUE]
    <3>1. (CHOOSE n \in Networks : TRUE) \in Networks
      BY SchedulerAssumption
    <3>2. c \in Cfgs
      BY <3>1 DEF Cfgs
    <3>3. disk = [Blank EXCEPT !.cfg = c, !.msg = m]
      BY <2>4 DEF Configured
    <3>4. ~(disk.cfg.enabled /\ disk.msg = "enabled")
      BY DEF Init
    <3> HIDE DEF c
    <3>5. /\ disk \in Recs /\ disk.mark = 0 /\ disk.lastMsg = 0 /\ disk.flight = FALSE
      BY <2>2, <3>2, <3>3 DEF Recs
    <3> QED
      BY <3>4, <3>5 DEF Fits
  <2>5. disk \in Records
    BY DEF Init
  <2> QED
    BY <2>3, <2>4, <2>5 DEF Records
<1>2. World = [svc |-> FreshService, ram |-> [ok |-> TRUE, data |-> disk], disk |-> disk,
               sch |-> Fresh(disk)]
  BY DEF Init, World
<1>3. Held(World, 0)
  BY <1>1, <1>2, FreshHeld
<1>4. off \in Nat
  BY SchedulerAssumption DEF Init
<1> QED
  BY <1>3, <1>4 DEF Init, Sound

\* poll() and the commands.
LEMMA CallSound == ASSUME Sound, Poll \/ FaultyPoll \/ Commands PROVE Sound'
<1>1. Held(World, last) /\ off \in Nat /\ utc \in Nat
  BY DEF Sound, utc
<1>2. UNCHANGED <<clock, last>>
  BY DEF Poll, FaultyPoll, Commands, Counted, Stop, Config, PutMessage, Pause, SaveFilters,
         SaveLogging, RequireNetworkRestart
<1>3. \E w : Held(w, last) /\ Became(w)
  <2>1. CASE Poll \/ FaultyPoll
    <3>1. \E n \in 1..2, f \in Faults : Became(PollOf(World, n, f))
      BY <2>1 DEF Poll, FaultyPoll, Faults
    <3> QED
      BY <1>1, <3>1, PollHeld
  <2>2. CASE Stop
    BY <1>1, <2>2, StopHeld DEF Stop
  <2>3. CASE Config
    BY <1>1, <2>3, ConfigHeld DEF Config
  <2>4. CASE PutMessage
    BY <1>1, <2>4, PutMessageHeld DEF PutMessage
  <2>5. CASE Pause
    BY <1>1, <2>5, PauseHeld DEF Pause
  <2>6. CASE SaveFilters
    BY <1>1, <2>6, SaveFiltersHeld DEF SaveFilters
  <2>7. CASE SaveLogging
    BY <1>1, <2>7, SaveLoggingHeld DEF SaveLogging
  <2>8. CASE RequireNetworkRestart
    <3>1. Became(NetworkRestart(World))
      BY <2>8 DEF RequireNetworkRestart, NetworkRestart
    <3> QED
      BY <1>1, <3>1, NetworkRestartHeld
  <2> QED
    BY <2>1, <2>2, <2>3, <2>4, <2>5, <2>6, <2>7, <2>8 DEF Commands
<1>4. Held(World', last)
  BY <1>3, BecameHeld
<1> QED
  BY <1>2, <1>4 DEF Sound, clock

\* A restart at any moment finds a record that it can load.
LEMMA BootSound == ASSUME Sound, Boot PROVE Sound'
<1>1. /\ World \in Worlds /\ World.disk = disk /\ Fits(disk) /\ last \in Nat /\ last <= disk.mark
      /\ off \in Nat /\ now \in Nat
  BY DEF Sound, Held, Core, Stored, World
<1>2. disk \in Recs
  BY <1>1, WorldFields
<1>3. World' = [svc |-> FreshService, ram |-> [ok |-> TRUE, data |-> disk], disk |-> disk,
                sch |-> Fresh(disk)]
  BY DEF Boot, World
<1>4. Held(World', last)
  BY <1>1, <1>2, <1>3, FreshHeld
<1> QED
  BY <1>1, <1>4 DEF Sound, Boot

\* The service after each of its steps.
LEMMA ClearedDoes ==
    ASSUME NEW s \in Svcs
    PROVE  Cleared(s) \in Svcs /\ Calms(s, Cleared(s))
<1>1. NoJob \in [kind: Kinds, slot: Int]
  BY DEF NoJob, Kinds
<1> QED
  BY <1>1 DEF Svcs, Cleared, Calms

\* Every end of an execution leaves a terminal state.
LEMMA EndedDoes ==
    ASSUME NEW s \in Svcs, NEW v \in {"complete", "bad"}, NEW out \in BOOLEAN,
           NEW st \in {"MISSED", "COMPLETE", "FAILED"}, st = "COMPLETE" => s.state = "RUNNING",
           NEW t, t = Ended(Recorded(s, v), st, out)
    PROVE  t \in Svcs /\ Calms(s, t)
<1> DEFINE r == Recorded(s, v)
<1>1. r \in Svcs /\ r.job = s.job
  BY DEF Svcs, Recorded
<1> HIDE DEF r
<1>2. t = Ended(r, st, out)
  BY DEF r
<1>3. t \in Svcs /\ t.state = st /\ t.job = s.job
  BY <1>1, <1>2, ZenonT(30) DEF Svcs, Ended
<1> QED
  BY <1>3 DEF Calms

\* A job that the operator aborts.
Aborted(r) == [r EXCEPT !.state = "ABORTED", !.out = FALSE, !.owner = "none", !.release = FALSE]

\* It does not run on.
LEMMA AbortedDoes ==
    ASSUME NEW s \in Svcs
    PROVE  Aborted(Recorded(s, "bad")) \in Svcs /\ Calms(s, Aborted(Recorded(s, "bad")))
<1> DEFINE r == Recorded(s, "bad")
<1>1. r \in Svcs
  BY DEF Svcs, Recorded
<1> HIDE DEF r
<1>2. Aborted(r) \in Svcs /\ Aborted(r).state = "ABORTED"
  BY <1>1 DEF Svcs, Aborted
<1>3. Calms(s, Aborted(r))
  BY <1>2 DEF Calms
<1> QED
  BY <1>2, <1>3 DEF r

\* The launch: the armed start becomes the last one.
LEMMA LaunchHeld == ASSUME Held(World, last), Launch PROVE Held(World', last')
<1> DEFINE s == [svc EXCEPT !.state = "RUNNING", !.out = TRUE]
<1>1. /\ World \in Worlds /\ World.svc = svc /\ World.ram = ram /\ World.disk = disk
      /\ World.sch = sch
  BY DEF Held, Core, World
<1>2. svc \in Svcs /\ sch \in Schs /\ disk \in Recs
  BY <1>1, WorldFields
<1>3. s \in Svcs /\ s.state = "RUNNING" /\ s.job = svc.job /\ s.owner = svc.owner /\ s.record = svc.record
  BY <1>2 DEF Svcs
<1>4. svc' = s /\ svc.state = "ARMED"
  BY DEF Launch
<1> HIDE DEF s
<1>5. World' = [svc |-> s, ram |-> ram, disk |-> disk, sch |-> sch]
  BY <1>4 DEF Launch, World
<1> DEFINE v == World'
<1>6. v \in Worlds /\ v.svc = s /\ v.ram = ram /\ v.disk = disk /\ v.sch = sch
  BY <1>1, <1>3, <1>5 DEF Worlds, World
<1> HIDE DEF v
<1>7. svc.job.kind \in {"wspr", "msg", "other"} /\ svc.job.slot \in Int
  <2>1. svc.job.kind # "none"
    BY <1>1, <1>4 DEF Held, Core, Owned, Executing
  <2> QED
    BY <1>2, <2>1 DEF Svcs, Kinds
<1>8. last' = IF svc.job.kind = "other" THEN last ELSE svc.job.slot
  BY DEF Launch
<1>9. Out(svc) <=> svc.job.kind # "other"
  BY <1>4, <1>7 DEF Out, Executing
<1>10. Out(v.svc) <=> Out(svc)
  BY <1>3, <1>4, <1>6 DEF Out, Executing
<1>11. /\ Out(svc) =>
           /\ svc.owner = "local" /\ svc.record = "none"
           /\ svc.job \in {Job("wspr", sch.lastJob), Job("msg", sch.msgJob)}
           /\ svc.job.slot <= disk.mark /\ svc.job.slot > last
           /\ svc.job.kind = "msg" => disk.flight /\ disk.lastMsg = svc.job.slot
           /\ ~sch.suspended
       /\ last \in Nat /\ last <= disk.mark
  BY <1>1, <1>4 DEF Held, Core, Owned, Stored
<1>12. last' \in Nat /\ last' <= disk.mark
  BY <1>7, <1>8, <1>9, <1>11
<1>13. Stored(v, last')
  BY <1>1, <1>6, <1>12 DEF Held, Core, Stored
<1>14. Owned(v, last')
  BY <1>3, <1>6, <1>7, <1>8, <1>9, <1>10, <1>11 DEF Owned
<1>15. Paired(v, last')
  <2>1. CASE Out(svc) /\ sch.pair.frame # "none"
    <3>1. svc.job = Job("wspr", sch.lastJob)
      BY <1>1, <2>1 DEF Held, Core, Paired
    <3>2. last' = sch.lastJob
      BY <1>8, <1>9, <2>1, <3>1 DEF Job
    <3>3. SlotDuration \in Nat /\ sch.lastJob \in Int /\ sch.pair.second \in Int
      BY <1>2, SchedulerAssumption DEF Schs
    <3> QED
      BY <1>1, <1>3, <1>6, <3>1, <3>2, <3>3 DEF Held, Core, Paired
  <2>2. CASE ~Out(svc) \/ sch.pair.frame = "none"
    <3>1. ~Out(svc) => last' = last
      BY <1>8, <1>9
    <3> QED
      BY <1>1, <1>6, <1>10, <2>2, <3>1 DEF Held, Core, Paired
  <2> QED
    BY <2>1, <2>2
<1>16. Settled(v)
  BY <1>1, <1>6, <1>10 DEF Held, Settled
<1> QED
  BY <1>6, <1>13, <1>14, <1>15, <1>16 DEF Held, Core, v

\* Another client's job takes the place of what the service held.
LEMMA OtherArmsHeld == ASSUME Held(World, last), now \in Nat, OtherArms PROVE Held(World', last)
<1> DEFINE s == [svc EXCEPT !.state = "ARMED", !.job = Job("other", 0), !.at = now + 1]
<1>1. /\ World \in Worlds /\ World.svc = svc /\ World.ram = ram /\ World.disk = disk
      /\ World.sch = sch
  BY DEF Held, Core, World
<1>2. Job("other", 0) \in [kind: Kinds, slot: Int] /\ Job("other", 0).kind = "other"
  BY DEF Job, Kinds
<1>3. s \in Svcs /\ s.state = "ARMED" /\ s.job = Job("other", 0)
  <2>1. svc \in Svcs /\ now + 1 \in Int
    BY <1>1, WorldFields
  <2> QED
    BY <1>2, <2>1 DEF Svcs
<1>4. svc' = s /\ UNCHANGED <<ram, disk, sch>>
  BY DEF OtherArms, SvcDoes
<1> HIDE DEF s
<1>5. World' = [svc |-> s, ram |-> ram, disk |-> disk, sch |-> sch]
  BY <1>4 DEF World
<1> DEFINE v == World'
<1>6. v \in Worlds /\ v.svc = s /\ v.ram = ram /\ v.disk = disk /\ v.sch = sch
  BY <1>1, <1>3, <1>5 DEF Worlds, World
<1> HIDE DEF v
<1>7. ~Out(v.svc)
  BY <1>2, <1>3, <1>6 DEF Out
<1>8. Stored(v, last)
  BY <1>1, <1>6 DEF Held, Core, Stored
<1>9. Owned(v, last)
  BY <1>2, <1>3, <1>6, <1>7 DEF Owned
<1>10. Paired(v, last)
  BY <1>1, <1>6, <1>7 DEF Held, Core, Paired
<1>11. Settled(v)
  BY <1>1, <1>6, <1>7 DEF Held, Settled
<1> QED
  BY <1>6, <1>8, <1>9, <1>10, <1>11 DEF Held, Core, v

\* The service and its other clients.
LEMMA ServiceStepSound == ASSUME Sound, ServiceSteps PROVE Sound'
<1>1. /\ Held(World, last) /\ World \in Worlds /\ World.svc = svc /\ now \in Nat
  BY DEF Sound, Held, Core, World
<1>2. svc \in Svcs
  BY <1>1, WorldFields
<1>3. UNCHANGED clock
  BY DEF ServiceSteps, Launch, Miss, Complete, Fail, Lapse, OtherClaims, OtherArms, OtherLeaves,
         Evict, LocalAbort, Maintenance, SvcDoes
<1>4. ASSUME NEW s \in Svcs, Calms(svc, s), SvcDoes(s)
      PROVE  Held(World', last')
  <2>1. svc' = s /\ UNCHANGED <<ram, disk, sch>> /\ last' = last
    BY <1>4 DEF SvcDoes
  <2>2. Held(World', last)
    BY <1>1, <1>4, <2>1, ServiceHeld
  <2> QED
    BY <2>1, <2>2
<1>5. Out(svc) => svc.owner = "local"
  BY <1>1 DEF Held, Core, Owned
<1>6. Held(World', last')
  <2>1. CASE Launch
    BY <1>1, <2>1, LaunchHeld
  <2>2. CASE Miss \/ Complete \/ Fail
    <3>1. PICK v \in {"complete", "bad"}, out \in BOOLEAN, st \in {"MISSED", "COMPLETE", "FAILED"} :
            /\ SvcDoes(Ended(Recorded(svc, v), st, out))
            /\ st = "COMPLETE" => svc.state = "RUNNING"
      BY <2>2 DEF Miss, Complete, Fail
    <3>2. PICK s : s = Ended(Recorded(svc, v), st, out)
      OBVIOUS
    <3>3. s \in Svcs /\ Calms(svc, s)
      BY <1>2, <3>1, <3>2, EndedDoes
    <3> QED
      BY <1>4, <3>1, <3>2, <3>3
  <2>3. CASE Lapse
    <3> DEFINE s1 == [svc EXCEPT !.release = TRUE]
               s2 == [svc EXCEPT !.owner = "none"]
    <3>1. SvcDoes(s1) \/ SvcDoes(Cleared(svc)) \/ (SvcDoes(s2) /\ svc.state \notin Executing)
      BY <2>3 DEF Lapse
    <3>2. s1 \in Svcs /\ Calms(svc, s1)
      BY <1>2 DEF Svcs, Calms
    <3>3. Cleared(svc) \in Svcs /\ Calms(svc, Cleared(svc))
      BY <1>2, ClearedDoes
    <3>4. svc.state \notin Executing => s2 \in Svcs /\ Calms(svc, s2)
      BY <1>2 DEF Svcs, Calms, Out
    <3> HIDE DEF s1, s2
    <3> QED
      BY <1>4, <3>1, <3>2, <3>3, <3>4
  <2>4. CASE OtherClaims
    <3> DEFINE s == [svc EXCEPT !.owner = "other"]
    <3>1. SvcDoes(s) /\ ~Out(svc)
      BY <1>5, <2>4 DEF OtherClaims
    <3>2. s \in Svcs /\ Calms(svc, s)
      BY <1>2, <3>1 DEF Svcs, Calms
    <3> HIDE DEF s
    <3> QED
      BY <1>4, <3>1, <3>2
  <2>5. CASE OtherArms
    <3>1. last' = last
      BY <2>5 DEF OtherArms, SvcDoes
    <3>2. Held(World', last)
      BY <1>1, <2>5, OtherArmsHeld
    <3> QED
      BY <3>1, <3>2
  <2>6. CASE OtherLeaves
    <3>1. Cleared(svc) \in Svcs /\ Calms(svc, Cleared(svc))
      BY <1>2, ClearedDoes
    <3> QED
      BY <1>4, <2>6, <3>1 DEF OtherLeaves
  <2>7. CASE Evict
    <3> DEFINE s == [svc EXCEPT !.record = "none"]
    <3>1. SvcDoes(s) /\ ~Out(svc)
      BY <1>5, <2>7 DEF Evict
    <3>2. s \in Svcs /\ Calms(svc, s)
      BY <1>2, <3>1 DEF Svcs, Calms
    <3> HIDE DEF s
    <3> QED
      BY <1>4, <3>1, <3>2
  <2>8. CASE LocalAbort
    <3>1. SvcDoes(Aborted(Recorded(svc, "bad")))
      BY <2>8 DEF LocalAbort, Aborted
    <3> QED
      BY <1>2, <1>4, <3>1, AbortedDoes
  <2>9. CASE Maintenance
    <3> DEFINE s == [svc EXCEPT !.maint = ~@]
    <3>1. SvcDoes(s)
      BY <2>9 DEF Maintenance
    <3>2. s \in Svcs /\ Calms(svc, s)
      BY <1>2 DEF Svcs, Calms
    <3> HIDE DEF s
    <3> QED
      BY <1>4, <3>1, <3>2
  <2> QED
    BY <2>1, <2>2, <2>3, <2>4, <2>5, <2>6, <2>7, <2>8, <2>9 DEF ServiceSteps
<1> QED
  BY <1>3, <1>6 DEF Sound, clock

\* Time, and what sets it.
LEMMA ClockSound == ASSUME Sound, Tick \/ Synchronize \/ SetClock \/ UNCHANGED vars PROVE Sound'
<1>1. World' = World /\ last' = last
  BY DEF Tick, Synchronize, SetClock, vars, World
<1>2. off' \in Nat /\ now' \in Nat /\ synced' \in BOOLEAN
  <2>1. Offsets \subseteq Nat
    BY SchedulerAssumption
  <2>2. CASE Tick
    BY <2>2 DEF Sound, Tick
  <2>3. CASE Synchronize
    BY <2>3 DEF Sound, Synchronize
  <2>4. CASE SetClock
    BY <2>1, <2>4 DEF Sound, SetClock
  <2>5. CASE UNCHANGED vars
    BY <2>5 DEF Sound, vars
  <2> QED
    BY <2>2, <2>3, <2>4, <2>5
<1> QED
  BY <1>1, <1>2 DEF Sound

\* The invariant is inductive.
LEMMA NextSound == Sound /\ [Next]_vars => Sound'
<1> SUFFICES ASSUME Sound, [Next]_vars PROVE Sound'
  OBVIOUS
<1>1. CASE Poll \/ FaultyPoll \/ Commands
  BY <1>1, CallSound
<1>2. CASE Reset \/ PowerLoss
  BY <1>2, BootSound DEF Reset, PowerLoss
<1>3. CASE ServiceSteps
  BY <1>3, ServiceStepSound
<1>4. CASE Tick \/ Synchronize \/ SetClock \/ UNCHANGED vars
  BY <1>4, ClockSound
<1> QED
  BY <1>1, <1>2, <1>3, <1>4 DEF Next

-------------------------------------------------------------------------------
(* What is armed was predicted. *)

\* Occurrences of a schedule are a period apart.
LEMMA Spacing ==
    ASSUME NEW p \in Nat \ {0}, NEW i \in Int, NEW j \in Int, i < j
    PROVE  i * p + p <= j * p
<1>1. j - i - 1 \in Nat
  OBVIOUS
<1>2. (j - i - 1) * p >= 0
  BY <1>1
<1> QED
  BY <1>2

\* x is an occurrence of the schedule s.
Occurs(s, x) == \E k \in Int : x = k * s.period + s.phase

\* first is the first occurrence of s that is not before from.
Earliest(s, from, first) ==
    first \in Int /\ Occurs(s, first) /\ from <= first /\ first < from + s.period

\* A period has one occurrence.
LEMMA OnlyOne ==
    ASSUME NEW s \in WsprSchedules, NEW from \in Int, NEW x \in Int, NEW y \in Int,
           Occurs(s, x), Occurs(s, y), from <= x, x < from + s.period, from <= y, y < from + s.period
    PROVE  x = y
<1>1. s.period \in Nat \ {0} /\ s.phase \in Int
  BY SchedulerAssumption
<1>2. PICK i \in Int : x = i * s.period + s.phase
  BY DEF Occurs
<1>3. PICK j \in Int : y = j * s.period + s.phase
  BY DEF Occurs
<1> DEFINE a == i * s.period
           b == j * s.period
<1>4. i < j => a + s.period <= b
  BY <1>1, Spacing
<1>5. j < i => b + s.period <= a
  BY <1>1, Spacing
<1>6. a \in Int /\ b \in Int /\ x = a + s.phase /\ y = b + s.phase
  BY <1>1, <1>2, <1>3
<1>7. i = j => a = b
  OBVIOUS
<1> HIDE DEF a, b
<1> QED
  BY <1>1, <1>4, <1>5, <1>6, <1>7

\* The rounding of both predictions.
LEMMA RoundUp ==
    ASSUME NEW s \in WsprSchedules, NEW from \in Nat,
           NEW first, first = (from \div s.period) * s.period + s.phase
    PROVE  /\ first \in Int /\ Occurs(s, first) /\ Occurs(s, first + s.period)
           /\ first < from + s.period /\ from < first + s.period
<1>1. s.period \in Nat \ {0} /\ s.phase \in 0 .. s.period - 1
  BY SchedulerAssumption
<1> DEFINE k == from \div s.period
           b == k * s.period
<1>2. k \in Nat /\ b \in Nat /\ b <= from /\ from < b + s.period
  BY <1>1, Floor
<1>3. first = b + s.phase
  OBVIOUS
<1>4. first + s.period = (k + 1) * s.period + s.phase
  BY <1>1, <1>2
<1>5. Occurs(s, first)
  BY <1>2 DEF Occurs
<1>6. Occurs(s, first + s.period)
  <2> HIDE DEF k
  <2>1. k + 1 \in Int
    BY <1>2
  <2> QED
    BY <1>4, <2>1 DEF Occurs
<1> HIDE DEF b
<1> QED
  BY <1>1, <1>2, <1>3, <1>5, <1>6

\* poll() considers the first occurrence after the present.
LEMMA WsprSlotEarliest ==
    ASSUME utc \in Nat, NEW s \in WsprSchedules
    PROVE  Earliest(s, utc + 1, WsprSlot(s))
<1>1. s.period \in Nat \ {0}
  BY SchedulerAssumption
<1> DEFINE first == (utc \div s.period) * s.period + s.phase
<1>2. /\ first \in Int /\ Occurs(s, first) /\ Occurs(s, first + s.period)
      /\ first < utc + s.period /\ utc < first + s.period
  BY RoundUp
<1>3. WsprSlot(s) = IF first <= utc THEN first + s.period ELSE first
  BY DEF WsprSlot
<1> HIDE DEF first
<1> QED
  BY <1>1, <1>2, <1>3 DEF Earliest

\* The start that poll() arms is the one that the status shows.
LEMMA WsprPredicted ==
    ASSUME NEW w \in Worlds, utc \in Nat, NEW count \in 1..2, NEW slot,
           slot = Min(WsprCandidates(w)), WsprCandidates(w) # {}, Idle(w), ClockReady,
           ~MessageFirstInLine(w), w.sch.pair.frame = "none", w.ram.ok, w.ram.data.cfg.enabled,
           ~w.sch.reboot, ~w.sch.suspended, w.ram.data.cfg.dial,
           slot - utc <= WsprWindow, slot - utc >= WsprLead, Unexpired(slot, count),
           w.ram.data.mark \in Nat
    PROVE  NextWsprStart(w, count) = slot
<1> DEFINE from    == Max({utc + WsprLead, w.ram.data.mark + 1})
           Slot(s) == LET first == (from \div s.period) * s.period + s.phase
                      IN IF first < from THEN first + s.period ELSE first
           Slots   == {Slot(s) : s \in WsprSchedules}
<1>1. WsprLead \in Nat \ {0} /\ WsprWindow \in Nat
  BY SchedulerAssumption
<1>2. from \in Nat /\ from >= utc + WsprLead /\ from >= w.ram.data.mark + 1
      /\ from \in {utc + WsprLead, w.ram.data.mark + 1}
  <2>1. PICK a \in Int : a = utc + WsprLead
    BY <1>1
  <2>2. PICK b \in Int : b = w.ram.data.mark + 1
    OBVIOUS
  <2>3. Max({a, b}) \in {a, b} /\ Max({a, b}) >= a /\ Max({a, b}) >= b
    BY LargerOf
  <2>4. a \in Nat /\ b \in Nat
    BY <1>1, <2>1, <2>2
  <2>5. Max({a, b}) \in Nat
    BY <2>3, <2>4
  <2>6. from = Max({a, b})
    BY <2>1, <2>2
  <2> HIDE DEF from
  <2> QED
    BY <2>1, <2>2, <2>3, <2>5, <2>6
<1> HIDE DEF from
<1>3. /\ WsprCandidates(w) \subseteq Nat /\ slot \in WsprCandidates(w)
      /\ \A y \in WsprCandidates(w) : slot <= y
  <2>1. WsprCandidates(w) \subseteq Nat
    BY WsprSlotLater DEF WsprCandidates
  <2> QED
    BY <2>1, LeastOf
<1>4. slot \in Nat /\ slot > w.ram.data.mark /\ slot >= from
  BY <1>1, <1>2, <1>3 DEF WsprCandidates
<1>5. PICK s0 \in WsprSchedules : slot = WsprSlot(s0)
  BY <1>3 DEF WsprCandidates
<1>6. ASSUME NEW s \in WsprSchedules PROVE Earliest(s, from, Slot(s))
  <2>1. s.period \in Nat \ {0}
    BY SchedulerAssumption
  <2> DEFINE first == (from \div s.period) * s.period + s.phase
  <2>2. /\ first \in Int /\ Occurs(s, first) /\ Occurs(s, first + s.period)
        /\ first < from + s.period /\ from < first + s.period
    BY <1>2, RoundUp
  <2>3. Slot(s) = IF first < from THEN first + s.period ELSE first
    OBVIOUS
  <2> HIDE DEF first, Slot
  <2> QED
    BY <1>2, <2>1, <2>2, <2>3 DEF Earliest
<1> HIDE DEF Slot
<1>7. ASSUME NEW s \in WsprSchedules PROVE Slot(s) \in Nat /\ Slot(s) >= slot
  <2>1. s.period \in Nat \ {0} /\ s.period >= WsprWindow
    BY SchedulerAssumption
  <2>2. Slot(s) \in Int /\ Occurs(s, Slot(s)) /\ from <= Slot(s)
    BY <1>6 DEF Earliest
  <2>3. CASE Slot(s) < slot
    <3>1. utc + 1 <= Slot(s) /\ Slot(s) < utc + 1 + s.period /\ Slot(s) > w.ram.data.mark
      BY <1>1, <1>2, <1>4, <2>1, <2>2, <2>3
    <3>2. Earliest(s, utc + 1, WsprSlot(s))
      BY WsprSlotEarliest
    <3>3. Slot(s) = WsprSlot(s)
      BY <2>2, <3>1, <3>2, OnlyOne DEF Earliest
    <3>4. WsprSlot(s) \in WsprCandidates(w)
      BY <3>1, <3>3 DEF WsprCandidates
    <3>5. slot <= Slot(s)
      BY <1>3, <3>3, <3>4
    <3> QED
      BY <1>4, <2>2, <2>3, <3>5
  <2> QED
    BY <1>2, <1>4, <2>2, <2>3
<1>8. Slot(s0) = slot
  <2>1. s0.period \in Nat \ {0}
    BY SchedulerAssumption
  <2>2. /\ Slot(s0) \in Int /\ Occurs(s0, Slot(s0)) /\ from <= Slot(s0)
        /\ Slot(s0) < from + s0.period
    BY <1>6 DEF Earliest
  <2>3. Occurs(s0, slot) /\ slot < utc + 1 + s0.period
    BY <1>5, WsprSlotEarliest DEF Earliest
  <2>4. slot < from + s0.period
    BY <1>1, <1>2, <1>4, <2>1, <2>3
  <2> QED
    BY <1>2, <1>4, <2>2, <2>3, <2>4, OnlyOne
<1>9. Min(Slots) = slot
  <2>1. Slots \subseteq Nat /\ slot \in Slots /\ \A y \in Slots : slot <= y
    BY <1>5, <1>7, <1>8
  <2> HIDE DEF Slots
  <2>2. Min(Slots) \in Slots /\ \A y \in Slots : Min(Slots) <= y
    BY <2>1, LeastOf
  <2> DEFINE m == Min(Slots)
  <2>3. m \in Nat /\ m <= slot /\ slot <= m
    BY <2>1, <2>2
  <2> HIDE DEF m
  <2>4. m = slot
    BY <1>4, <2>3
  <2> QED
    BY <2>4 DEF m
<1>10. w.ram.data.msg # "enabled"
  BY DEF MessageFirstInLine
<1>11. NextWsprStart(w, count) =
         IF /\ /\ w.ram.ok /\ w.ram.data.cfg.enabled /\ ~w.sch.suspended
               /\ ~w.sch.reboot /\ ClockReady /\ Idle(w) /\ w.sch.pair.frame = "none"
               /\ w.ram.data.msg # "enabled" /\ w.ram.data.cfg.dial
            /\ Unexpired(Min(Slots), count)
         THEN Min(Slots) ELSE 0
  BY DEF NextWsprStart, from, Slot
<1> QED
  BY <1>9, <1>10, <1>11

\* The scheduler's own variables do not touch the service.
LEMMA SvcSame ==
    ASSUME NEW w \in Worlds
    PROVE  /\ Recovery(w).svc = w.svc /\ Forgotten(w).svc = w.svc
           /\ Recovery(w) \in Worlds /\ Forgotten(w) \in Worlds
<1>1. w.sch \in Schs
  BY WorldFields
<1> DEFINE t1 == [w.sch EXCEPT !.recovery = TRUE]
           t2 == [w.sch EXCEPT !.msgJob = 0]
<1>2. t1 \in Schs /\ t2 \in Schs
  <2>1. t1 \in Schs
    BY <1>1 DEF Schs
  <2>2. t2 \in Schs
    BY <1>1 DEF Schs
  <2> QED
    BY <2>1, <2>2
<1>3. Recovery(w) = [w EXCEPT !.sch = t1] /\ Forgotten(w) = [w EXCEPT !.sch = t2]
  BY DEF Recovery, Forgotten
<1> HIDE DEF t1, t2
<1> QED
  BY <1>2, <1>3 DEF Worlds

\* A message that is armed is the one that was due.
LEMMA MessageArms ==
    ASSUME NEW w, NEW l, Held(w, l), w.svc.state \notin Executing, NEW next \in Int, NEW f,
           off \in Nat, StartMessage(w, next, f).svc.state = "ARMED"
    PROVE  StartMessage(w, next, f).svc.job.slot = next
<1> DEFINE claimed  == Claim(w, f)
           reserved == Reserve(claimed, next, TRUE, f)
           w1       == [reserved EXCEPT !.sch.msgJob = next]
           job      == Job("msg", next)
           done     == LoadArm(w1, job, f)
           kept     == IF done.svc.state = "FAILED" THEN done ELSE Release(done, f)
<1>1. StartMessage(w, next, f) =
        IF claimed.svc.owner # "local" THEN w
        ELSE IF ~Reserved(reserved, next) THEN Recovery(Release(reserved, f))
        ELSE IF Armed(done, job) THEN done
        ELSE Forgotten(Recovery(kept))
  BY DEF StartMessage
<1>2. w \in Worlds /\ w.svc.state # "ARMED"
  BY DEF Held, Core, Executing
<1>3. Held(claimed, l) /\ ~Out(claimed.svc) /\ claimed.svc.state = w.svc.state
  BY <1>2, CallsHeld, ClaimDoes DEF Out
<1> HIDE DEF claimed
<1>4. Reserves(claimed, reserved, l, next, TRUE)
  BY <1>3, ReserveHeld
<1> HIDE DEF reserved
<1>5. reserved \in Worlds /\ reserved.svc.state = w.svc.state
  BY <1>3, <1>4 DEF Reserves, Held, Core
<1>6. Recovery(Release(reserved, f)).svc.state # "ARMED"
  BY <1>2, <1>5, ReleaseDoes, SvcSame
<1>7. w1 \in Worlds /\ w1.svc = reserved.svc
  <2> DEFINE t == [reserved.sch EXCEPT !.msgJob = next]
  <2>1. t \in Schs
    BY <1>5, WorldFields DEF Schs
  <2>2. w1 = [reserved EXCEPT !.sch = t]
    BY <1>5 DEF Worlds
  <2> HIDE DEF t, w1
  <2> QED
    BY <1>5, <2>1, <2>2 DEF Worlds
<1>8. job \in [kind: Kinds, slot: Int] /\ job.slot = next
  BY DEF Job, Kinds
<1> HIDE DEF w1, job
<1>9. /\ done \in Worlds
      /\ done.svc.state = "ARMED" => done.svc.job = job
  BY <1>2, <1>5, <1>7, <1>8, LoadArmDoes
<1> HIDE DEF done
<1>10. ~Armed(done, job) => done.svc.state # "ARMED"
  BY <1>9 DEF Armed
<1>11. kept \in Worlds /\ (~Armed(done, job) => kept.svc.state # "ARMED")
  BY <1>9, <1>10, ReleaseDoes
<1> HIDE DEF kept
<1>12. Forgotten(Recovery(kept)).svc = kept.svc
  BY <1>11, SvcSame
<1> QED
  BY <1>1, <1>2, <1>6, <1>8, <1>9, <1>11, <1>12

\* And so is a frame.
LEMMA FrameArms ==
    ASSUME NEW w, NEW l, Held(w, l), w.svc.state \notin Executing, NEW slot \in Int,
           NEW count \in 1..2, NEW f, off \in Nat, StartWspr(w, slot, count, f).svc.state = "ARMED"
    PROVE  StartWspr(w, slot, count, f).svc.job.slot = slot
<1> DEFINE final    == slot + (count - 1) * SlotDuration
           claimed  == Claim(w, f)
           reserved == Reserve(claimed, final, FALSE, f)
           pair     == [frame |-> "first", second |-> final, off |-> off, stale |-> FALSE]
           paired   == IF count = 1 THEN reserved ELSE [reserved EXCEPT !.sch.pair = pair]
           w1       == [paired EXCEPT !.sch.lastJob = slot]
           job      == Job("wspr", slot)
           done     == LoadArm(w1, job, f)
           freed    == [Release(done, f) EXCEPT !.sch.pair = NoPair]
<1>1. StartWspr(w, slot, count, f) =
        IF claimed.svc.owner # "local" THEN w
        ELSE IF ~Reserved(reserved, final) THEN Release(reserved, f)
        ELSE IF Armed(done, job) THEN done ELSE freed
  BY DEF StartWspr, PrepareFrame
<1>2. w \in Worlds /\ w.svc.state # "ARMED"
  BY DEF Held, Core, Executing
<1>3. Held(claimed, l) /\ ~Out(claimed.svc) /\ claimed.svc.state = w.svc.state
  BY <1>2, CallsHeld, ClaimDoes DEF Out
<1>4. final \in Int
  BY SchedulerAssumption
<1> HIDE DEF claimed, final
<1>5. Reserves(claimed, reserved, l, final, FALSE)
  BY <1>3, <1>4, ReserveHeld
<1> HIDE DEF reserved
<1>6. reserved \in Worlds /\ reserved.svc.state = w.svc.state
  BY <1>3, <1>5 DEF Reserves, Held, Core
<1>7. Release(reserved, f).svc.state # "ARMED"
  BY <1>2, <1>6, ReleaseDoes
<1>8. paired \in Worlds /\ paired.svc = reserved.svc
  <2>1. pair \in [frame: {"none", "first", "second"}, second: Int, off: Int, stale: BOOLEAN]
    BY <1>4
  <2> HIDE DEF pair
  <2> DEFINE t == [reserved.sch EXCEPT !.pair = pair]
             v == [reserved EXCEPT !.sch.pair = pair]
  <2>2. t \in Schs
    BY <1>6, <2>1, WorldFields DEF Schs
  <2>3. v = [reserved EXCEPT !.sch = t]
    BY <1>6 DEF Worlds
  <2> HIDE DEF t, v
  <2>4. v \in Worlds /\ v.svc = reserved.svc
    BY <1>6, <2>2, <2>3 DEF Worlds
  <2> QED
    BY <1>6, <2>4 DEF v
<1> HIDE DEF paired
<1>9. w1 \in Worlds /\ w1.svc = reserved.svc
  <2> DEFINE t == [paired.sch EXCEPT !.lastJob = slot]
  <2>1. t \in Schs
    BY <1>8, WorldFields DEF Schs
  <2>2. w1 = [paired EXCEPT !.sch = t]
    BY <1>8 DEF Worlds
  <2> HIDE DEF t, w1
  <2> QED
    BY <1>8, <2>1, <2>2 DEF Worlds
<1>10. job \in [kind: Kinds, slot: Int] /\ job.slot = slot
  BY DEF Job, Kinds
<1> HIDE DEF w1, job
<1>11. /\ done \in Worlds
       /\ done.svc.state = "ARMED" => done.svc.job = job
  BY <1>2, <1>6, <1>9, <1>10, LoadArmDoes
<1> HIDE DEF done
<1>12. ~Armed(done, job) => done.svc.state # "ARMED"
  BY <1>11 DEF Armed
<1>13. freed.svc = Release(done, f).svc
  <2> DEFINE r == Release(done, f)
  <2>1. r \in Worlds
    BY <1>11, ReleaseDoes
  <2> HIDE DEF r
  <2>2. [r EXCEPT !.sch.pair = NoPair].svc = r.svc
    BY <2>1 DEF Worlds
  <2> QED
    BY <2>2 DEF r
<1>14. ~Armed(done, job) => freed.svc.state # "ARMED"
  BY <1>11, <1>12, <1>13, ReleaseDoes
<1> HIDE DEF freed
<1> QED
  BY <1>1, <1>2, <1>7, <1>10, <1>11, <1>14

\* A service that nobody owns is left alone by all but the start of a job.
LEMMA FollowLeaves ==
    ASSUME NEW w, NEW l, Held(w, l), w.svc.owner = "none", NEW f
    PROVE  FollowMessage(w, f).svc = w.svc
<1> DEFINE mine    == w.svc.job = Job("msg", w.sch.msgJob)
           cleared == ClearFlight(w, f)
           paused  == FinishPause(Forgotten(cleared), f)
<1>1. FollowMessage(w, f) =
        IF w.svc.record = "none"
        THEN IF mine /\ w.svc.state \in Executing THEN w ELSE Forgotten(Recovery(w))
        ELSE IF w.svc.record = "bad" THEN Forgotten(Recovery(w))
        ELSE IF w.svc.out \/ w.svc.state \in Executing THEN w
        ELSE IF ~Idle(w) THEN w
        ELSE IF ~cleared.ram.ok THEN Recovery(cleared)
        ELSE IF ~w.sch.pause THEN Forgotten(cleared)
        ELSE IF paused.ram.ok THEN paused ELSE Recovery(paused)
  BY DEF FollowMessage
<1>2. w \in Worlds
  BY DEF Held, Core
<1>3. Recovery(w).svc = w.svc /\ Forgotten(Recovery(w)).svc = w.svc
  BY <1>2, SvcSame
<1>4. CASE Idle(w)
  <2>1. Held(cleared, l) /\ cleared.svc = w.svc /\ ~Out(cleared.svc)
    BY <1>4, IdleOut, ClearFlightHeld
  <2> HIDE DEF cleared
  <2>2. Recovery(cleared).svc = w.svc /\ Forgotten(cleared).svc = w.svc
    BY <2>1, SvcSame DEF Held, Core
  <2>3. Held(Forgotten(cleared), l)
    BY <2>1, ForgottenHeld
  <2>4. Held(paused, l) /\ paused.svc = w.svc
    BY <2>2, <2>3, FinishPauseHeld
  <2> HIDE DEF paused
  <2>5. Recovery(paused).svc = w.svc
    BY <2>4, SvcSame DEF Held, Core
  <2> QED
    BY <1>1, <1>3, <2>2, <2>4, <2>5
<1>5. CASE ~Idle(w)
  BY <1>1, <1>3, <1>5
<1> QED
  BY <1>4, <1>5

\* What poll() arms while the service is free was predicted.
LEMMA PollArms ==
    ASSUME NEW w, NEW l, Held(w, l), w.svc.owner = "none", off \in Nat, utc \in Nat,
           NEW count \in 1..2, NEW f,
           PollOf(w, count, f).svc.state = "ARMED", PollOf(w, count, f).svc.owner = "local"
    PROVE  PollOf(w, count, f).svc.job.slot \in
             {NextMessageStart(w, "none"), NextWsprStart(w, 1), NextWsprStart(w, 2)}
<1> DEFINE v    == PollOf(w, count, f)
           slot == Min(WsprCandidates(w))
           next == NextMessageStart(w, f)
           done == FinishPause(w, f)
<1>1. w \in Worlds
  BY DEF Held, Core
<1>2. v.svc # w.svc
  OBVIOUS
<1>3. CASE v = PollMessage(w, f)
  <2>1. PollMessage(w, f) =
          IF w.sch.msgJob # 0 THEN FollowMessage(w, f)
          ELSE IF w.sch.pause THEN (IF done.ram.ok THEN done ELSE Recovery(done))
          ELSE IF \/ MessageRecovery(w) \/ w.sch.pair.frame # "none" \/ ~Idle(w)
                  \/ w.sch.suspended \/ w.sch.reboot \/ ~w.ram.ok \/ next = 0
                  \/ next - utc > MessageWindow
               THEN w
          ELSE IF f = "compile" THEN Recovery(w)
          ELSE StartMessage(w, next, f)
    BY DEF PollMessage
  <2>2. FollowMessage(w, f).svc = w.svc
    BY FollowLeaves
  <2>3. Held(done, l) /\ done.svc = w.svc
    BY FinishPauseHeld
  <2> HIDE DEF done
  <2>4. Recovery(done).svc = w.svc /\ Recovery(w).svc = w.svc
    BY <1>1, <2>3, SvcSame DEF Held, Core
  <2>5. v = StartMessage(w, next, f) /\ Idle(w) /\ next # 0
    BY <1>2, <1>3, <2>1, <2>2, <2>3, <2>4
  <2>6. next \in Int
    BY <1>1, <2>5, MessageStartBeyond
  <2>7. NextMessageStart(w, "none") = next
    BY <2>5 DEF NextMessageStart, PolicyAllows
  <2> HIDE DEF next, v
  <2>8. StartMessage(w, next, f).svc.state = "ARMED"
    BY <2>5 DEF v
  <2>9. StartMessage(w, next, f).svc.job.slot = next
    BY <2>5, <2>6, <2>8, IdleOut, MessageArms
  <2> QED
    BY <2>5, <2>7, <2>9 DEF v
<1>4. CASE v = PollPair(w, f)
  <2>1. ~PairSound(w)
    BY DEF PairSound
  <2>2. v = CancelPair(w, f)
    BY <1>4, <2>1 DEF PollPair
  <2> DEFINE u == [w EXCEPT !.sch.pair = NoPair]
  <2>3. u.svc = w.svc
    BY <1>1 DEF Worlds
  <2>4. CancelPair(w, f) = u
    BY <2>3 DEF CancelPair
  <2> QED
    BY <1>2, <2>2, <2>3, <2>4
<1>5. CASE /\ v = StartWspr(w, slot, count, f)
           /\ ~MessageFirstInLine(w) /\ w.sch.pair.frame = "none" /\ w.ram.ok
           /\ w.ram.data.cfg.enabled /\ ~w.sch.reboot /\ ~w.sch.suspended /\ Idle(w)
           /\ ClockReady /\ WsprCandidates(w) # {} /\ w.ram.data.cfg.dial
           /\ ~(slot - utc > WsprWindow) /\ ~(slot - utc < WsprLead) /\ Unexpired(slot, count)
  <2>1. slot \in Nat
    BY <1>5, CandidateBeyond
  <2>2. slot - utc <= WsprWindow /\ slot - utc >= WsprLead
    BY <1>5, <2>1, SchedulerAssumption
  <2>3. w.ram.data.mark \in Nat
    BY <1>5, HealthyFacts
  <2>4. PICK start : start = slot
    OBVIOUS
  <2>5. NextWsprStart(w, count) = start
    <3> HIDE DEF v
    <3> QED
      BY <1>1, <1>5, <2>2, <2>3, <2>4, WsprPredicted
  <2>6. StartWspr(w, start, count, f).svc.state = "ARMED" /\ start \in Int
    BY <1>5, <2>1, <2>4
  <2>7. StartWspr(w, start, count, f).svc.job.slot = start
    BY <1>5, <2>6, IdleOut, FrameArms
  <2>8. count \in {1, 2}
    OBVIOUS
  <2>9. v.svc.job.slot = start
    BY <1>5, <2>4, <2>7
  <2> QED
    BY <2>5, <2>8, <2>9
<1>6. CASE v = w
  BY <1>2, <1>6
<1> QED
  BY <1>3, <1>4, <1>5, <1>6 DEF PollOf

\* The commands and the service leave a free service free, or to another client.
LEMMA OthersLeave ==
    ASSUME Sound, svc.owner = "none", Commands \/ ServiceSteps
    PROVE  svc'.owner # "local"
<1>1. Held(World, last) /\ World.svc = svc /\ svc \in Svcs
  BY WorldFields DEF Sound, Held, Core, World
<1>2. CASE Commands
  <2>1. \E w : w.svc.owner = "none" /\ Became(w)
    <3>2. CASE Stop
      BY <1>1, <3>2, StopHeld DEF Stop
    <3>3. CASE Config
      BY <1>1, <3>3, ConfigHeld DEF Config
    <3>4. CASE PutMessage
      BY <1>1, <3>4, PutMessageHeld DEF PutMessage
    <3>5. CASE Pause
      BY <1>1, <3>5, PauseHeld DEF Pause
    <3>6. CASE SaveFilters
      BY <1>1, <3>6, SaveFiltersHeld DEF SaveFilters
    <3>7. CASE SaveLogging
      BY <1>1, <3>7, SaveLoggingHeld DEF SaveLogging
    <3>8. CASE RequireNetworkRestart
      <4>1. Became(NetworkRestart(World))
        BY <3>8 DEF RequireNetworkRestart, NetworkRestart
      <4> QED
        BY <1>1, <4>1, NetworkRestartHeld
    <3> QED
      BY <1>2, <3>2, <3>3, <3>4, <3>5, <3>6, <3>7, <3>8 DEF Commands
  <2> QED
    BY <2>1 DEF Became
<1>3. CASE ServiceSteps
  <2>1. CASE Launch
    BY <1>1, <2>1 DEF Launch, Svcs
  <2>2. CASE Miss \/ Complete \/ Fail
    <3>1. PICK v, out, st : svc' = Ended(Recorded(svc, v), st, out)
      BY <2>2 DEF Miss, Complete, Fail, SvcDoes
    <3> DEFINE r == Recorded(svc, v)
    <3>2. r.owner = "none" /\ r = [r EXCEPT !.owner = r.owner] /\ DOMAIN r = DOMAIN svc
      BY <1>1 DEF Recorded, Svcs
    <3>3. svc' = Ended(r, st, out) /\ DOMAIN svc = {"owner", "release", "state", "job", "at",
                                                     "out", "inhibited", "maint", "record"}
      BY <1>1, <3>1 DEF Svcs
    <3> HIDE DEF r
    <3> QED
      BY <3>2, <3>3 DEF Ended
  <2>3. CASE OtherClaims
    BY <1>1, <2>3 DEF OtherClaims, SvcDoes, Svcs
  <2>4. CASE LocalAbort
    <3> DEFINE r == Recorded(svc, "bad")
    <3>1. svc' = Aborted(r)
      BY <2>4 DEF LocalAbort, SvcDoes, Aborted
    <3>2. r \in Svcs
      BY <1>1 DEF Recorded, Svcs
    <3> HIDE DEF r
    <3> QED
      BY <3>1, <3>2 DEF Aborted, Svcs
  <2>5. CASE Maintenance
    BY <1>1, <2>5 DEF Maintenance, SvcDoes, Svcs
  <2>6. CASE Lapse \/ OtherArms \/ OtherLeaves \/ Evict
    BY <2>6 DEF Lapse, OtherArms, OtherLeaves, Evict
  <2> QED
    BY <1>3, <2>1, <2>2, <2>3, <2>4, <2>5, <2>6 DEF ServiceSteps
<1> QED
  BY <1>2, <1>3

\* And no other step arms anything of the scheduler's.
LEMMA StepPredicted == Sound /\ [Next]_vars => [PredictedStep]_vars
<1> SUFFICES ASSUME Sound, [Next]_vars, svc.owner = "none", svc'.state = "ARMED",
                    svc'.owner = "local"
             PROVE  svc'.job.slot \in {NextMessageStart(World, "none"), NextWsprStart(World, 1),
                                       NextWsprStart(World, 2)}
  BY DEF PredictedStep
<1>1. Held(World, last) /\ World.svc = svc /\ off \in Nat /\ utc \in Nat
  BY DEF Sound, World, utc
<1>2. CASE Poll \/ FaultyPoll
  <2>1. PICK n \in 1..2, f \in Faults : Became(PollOf(World, n, f))
    BY <1>2 DEF Poll, FaultyPoll, Faults
  <2>2. svc' = PollOf(World, n, f).svc
    BY <2>1 DEF Became
  <2> QED
    BY <1>1, <2>2, PollArms
<1>3. CASE Commands \/ ServiceSteps
  BY <1>3, OthersLeave
<1>4. CASE Reset \/ PowerLoss
  BY <1>4 DEF Reset, PowerLoss, Boot, FreshService
<1>5. CASE Tick \/ Synchronize \/ SetClock \/ UNCHANGED vars
  BY <1>5 DEF Tick, Synchronize, SetClock, vars
<1> QED
  BY <1>2, <1>3, <1>4, <1>5 DEF Next

-------------------------------------------------------------------------------
(* Theorems *)

\* The scheduler's invariant holds of every behaviour.
THEOREM SchedulerSound == Spec => []Sound
BY InitSound, NextSound, PTL DEF Spec

\* Whatever fails, restarts or steps the clock, a start goes out at most once: what
\* is armed is reserved on flash, a message in flight is marked there, what is armed
\* is later than all that went out, and a second frame follows its first.
THEOREM StartsOnce == Spec => []AtMostOnce
<1>1. Sound => AtMostOnce
  <2> SUFFICES ASSUME Sound PROVE AtMostOnce
    OBVIOUS
  <2>1. /\ Held(World, last) /\ World \in Worlds /\ World.svc = svc /\ World.disk = disk
        /\ World.sch = sch
    BY DEF Sound, Held, Core, World
  <2>2. Mine <=> Out(svc)
    BY DEF Mine, Out
  <2>3. NeverAgain /\ ReservedFirst /\ FlightMarked
    BY <2>1, <2>2 DEF NeverAgain, ReservedFirst, FlightMarked, Held, Core, Owned
  <2>4. SecondNeedsFirst
    BY <2>1, <2>2 DEF SecondNeedsFirst, Held, Core, Paired, Job
  <2> QED
    BY <2>3, <2>4 DEF AtMostOnce
<1> QED
  BY <1>1, SchedulerSound, PTL

\* Whatever a failed or torn write leaves, the next boot can load it; after STOP
\* nothing of the schedules is out; nothing is out for hardware settings that differ
\* from those of this boot.
THEOREM LeftAsSet == Spec => []StaysPut
<1>1. Sound => StaysPut
  <2> SUFFICES ASSUME Sound PROVE StaysPut
    OBVIOUS
  <2>1. /\ Held(World, last) /\ World.svc = svc /\ World.disk = disk /\ World.ram = ram
        /\ World.sch = sch
    BY DEF Sound, World
  <2>2. Mine <=> Out(svc)
    BY DEF Mine, Out
  <2>3. Loadable
    BY <2>1 DEF Loadable, Held, Core, Stored, Fits
  <2>4. StoppedQuiet
    BY <2>1, <2>2 DEF StoppedQuiet, Held, Core, Owned
  <2>5. HardwareCurrent
    BY <2>1, <2>2 DEF HardwareCurrent, Held, Settled
  <2> QED
    BY <2>3, <2>4, <2>5 DEF StaysPut
<1> QED
  BY <1>1, SchedulerSound, PTL

\* The status page is never wrong about a start: what is armed while the service was
\* free is a start that next_message_start or next_wspr_start gave in that state.
THEOREM StartsArePredicted == Spec => ArmsAsPredicted
BY SchedulerSound, StepPredicted, PTL DEF Spec, ArmsAsPredicted

===============================================================================
