------------------------------ MODULE Scheduler ------------------------------
(***************************************************************************)
(* The standalone scheduler (standalone/scheduler.cpp) and its store       *)
(* (class Store of standalone/storage.cpp): the WSPR schedule with its     *)
(* pairs of frames, the repeated message, STOP, CONFIG, pause and restart. *)
(*                                                                         *)
(* One call of the scheduler is one step: it runs on core 0 between the    *)
(* other callers of the job service. The service is what JobService shows  *)
(* of it: an owner, the lifecycle of one job, the record of the message    *)
(* job, the interlock and maintenance. A journal record is durable or not  *)
(* as a whole (DurableRegister): a failed append leaves the old or the new *)
(* record on flash and the store unhealthy.                                *)
(*                                                                         *)
(* A method is an operator on a world w = [svc, ram, disk, sch]. f names   *)
(* the call of the method that fails, if any: every failure ends a method, *)
(* so one is enough. Time is in ticks; utc is now + off.                   *)
(***************************************************************************)
EXTENDS Integers, FiniteSets, FiniteSetsExt

CONSTANTS
    WsprSchedules,    \* [period, phase]; the phase includes the added second
    SlotDuration,     \* between the two frames of a pair
    WsprLead, WsprWindow,   \* a frame is armed this early: 2 s and 10 s in the code
    FrameTail,        \* of a frame, for the expiry
    MessageFirst, MessagePeriod, MessageLead, MessageWindow, MessageTail,
    Expiry,           \* expires_utc_s of both schedules, 0 for none
    Hardware,         \* boot-initialized hardware settings
    FactoryHardware,  \* those of factory_config()
    Networks,         \* network settings
    Offsets,          \* what a time source may set utc - monotonic to
    MaxTime,          \* bound: the clock stops here
    MaxDisturbances   \* bound on faults, commands, restarts, clock steps, other clients

\* parse_config and parse_message_schedule see to the periods and phases: a phase
\* lies in its period, which is longer than a frame's window, and a frame is armed
\* ahead of its start.
ASSUME SchedulerAssumption ==
    /\ \A s \in WsprSchedules :
        s.period \in Nat \ {0} /\ s.phase \in 0 .. s.period - 1 /\ s.period >= WsprWindow
    /\ {SlotDuration, WsprLead, MessagePeriod} \subseteq Nat \ {0}
    /\ {WsprWindow, FrameTail, MessageFirst, MessageLead, MessageWindow,
        MessageTail, Expiry, MaxTime, MaxDisturbances} \subseteq Nat
    /\ Offsets \subseteq Nat /\ Networks # {}

VARIABLES now, off, synced, svc, ram, disk, sch, last, disturbances

vars == <<now, off, synced, svc, ram, disk, sch, last, disturbances>>
clock == <<now, off, synced>>

utc == now + off

Faults == {"none", "claim", "append_old", "append_new", "clear_old", "clear_new", "load",
           "arm_refused", "arm_failed", "release", "abort", "policy", "compile", "renew"}

World == [svc |-> svc, ram |-> ram, disk |-> disk, sch |-> sch]

Became(w) == svc' = w.svc /\ ram' = w.ram /\ disk' = w.disk /\ sch' = w.sch

-------------------------------------------------------------------------------
(* The store. ram and disk hold [cfg, msg, mark, flight, lastMsg]. *)

\* Without a saved configuration the factory's hardware settings are active.
NoCfg == [enabled |-> FALSE, dial |-> FALSE, hw |-> FactoryHardware, net |-> -1]

Blank == [cfg |-> NoCfg, msg |-> "none", mark |-> 0, flight |-> FALSE, lastMsg |-> 0]

\* append: true, or the store is unhealthy and the flash has one of the two.
Append(w, next, old, new, f) ==
    IF f = old THEN [w EXCEPT !.ram.ok = FALSE]
    ELSE IF f = new THEN [w EXCEPT !.ram.ok = FALSE, !.disk = next]
    ELSE [w EXCEPT !.ram.data = next, !.disk = next]

\* The configuration journal; its sequence number is what a pair compares.
Saved(w, next, f) ==
    LET done == Append(w, next, "append_old", "append_new", f)
    IN IF done.ram.ok THEN [done EXCEPT !.sch.pair.stale = TRUE] ELSE done

BugReserveCursorLater(w, slot, flight, f) ==
    [w EXCEPT !.ram.data.mark = slot, !.ram.data.flight = flight,
              !.ram.data.lastMsg = IF flight THEN slot ELSE @]

BugReserveCursorUnmarked(w, slot, flight, f) ==
    Append(w, [w.ram.data EXCEPT !.mark = slot, !.flight = flight], "append_old", "append_new", f)

\* reserve_cursor
ReserveCursor(w, slot, flight, f) ==
    Append(w, [w.ram.data EXCEPT !.mark = slot, !.flight = flight,
                                 !.lastMsg = IF flight THEN slot ELSE @],
           "append_old", "append_new", f)

\* reserve and reserve_message: a world with the reservation, or an unhealthy or
\* unchanged one; the result is in ram.data.mark.
Reserve(w, slot, flight, f) ==
    IF w.ram.ok /\ ~w.ram.data.flight /\ slot > w.ram.data.mark
    THEN ReserveCursor(w, slot, flight, f) ELSE w

Reserved(w, slot) == w.ram.ok /\ w.ram.data.mark = slot

ClearFlight(w, f) ==
    IF ~w.ram.ok \/ ~w.ram.data.flight THEN w
    ELSE Append(w, [w.ram.data EXCEPT !.flight = FALSE], "clear_old", "clear_new", f)

MaySaveMessage(w, m) == w.ram.ok /\ ~(m = "enabled" /\ w.ram.data.cfg.enabled)

-------------------------------------------------------------------------------
(* The job service, as its in-process client meets it. *)

Executing == {"ARMED", "RUNNING"}

NoJob == [kind |-> "none", slot |-> 0]

Job(kind, slot) == [kind |-> kind, slot |-> slot]

Idle(w) ==
    /\ ~w.svc.maint /\ ~w.sch.hwFailed /\ w.svc.owner = "none" /\ ~w.svc.out
    /\ w.svc.state \notin Executing \cup {"FAILED"}

Cleared(s) == [s EXCEPT !.owner = "none", !.release = FALSE, !.state = "EMPTY", !.job = NoJob]

\* request("HELLO"), request("CLAIM")
Claim(w, f) ==
    IF f = "claim" \/ w.svc.inhibited \/ w.svc.owner # "none" THEN w
    ELSE [w EXCEPT !.svc.owner = "local", !.svc.release = FALSE]

\* request("RELEASE")
Release(w, f) ==
    IF f = "release" \/ w.svc.owner # "local" \/ w.svc.state \in Executing \cup {"FAILED"}
    THEN w ELSE [w EXCEPT !.svc = Cleared(@)]

\* request("LOAD"), request("ARM"): nothing is loaded over a live job, and the job that
\* the engine refuses to schedule is a failed one.
LoadArm(w, job, f) ==
    IF \/ f = "load" \/ w.svc.inhibited \/ w.svc.owner # "local"
       \/ w.svc.state \in Executing \cup {"FAILED"}
    THEN w
    ELSE IF f = "arm_refused" THEN [w EXCEPT !.svc.job = job, !.svc.state = "LOADED"]
    ELSE IF f = "arm_failed" THEN [w EXCEPT !.svc.job = job, !.svc.state = "FAILED"]
    ELSE [w EXCEPT !.svc.job = job, !.svc.state = "ARMED", !.svc.at = job.slot - off,
                   !.svc.record = "none"]

Armed(w, job) == w.svc.job = job /\ w.svc.state = "ARMED"

\* The record of a message job that ended.
Recorded(s, verdict) == [s EXCEPT !.record = IF s.job.kind = "msg" THEN verdict ELSE @]

\* The end of an execution drops an owner whose lease has run out.
Ended(s, state, out) ==
    [s EXCEPT !.state = state, !.out = out, !.owner = IF s.release THEN "none" ELSE @]

\* request("ABORT") of a live job: aborted, or failed with the output unknown.
Abort(w, f) ==
    [w EXCEPT !.svc = IF f = "abort" THEN Ended(Recorded(@, "bad"), "FAILED", TRUE)
                                     ELSE Ended(Recorded(@, "bad"), "ABORTED", FALSE)]

\* service_.local_inhibit_output() of an idle service: there is no job to abort.
Inhibit(w) == [w EXCEPT !.svc.inhibited = TRUE]

-------------------------------------------------------------------------------
(* When the next transmission may start. *)

ClockReady == synced

\* The station's GPS position is fresh and the daylight policy allows the start.
PolicyAllows(f) == f # "policy"

\* next_message_slot
NextMessageSlot(earliest, mark) ==
    LET from == Max({earliest, mark + 1}) IN
    IF from <= MessageFirst THEN MessageFirst
    ELSE MessageFirst + ((from - MessageFirst + MessagePeriod - 1) \div MessagePeriod) * MessagePeriod

MessageRecovery(w) == w.sch.recovery \/ (w.ram.data.flight /\ w.sch.msgJob = 0)

\* next_message_start: 0 when there is none.
NextMessageStart(w, f) ==
    LET next == NextMessageSlot(utc + MessageLead, w.ram.data.mark) IN
    IF \/ ~w.ram.ok \/ w.ram.data.msg # "enabled" \/ w.sch.suspended \/ w.sch.pause
       \/ MessageRecovery(w) \/ w.sch.reboot \/ ~ClockReady \/ ~PolicyAllows(f)
       \/ Expiry > 0 /\ (next >= Expiry \/ MessageTail > Expiry - next)
    THEN 0 ELSE next

BugWsprSlot(s) ==
    LET first == (utc \div s.period) * s.period + s.phase - 1
    IN IF first <= utc THEN first + s.period ELSE first

\* The occurrence of one schedule that poll() considers.
WsprSlot(s) ==
    LET first == (utc \div s.period) * s.period + s.phase
    IN IF first <= utc THEN first + s.period ELSE first

WsprCandidates(w) == {slot \in {WsprSlot(s) : s \in WsprSchedules} : slot > w.ram.data.mark}

\* Room before the expiry for a plan of count frames.
Unexpired(slot, count) ==
    LET final == slot + (count - 1) * SlotDuration
    IN Expiry = 0 \/ (final < Expiry /\ Expiry - final >= FrameTail)

\* next_wspr_start: what the status reports, 0 for nothing.
NextWsprStart(w, count) ==
    LET Earliest == Max({utc + WsprLead, w.ram.data.mark + 1})
        Slot(s)  == LET first == (Earliest \div s.period) * s.period + s.phase
                    IN IF first < Earliest THEN first + s.period ELSE first
        slot     == Min({Slot(s) : s \in WsprSchedules})
        enabled  == /\ w.ram.ok /\ w.ram.data.cfg.enabled /\ ~w.sch.suspended
                    /\ ~w.sch.reboot /\ ClockReady /\ Idle(w) /\ w.sch.pair.frame = "none"
                    /\ w.ram.data.msg # "enabled" /\ w.ram.data.cfg.dial
    IN IF enabled /\ Unexpired(slot, count) THEN slot ELSE 0

-------------------------------------------------------------------------------
(* poll() *)

NoPair == [frame |-> "none", second |-> 0, off |-> 0, stale |-> FALSE]

\* prepare_frame; a frame that is not armed gives the service back.
PrepareFrame(w, slot, f) ==
    LET done == LoadArm([w EXCEPT !.sch.lastJob = slot], Job("wspr", slot), f)
    IN IF Armed(done, Job("wspr", slot)) THEN done
       ELSE [Release(done, f) EXCEPT !.sch.pair = NoPair]

\* cancel_pair: an abort that is not confirmed keeps the ownership.
CancelPair(w0, f) ==
    LET w    == [w0 EXCEPT !.sch.pair = NoPair]
        mine == w.svc.job = Job("wspr", w.sch.lastJob) /\ w.svc.state \in Executing \cup {"LOADED"}
        done == IF mine THEN Abort(w, f) ELSE w IN
    IF w.svc.owner # "local" THEN w
    ELSE IF mine /\ f = "abort" THEN done
    ELSE Release(done, f)

\* What a pair needs to go on.
PairSound(w) ==
    /\ w.ram.ok /\ w.ram.data.cfg.enabled /\ ~w.sch.pair.stale
    /\ ~w.sch.reboot /\ ~w.sch.suspended /\ ClockReady /\ off = w.sch.pair.off
    /\ w.svc.owner = "local" /\ w.svc.job = Job("wspr", w.sch.lastJob)
    /\ w.svc.state \in Executing \cup {"COMPLETE"}

BugPollPairTerminal(w, f) ==
    IF w.svc.owner = "local" /\ w.svc.state \in {"COMPLETE", "MISSED", "ABORTED"}
    THEN IF w.sch.pair.frame = "first" /\ w.sch.pair.second - utc \in WsprLead..WsprWindow
         THEN PrepareFrame([w EXCEPT !.sch.pair.frame = "second"], w.sch.pair.second, f)
         ELSE w
    ELSE IF PairSound(w) THEN w ELSE CancelPair(w, f)

\* poll_pair
PollPair(w, f) ==
    LET second == w.sch.pair.second IN
    IF ~PairSound(w) \/ (w.sch.pair.frame = "second" /\ w.svc.state = "COMPLETE")
    THEN CancelPair(w, f)
    ELSE IF f = "renew" THEN CancelPair(w, f)
    ELSE IF w.sch.pair.frame # "first" \/ w.svc.state # "COMPLETE" THEN w
    ELSE IF second - utc < WsprLead THEN CancelPair(w, f)
    ELSE IF second - utc > WsprWindow THEN w
    ELSE PrepareFrame([w EXCEPT !.sch.pair.frame = "second"], second, f)

\* message_saved
MessageSaved(w, resume) ==
    [w EXCEPT !.sch.pause = FALSE, !.sch.recovery = FALSE,
              !.sch.suspended = @ /\ ~resume]

\* The saved schedule of finish_message_pause, if there is one.
PauseSaved(w, f) ==
    IF w.ram.data.msg = "none" THEN w
    ELSE IF ~MaySaveMessage(w, "paused") THEN w
    ELSE Saved(w, [w.ram.data EXCEPT !.msg = "paused"], f)

\* finish_message_pause: false is a store that is no longer healthy.
FinishPause(w, f) ==
    IF ~Idle(w) \/ w.sch.msgJob # 0 THEN w
    ELSE LET cleared == ClearFlight(PauseSaved(w, f), f)
         IN IF cleared.ram.ok THEN MessageSaved(cleared, FALSE) ELSE cleared

Recovery(w) == [w EXCEPT !.sch.recovery = TRUE]

Forgotten(w) == [w EXCEPT !.sch.msgJob = 0]

\* poll_message while a message job is out: its record decides.
FollowMessage(w, f) ==
    LET mine     == w.svc.job = Job("msg", w.sch.msgJob)
        released == IF w.svc.owner = "local" /\ mine THEN Release(w, f) ELSE w
        cleared  == ClearFlight(released, f)
        paused   == FinishPause(Forgotten(cleared), f) IN
    IF w.svc.record = "none"
    THEN IF mine /\ w.svc.state \in Executing THEN w ELSE Forgotten(Recovery(w))
    ELSE IF w.svc.record = "bad" THEN Forgotten(Recovery(w))
    ELSE IF w.svc.out \/ w.svc.state \in Executing THEN w
    ELSE IF w.svc.owner = "local" /\ mine /\ f = "release" THEN Recovery(w)
    ELSE IF ~Idle(released) THEN released
    ELSE IF ~cleared.ram.ok THEN Recovery(cleared)
    ELSE IF ~w.sch.pause THEN Forgotten(cleared)
    ELSE IF paused.ram.ok THEN paused ELSE Recovery(paused)

\* The rest of poll_message: reserve, load and arm the next start.
StartMessage(w, next, f) ==
    LET claimed  == Claim(w, f)
        reserved == Reserve(claimed, next, TRUE, f)
        done     == LoadArm([reserved EXCEPT !.sch.msgJob = next], Job("msg", next), f) IN
    IF claimed.svc.owner # "local" THEN w
    ELSE IF ~Reserved(reserved, next) THEN Recovery(Release(reserved, f))
    ELSE IF Armed(done, Job("msg", next)) THEN done
    ELSE Forgotten(Recovery(IF done.svc.state = "FAILED" THEN done ELSE Release(done, f)))

PollMessage(w, f) ==
    LET next == NextMessageStart(w, f) IN
    IF w.sch.msgJob # 0 THEN FollowMessage(w, f)
    ELSE IF w.sch.pause
         THEN LET done == FinishPause(w, f) IN IF done.ram.ok THEN done ELSE Recovery(done)
    ELSE IF \/ MessageRecovery(w) \/ w.sch.pair.frame # "none" \/ ~Idle(w) \/ w.sch.suspended
            \/ w.sch.reboot \/ ~w.ram.ok \/ next = 0 \/ next - utc > MessageWindow
         THEN w
    ELSE IF f = "compile" THEN Recovery(w)
    ELSE StartMessage(w, next, f)

\* poll_message() is true: poll() goes no further.
MessageFirstInLine(w) ==
    w.sch.msgJob # 0 \/ w.sch.pause \/ MessageRecovery(w) \/ w.ram.data.msg = "enabled"

\* The reservation of every frame of the plan comes before LOAD and ARM.
StartWspr(w, slot, count, f) ==
    LET final    == slot + (count - 1) * SlotDuration
        reserved == Reserve(Claim(w, f), final, FALSE, f)
        paired   == IF count = 1 THEN reserved
                    ELSE [reserved EXCEPT !.sch.pair = [frame |-> "first", second |-> final,
                                                        off |-> off, stale |-> FALSE]] IN
    IF Claim(w, f).svc.owner # "local" THEN w
    ELSE IF ~Reserved(reserved, final) THEN Release(reserved, f)
    ELSE PrepareFrame(paired, slot, f)

\* poll(); count is the number of frames that the station's message takes.
PollOf(w, count, f) ==
    LET slot == Min(WsprCandidates(w)) IN
    IF w.svc.maint THEN w
    ELSE IF MessageFirstInLine(w) THEN PollMessage(w, f)
    ELSE IF w.sch.pair.frame # "none" THEN PollPair(w, f)
    ELSE IF \/ ~w.ram.ok \/ ~w.ram.data.cfg.enabled \/ w.sch.reboot \/ w.sch.suspended
            \/ ~Idle(w) \/ ~ClockReady \/ WsprCandidates(w) = {} \/ ~w.ram.data.cfg.dial
            \/ ~PolicyAllows(f)
         THEN w
    ELSE IF slot - utc > WsprWindow \/ slot - utc < WsprLead \/ ~Unexpired(slot, count) THEN w
    ELSE StartWspr(w, slot, count, f)

-------------------------------------------------------------------------------
(* Commands *)

BugStopOf(w0, f) ==
    LET w == [w0 EXCEPT !.sch.suspended = TRUE, !.sch.pair = NoPair] IN
    IF w.svc.owner = "none" THEN w
    ELSE IF w.svc.owner # "local" \/ w.svc.job # Job("wspr", w.sch.lastJob) THEN w
    ELSE IF w.svc.state \in Executing \cup {"LOADED"}
         THEN IF f = "abort" THEN Abort(w, f) ELSE Release(Abort(w, f), f)
    ELSE Release(w, f)

\* STOP
StopOf(w0, f) ==
    LET w    == [w0 EXCEPT !.sch.suspended = TRUE, !.sch.pair = NoPair]
        mine == /\ w.svc.owner = "local" /\ w.svc.job # NoJob
                /\ w.svc.job \in {Job("wspr", w.sch.lastJob), Job("msg", w.sch.msgJob)} IN
    IF ~mine THEN w
    ELSE IF w.svc.state \in Executing \cup {"LOADED"}
         THEN IF f = "abort" THEN Abort(w, f) ELSE Release(Abort(w, f), f)
    ELSE Release(w, f)

BugMaySaveConfig(w, c) == w.ram.ok /\ (c.enabled => c.dial)

\* The checks of CONFIG on what would be saved, after the first selection of a
\* frequency has cleared "enabled".
MaySaveConfig(w, c) ==
    /\ w.ram.ok
    /\ c.enabled => c.dial /\ ~MessageRecovery(w) /\ w.ram.data.msg # "enabled"

BugConfigOf(w, c, f) ==
    LET done == IF c = w.ram.data.cfg THEN w ELSE Saved(w, [w.ram.data EXCEPT !.cfg = c], f) IN
    IF ~Idle(w) \/ ~MaySaveConfig(w, c) \/ ~done.ram.ok THEN w
    ELSE [done EXCEPT !.sch.reboot = w.sch.external \/ c.net # w.sch.boot.net]

\* CONFIG: the restart latches compare with the settings of this boot.
ConfigOf(w, c0, f) ==
    LET c     == IF c0.dial /\ ~w.ram.data.cfg.dial THEN [c0 EXCEPT !.enabled = FALSE] ELSE c0
        done  == IF c = w.ram.data.cfg THEN w ELSE Saved(w, [w.ram.data EXCEPT !.cfg = c], f)
        moved == c.hw # w.sch.boot.hw
        held  == IF moved THEN Inhibit([done EXCEPT !.sch.pins = TRUE]) ELSE done IN
    IF ~Idle(w) \/ ~MaySaveConfig(w, c) THEN w
    ELSE IF ~done.ram.ok THEN done
    ELSE IF moved /\ f = "inhibit" THEN [held EXCEPT !.sch.hwFailed = TRUE, !.sch.reboot = TRUE]
    ELSE [held EXCEPT !.sch.reboot = w.sch.external \/ held.sch.pins \/ c.net # w.sch.boot.net]

\* PUT of a message schedule (BrowserApi::message_schedule).
PutMessageOf(w, m, f) ==
    LET done    == Saved(w, [w.ram.data EXCEPT !.msg = m], f)
        cleared == IF m = "enabled" THEN done ELSE ClearFlight(done, f) IN
    IF \/ ~w.ram.ok \/ ~Idle(w) \/ ~MaySaveMessage(w, m)
       \/ m = "enabled" /\ MessageRecovery(w)
    THEN w
    ELSE IF ~cleared.ram.ok THEN cleared
    ELSE MessageSaved(cleared, m = "enabled")

\* POST of a pause
PauseOf(w, f) ==
    IF ~w.ram.ok \/ (w.ram.data.msg = "none" /\ ~w.ram.data.flight) THEN w
    ELSE FinishPause([w EXCEPT !.sch.pause = TRUE], f)

\* save_filters with settings that differ from this boot's or not.
SaveFiltersOf(w, moved, f) ==
    LET done == Saved(w, w.ram.data, f)
        held == Inhibit([done EXCEPT !.sch.pins = TRUE, !.sch.reboot = TRUE]) IN
    IF ~Idle(w) \/ ~w.ram.ok THEN w
    ELSE IF ~done.ram.ok \/ ~moved THEN done
    ELSE IF f = "inhibit" THEN [held EXCEPT !.sch.hwFailed = TRUE]
    ELSE held

\* save_logging: another record of the same journal.
SaveLoggingOf(w, f) == IF ~w.ram.ok THEN w ELSE Saved(w, w.ram.data, f)

ResetPermitted(w) ==
    \/ Idle(w)
    \/ /\ w.svc.state = "FAILED" \/ (w.sch.hwFailed /\ w.svc.inhibited)
       /\ w.svc.owner = "none" /\ ~w.svc.out
       /\ w.svc.state \notin Executing \cup {"LOADED"}
       /\ w.ram.ok /\ w.ram.data.cfg # NoCfg /\ ~w.ram.data.cfg.enabled

-------------------------------------------------------------------------------
(* The actions *)

\* What earlier boots leave on flash: nothing, or a schedule of either kind.
Configured(e, m) ==
    [Blank EXCEPT !.cfg = [enabled |-> e, dial |-> TRUE, hw |-> FactoryHardware,
                           net |-> CHOOSE n \in Networks : TRUE],
                  !.msg = m]

Records ==
    {Blank} \cup {Configured(e, m) : e \in BOOLEAN, m \in {"none", "paused", "enabled"}}

Fresh(d) ==
    [suspended |-> FALSE, pause |-> FALSE, recovery |-> FALSE, pair |-> NoPair, msgJob |-> 0,
     lastJob |-> 0, reboot |-> FALSE, pins |-> FALSE, external |-> FALSE, hwFailed |-> FALSE,
     boot |-> [hw |-> d.cfg.hw, net |-> d.cfg.net]]

FreshService ==
    [owner |-> "none", release |-> FALSE, state |-> "EMPTY", job |-> NoJob, at |-> 0,
     out |-> FALSE, inhibited |-> FALSE, maint |-> FALSE, record |-> "none"]

Init ==
    /\ now = 0 /\ off \in Offsets /\ synced = FALSE /\ last = 0 /\ disturbances = 0
    /\ disk \in {d \in Records : ~(d.cfg.enabled /\ d.msg = "enabled")}
    /\ ram = [ok |-> TRUE, data |-> disk]
    /\ svc = FreshService /\ sch = Fresh(disk)

\* A disturbance, of which a behaviour has a bounded number.
Disturb == disturbances < MaxDisturbances /\ disturbances' = disturbances + 1

\* poll(); a WSPR message takes one frame or two.
Poll ==
    /\ \E n \in 1..2 : Became(PollOf(World, n, "none"))
    /\ UNCHANGED <<clock, last, disturbances>>

FaultyPoll ==
    /\ Disturb
    /\ \E f \in Faults \ {"none"}, n \in 1..2 : Became(PollOf(World, n, f))
    /\ UNCHANGED <<clock, last>>

Counted == Disturb /\ UNCHANGED <<clock, last>>

Stop == Counted /\ \E f \in {"none", "abort", "release"} : Became(StopOf(World, f))

Config ==
    /\ Counted
    /\ \E c \in [enabled: BOOLEAN, dial: BOOLEAN, hw: Hardware, net: Networks],
          f \in {"none", "append_old", "append_new", "inhibit"} : Became(ConfigOf(World, c, f))

PutMessage ==
    /\ Counted
    /\ \E m \in {"enabled", "paused"},
          f \in {"none", "append_old", "append_new", "clear_old", "clear_new"} :
          Became(PutMessageOf(World, m, f))

Pause ==
    /\ Counted
    /\ \E f \in {"none", "append_old", "append_new", "clear_old", "clear_new"} :
          Became(PauseOf(World, f))

SaveFilters ==
    /\ Counted
    /\ \E moved \in BOOLEAN, f \in {"none", "append_old", "append_new", "inhibit"} :
          Became(SaveFiltersOf(World, moved, f))

SaveLogging ==
    /\ Counted
    /\ \E f \in {"none", "append_old", "append_new"} : Became(SaveLoggingOf(World, f))

RequireNetworkRestart ==
    Counted /\ Became([World EXCEPT !.sch.external = TRUE, !.sch.reboot = TRUE])

\* Construction of the store and the scheduler on what the flash holds.
Boot ==
    /\ Disturb
    /\ ram' = [ok |-> TRUE, data |-> disk] /\ sch' = Fresh(disk) /\ svc' = FreshService
    /\ synced' = FALSE
    /\ UNCHANGED <<now, off, disk, last>>

\* Power fails at any moment; an explicit reset needs reset_permitted().
PowerLoss == Boot

Reset == ResetPermitted(World) /\ Boot

(* What JobService shows of the service, its engine and its other clients. *)

SvcDoes(s) == svc' = s /\ UNCHANGED <<clock, ram, disk, sch, last>>

\* The engine launches inside the armed second, which is one tick here.
Launch ==
    /\ svc.state = "ARMED" /\ now = svc.at
    /\ svc' = [svc EXCEPT !.state = "RUNNING", !.out = TRUE]
    /\ last' = IF svc.job.kind = "other" THEN last ELSE svc.job.slot
    /\ UNCHANGED <<clock, ram, disk, sch, disturbances>>

Miss == Disturb /\ svc.state = "ARMED" /\ SvcDoes(Ended(Recorded(svc, "bad"), "MISSED", FALSE))

Complete ==
    /\ svc.state = "RUNNING" /\ UNCHANGED disturbances
    /\ SvcDoes(Ended(Recorded(svc, "complete"), "COMPLETE", FALSE))

Fail == /\ Disturb /\ svc.state \in Executing
        /\ \E out \in BOOLEAN : SvcDoes(Ended(Recorded(svc, "bad"), "FAILED", out))

\* expire_resources
Lapse ==
    /\ Disturb /\ svc.owner # "none" /\ ~svc.release
    /\ SvcDoes(IF svc.state \in Executing THEN [svc EXCEPT !.release = TRUE]
               ELSE IF svc.state = "LOADED" THEN Cleared(svc)
               ELSE [svc EXCEPT !.owner = "none"])

\* A network or USB client owns the service, runs a job and leaves.
OtherClaims ==
    /\ Disturb /\ svc.owner = "none" /\ ~svc.inhibited /\ ~svc.maint /\ svc.state # "FAILED"
    /\ SvcDoes([svc EXCEPT !.owner = "other"])

OtherArms ==
    /\ Disturb /\ svc.owner = "other" /\ svc.state \notin Executing \cup {"FAILED"} /\ now < MaxTime
    /\ SvcDoes([svc EXCEPT !.state = "ARMED", !.job = Job("other", 0), !.at = now + 1])

OtherLeaves ==
    /\ UNCHANGED disturbances /\ svc.owner = "other" /\ svc.state \notin Executing \cup {"FAILED"}
    /\ SvcDoes(Cleared(svc))

\* The terminal records of others push the one of the message out.
Evict == Disturb /\ svc.owner = "other" /\ svc.record # "none" /\ SvcDoes([svc EXCEPT !.record = "none"])

LocalAbort ==
    /\ Disturb /\ svc.job # NoJob /\ svc.state \in Executing \cup {"LOADED"}
    /\ SvcDoes([Recorded(svc, "bad") EXCEPT !.state = "ABORTED", !.out = FALSE, !.owner = "none",
                                            !.release = FALSE])

Maintenance ==
    /\ Disturb
    /\ svc.maint \/ (svc.owner = "none" /\ svc.state \notin Executing \cup {"FAILED"})
    /\ SvcDoes([svc EXCEPT !.maint = ~@])

Tick ==
    /\ now < MaxTime /\ now' = now + 1
    /\ UNCHANGED <<off, synced, svc, ram, disk, sch, last, disturbances>>

Synchronize ==
    /\ ~synced /\ synced' = TRUE
    /\ UNCHANGED <<now, off, svc, ram, disk, sch, last, disturbances>>

\* A time source steps the clock, or the clock is lost.
SetClock ==
    /\ Disturb
    /\ \E o \in Offsets, y \in BOOLEAN : off' = o /\ synced' = y
    /\ UNCHANGED <<now, svc, ram, disk, sch, last>>

Commands == Stop \/ Config \/ PutMessage \/ Pause \/ SaveFilters \/ SaveLogging
            \/ RequireNetworkRestart

ServiceSteps == \/ Launch \/ Miss \/ Complete \/ Fail \/ Lapse \/ OtherClaims \/ OtherArms
                \/ OtherLeaves \/ Evict \/ LocalAbort \/ Maintenance

Next == \/ Poll \/ FaultyPoll \/ Commands \/ Reset \/ PowerLoss
        \/ ServiceSteps \/ Tick \/ Synchronize \/ SetClock

Spec == Init /\ [][Next]_vars

-------------------------------------------------------------------------------
(* Properties *)

Mine == svc.job.kind \in {"wspr", "msg"} /\ svc.state \in Executing

\* No start is transmitted twice, whatever restarts, clock steps, STOPs and failed
\* writes come between: an armed start is later than every start that went out.
NeverAgain == Mine /\ svc.state = "ARMED" => svc.job.slot > last

\* What is armed or on the air is reserved on flash: a restart cannot repeat it.
ReservedFirst == Mine => svc.job.slot <= disk.mark

\* A message on the air is marked in flight on flash, so that a restart in the
\* middle of it is recognised and the schedule stays off until it is confirmed.
FlightMarked ==
    Mine /\ svc.job.kind = "msg" => disk.flight /\ disk.lastMsg = svc.job.slot

\* Whatever a failed or torn write leaves, the next boot can load it (Store::load
\* refuses a record with both schedules enabled, a message start after the
\* watermark, or a message in flight that is not the last start).
Loadable ==
    \A d \in {ram.data, disk} : /\ ~(d.cfg.enabled /\ d.msg = "enabled")
                                /\ d.lastMsg \in 0..d.mark
                                /\ d.flight => d.lastMsg = d.mark

\* After STOP nothing of the schedules is armed or on the air, unless the abort was
\* not confirmed, until something resumes it.
StoppedQuiet == sch.suspended => ~Mine

\* The second frame of a pair only follows a first frame that was transmitted.
SecondNeedsFirst ==
    sch.pair.frame = "second" /\ Mine => svc.job.slot = sch.pair.second
                                         /\ last >= sch.pair.second - SlotDuration

\* Nothing is armed for hardware settings that differ from those of this boot.
HardwareCurrent == Mine => ram.data.cfg.hw = sch.boot.hw

\* A start is armed only where the status predicted it.
PredictedStep ==
    svc.owner = "none" /\ svc'.state = "ARMED" /\ svc'.owner = "local" =>
        svc'.job.slot \in {NextMessageStart(World, "none"), NextWsprStart(World, 1),
                           NextWsprStart(World, 2)}

ArmsAsPredicted == [][PredictedStep]_vars

\* A start goes out at most once, whatever fails or restarts: what is armed is
\* reserved, marked and later than all before, a second frame follows its first.
AtMostOnce == NeverAgain /\ ReservedFirst /\ FlightMarked /\ SecondNeedsFirst

\* After a command, a failed write or a restart the scheduler is where the user
\* left it: loadable, silent after STOP, on the hardware that it was booted for.
StaysPut == Loadable /\ StoppedQuiet /\ HardwareCurrent

=============================================================================
