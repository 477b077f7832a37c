---------------------------- MODULE Provisioning ----------------------------
(***************************************************************************)
(* What the device keeps about its owner, and how it is saved, replaced    *)
(* and reset: the profile journal (provisioning/storage.cpp), the access   *)
(* journal (provisioning/access.cpp), the claim of an owner, the settings  *)
(* saved over USB or the network, and the reset that finishes after a      *)
(* restart (provisioning/reset.cpp).                                       *)
(*                                                                         *)
(* Secrets, stations and radio settings are numbers: the number of the     *)
(* operation that brought them in, 0 for none or the default.  A write to  *)
(* a journal is one step whose failure, or loss of power, leaves the slot  *)
(* in any state between the old and the new record.  The configuration     *)
(* and the draft are registers (see Journal).                              *)
(***************************************************************************)
EXTENDS Integers, FiniteSets

CONSTANTS MaxWork,    \* bound on the operations
          MaxFaults,  \* bound on the failed writes, power cuts and decayed pages
          Levels      \* the levels of reset asked for

VARIABLES d,          \* what flash holds
          m,          \* what memory holds
          mode,       \* "off", "up", or "recovery" (no service but a reset)
          work, faults,
          rot,        \* a page has decayed
          told,       \* claims answered as committed, and as rejected
          rst,        \* the last reset that became durable: level, moment, station to keep
          pairs       \* the pairs of station and radio that someone asked for

vars == <<d, m, mode, work, faults, rot, told, rst, pairs>>

New == work + 1

-----------------------------------------------------------------------------
(* Writes.  A fault strikes the write number left, and is a cut of power   *)
(* or a refusal; o says what it leaves behind.                             *)

MaxOps == 16

Outcomes == 1..11

NoFault == [kind |-> "none", left |-> 0, o |-> 1]

Faults ==
    {NoFault}
        \cup IF faults < MaxFaults THEN [kind : {"cut", "fail"}, left : 1..MaxOps, o : Outcomes] ELSE {}

World(q) ==
    [d |-> d, m |-> m, kind |-> q.kind, left |-> q.left, o |-> q.o, dead |-> FALSE, bad |-> FALSE]

Calm == World(NoFault)

Bad(w) == [w EXCEPT !.bad = TRUE]

Good(w) == [w EXCEPT !.bad = FALSE]

Op(w, done, torn) ==
    CASE w.dead     -> Bad(w)
      [] w.left = 1 -> [w EXCEPT !.d = torn, !.left = 0, !.dead = w.kind = "cut", !.bad = TRUE]
      [] OTHER      -> [w EXCEPT !.d = done, !.left = IF @ = 0 THEN 0 ELSE @ - 1, !.bad = FALSE]

\* A register has the old or the new value.
Register(w, done) == Op(w, done, IF w.o > 5 THEN done ELSE w.d)

Blank(v) == [h |-> "erased", p |-> "erased", c |-> "erased", seq |-> 0, val |-> v]

Record(n, v) == [h |-> "ok", p |-> "ok", c |-> "ok", seq |-> n, val |-> v]

\* The slot after an erase or a page write stopped: first the header goes, or any page of the old
\* record; then the payload, the header and the commit page are programmed.
Stopped(old, empty, new, o) ==
    <<old, [old EXCEPT !.h = "torn", !.p = "torn", !.c = "torn"], [old EXCEPT !.h = "erased"],
      [old EXCEPT !.c = "erased"], empty, [new EXCEPT !.h = "erased", !.p = "torn", !.c = "erased"],
      [new EXCEPT !.h = "erased", !.c = "erased"], [new EXCEPT !.h = "torn", !.c = "erased"],
      [new EXCEPT !.c = "erased"], [new EXCEPT !.c = "torn"], new>>[o]

StoppedErase(old, empty, o) == Stopped(old, empty, empty, IF o > 5 THEN 5 ELSE o)

-----------------------------------------------------------------------------
(* ProfileStore                                                            *)

NoProfile == [src |-> "legacy", wifi |-> 0, sta |-> 0, usb |-> FALSE, tls |-> 0, host |-> 0, req |-> 0]

Unprovisioned == [NoProfile EXCEPT !.src = "unprovisioned"]

BlankProfile == Blank(NoProfile)

ScanProfile(s) ==
    CASE s.h = "erased" /\ s.c = "erased"              -> IF s.p = "erased" THEN "empty" ELSE "pending"
      [] s.c = "erased" /\ (s.h = "torn" \/ s.p = "ok")  -> "pending"
      [] s.c = "torn" /\ s.h # "ok"                    -> "unknown"
      [] s.h = "ok" /\ s.p = "ok" /\ s.c = "ok"        -> "valid"
      [] OTHER                                         -> "committed"

ValidProfiles(pm) == {i \in 1..2 : ScanProfile(pm[i]) = "valid"}

Newest(slots, valid) == CHOOSE i \in valid : \A k \in valid : slots[i].seq >= slots[k].seq

ProfileFault(pm, valid) ==
    \/ \E i \in 1..2 : ScanProfile(pm[i]) = "unknown"
    \/ valid = 1..2 /\ pm[1].seq = pm[2].seq
    \/ \E i \in 1..2 :
           /\ ScanProfile(pm[i]) = "committed"
           /\ (valid = {} \/ pm[i].seq >= pm[Newest(pm, valid)].seq)
    \/ valid = {} /\ \E i \in 1..2 : ScanProfile(pm[i]) # "empty"

LoadedProfile(pm, valid) ==
    CASE ProfileFault(pm, valid) -> [ok |-> FALSE, seq |-> 0, act |-> 1, val |-> NoProfile]
      [] valid = {}              -> [ok |-> TRUE, seq |-> 0, act |-> 1, val |-> NoProfile]
      [] OTHER -> [ok |-> TRUE, seq |-> pm[Newest(pm, valid)].seq, act |-> Newest(pm, valid),
                   val |-> pm[Newest(pm, valid)].val]

LoadProfile(pm) == LoadedProfile(pm, ValidProfiles(pm))

\* A consumer profile replaces another for a new request, or by one of the three changes that keep it.
Replaceable(old, v) ==
    \/ v = old
    \/ v.req # old.req
    \/ old.tls = 0 /\ v.tls # 0 /\ v = [old EXCEPT !.tls = v.tls]
    \/ v.host # old.host /\ v = [old EXCEPT !.host = v.host]
    \/ ~old.usb /\ v = [old EXCEPT !.usb = TRUE, !.sta = 0]

Selectable(p, v) ==
    /\ p.ok
    /\ p.val.src = "consumer" => v.src \in {"consumer", "unprovisioned"}
    /\ v.src = "network" => p.val.src = "network" \/ (p.val.src # "consumer" /\ p.seq = 0)
    /\ v.src = "consumer" =>
           \/ p.val.src = "legacy" /\ p.seq = 0
           \/ p.val.src \in {"unprovisioned", "network"}
           \/ p.val.src = "consumer" /\ Replaceable(p.val, v)

Target(ram) == IF ram.seq = 0 THEN 1 ELSE 3 - ram.act

SelectedProfile(w, v, i, n) ==
    IF w.bad THEN [w EXCEPT !.m.p.ok = FALSE]
    ELSE [w EXCEPT !.m.p = [ok |-> TRUE, seq |-> n, act |-> i, val |-> v]]

WriteProfile(w, v, i, n) ==
    SelectedProfile(Op(w, [w.d EXCEPT !.pm[i] = Record(n, v)],
                       [w.d EXCEPT !.pm[i] = Stopped(@, BlankProfile, Record(n, v), w.o)]), v, i, n)

Select(w, v) ==
    CASE ~Selectable(w.m.p, v)                     -> Bad(w)
      [] v = w.m.p.val /\ v.src # "network"          -> Good(w)
      [] OTHER -> WriteProfile(w, v, Target(w.m.p), w.m.p.seq + 1)

ReloadProfile(w) == [w EXCEPT !.m.p = LoadProfile(w.d.pm)]

Reloaded(w) == IF w.bad THEN ReloadProfile(w) ELSE w

\* commit_setup_profile(): what it finds afterwards.
SetupResult(before, after, v) ==
    CASE after.ok /\ after.seq = before.seq + 1 /\ after.val = v -> "committed"
      [] after.ok /\ after.seq = before.seq /\ after.val = before.val -> "not committed"
      [] OTHER -> "reconcile"

CommitSetup(w, v) == IF ~w.m.p.ok THEN Bad(w) ELSE Reloaded(Select(w, v))

-----------------------------------------------------------------------------
(* AccessStore                                                             *)

NoReset == [level |-> "none", phase |-> "none"]

\* The default password; radio is the separate browser password.
FreshAccess ==
    [epoch |-> 1, radio |-> 0, bond |-> 0, field |-> FALSE, bleOff |-> FALSE, reset |-> NoReset]

BlankAccess == Blank(FreshAccess)

ScanAccess(s) ==
    CASE s.h = "erased" /\ s.p = "erased" /\ s.c = "erased" -> "empty"
      [] s.h = "erased" \/ s.c = "erased"                   -> "pending"
      [] s.h = "ok" /\ s.p = "ok" /\ s.c = "ok"             -> "valid"
      [] OTHER                                              -> "invalid"

FaultAccess == [st |-> "fault", seq |-> 0, act |-> 1, rec |-> FreshAccess]

HealthyAccess(am, i) == [st |-> "healthy", seq |-> am[i].seq, act |-> i, rec |-> am[i].val]

\* With a slot that does not verify, only a reset that is under way is taken up.
TornAccess(am, valid) ==
    LET pending == {i \in valid : am[i].val.reset.phase # "none"}
    IN  IF pending = {} THEN FaultAccess ELSE HealthyAccess(am, CHOOSE i \in pending : TRUE)

LoadedAccess(am, valid) ==
    CASE \E i \in 1..2 : ScanAccess(am[i]) = "invalid" -> TornAccess(am, valid)
      [] \A i \in 1..2 : ScanAccess(am[i]) = "empty" -> [FaultAccess EXCEPT !.st = "erased"]
      [] valid = {} \/ (valid = 1..2 /\ am[1].seq = am[2].seq) -> FaultAccess
      [] OTHER -> HealthyAccess(am, Newest(am, valid))

LoadAccess(am) == LoadedAccess(am, {i \in 1..2 : ScanAccess(am[i]) = "valid"})

CommittedAccess(w, v, i, n) ==
    IF w.bad THEN [w EXCEPT !.m.a.st = "fault"]
    ELSE [w EXCEPT !.m.a = [st |-> "healthy", seq |-> n, act |-> i, rec |-> v]]

WriteAccess(w, v, i, n) ==
    CommittedAccess(Op(w, [w.d EXCEPT !.am[i] = Record(n, v)],
                       [w.d EXCEPT !.am[i] = Stopped(@, BlankAccess, Record(n, v), w.o)]), v, i, n)

CommitAccess(w, v) == WriteAccess(w, v, Target(w.m.a), w.m.a.seq + 1)

InitializeAccess(w) == IF w.m.a.st = "erased" THEN CommitAccess(w, FreshAccess) ELSE Good(w)

ReplaceAccess(w, v) ==
    CASE w.m.a.st # "healthy" \/ v.epoch < w.m.a.rec.epoch -> Bad(w)
      [] v = w.m.a.rec                                     -> Good(w)
      [] OTHER                                             -> CommitAccess(w, v)

ResetPending(a) == a.st = "healthy" /\ a.rec.reset.phase # "none"

\* From an erased store the record also turns BLE off.
NextAccess(a) == IF a.st = "erased" THEN [FreshAccess EXCEPT !.bleOff = TRUE] ELSE a.rec

Settled(w) == IF w.bad THEN [w EXCEPT !.m.a = LoadAccess(w.d.am)] ELSE w

SetRecord(w, v) ==
    IF w.m.a.st = "fault" \/ ResetPending(w.m.a) THEN Bad(w)
    ELSE Settled(IF w.m.a.st = "erased" THEN CommitAccess(w, v) ELSE ReplaceAccess(w, v))

-----------------------------------------------------------------------------
(* The configuration, the draft, and the runtime's view of the profile     *)

NoConfig == [has |-> FALSE, sta |-> 0, radio |-> 0, wifi |-> 0]

\* A configuration without a station does not parse.
SaveConfig(w, c) ==
    IF ~w.m.cfgok \/ c.sta = 0 THEN Bad(w)
    ELSE LET r == Register(w, [w.d EXCEPT !.cfg = c])
         IN  IF r.bad THEN [r EXCEPT !.m.cfgok = FALSE] ELSE [r EXCEPT !.m.cfg = c]

SaveDraft(w, x) ==
    IF ~w.m.drok THEN Bad(w)
    ELSE LET r == Register(w, [w.d EXCEPT !.draft = x]) IN [r EXCEPT !.m.drok = ~r.bad]

RuntimeOf(p) == [ok |-> p.ok, gen |-> p.seq, val |-> p.val]

LoadRuntime(w) == [w EXCEPT !.m.rt = RuntimeOf(w.m.p)]

Overlay(v, c) ==
    IF v.src # "consumer" THEN c
    ELSE [c EXCEPT !.wifi = v.wifi, !.sta = IF v.usb THEN @ ELSE v.sta, !.has = TRUE]

ControlHealthy(w) == w.m.p.ok /\ w.m.rt.ok /\ w.m.rt.gen = w.m.p.seq

SettingsHealthy(w) == ControlHealthy(w) /\ w.m.cfgok /\ w.m.drok

ConsumerCandidate(v) ==
    IF v.src = "consumer" THEN v
    ELSE [NoProfile EXCEPT !.src = "consumer", !.usb = TRUE, !.wifi = v.wifi]

\* LocalSettings::commit()
CommitLocal(w, v) ==
    IF ~SettingsHealthy(w) THEN Bad(w)
    ELSE IF w.m.p.val = v THEN Good(w)
    ELSE LET r == LoadRuntime(CommitSetup(w, v))
         IN  [r EXCEPT !.bad = ~r.m.rt.ok \/ SetupResult(w.m.p, r.m.p, v) # "committed"]

Then(w, next) == IF w.bad \/ w.dead THEN Bad(w) ELSE next

EnsureLocal(w) ==
    IF ~SettingsHealthy(w) THEN Bad(w)
    ELSE IF w.m.rt.val.src = "consumer" THEN Good(w)
    ELSE CommitLocal(w, ConsumerCandidate(w.m.rt.val))

-----------------------------------------------------------------------------
(* Settings saved over USB or the network                                  *)

WifiProfile(v, wifi, remove, id) ==
    [ConsumerCandidate(v) EXCEPT !.wifi = wifi, !.req = id, !.usb = @ \/ remove,
        !.sta = IF ConsumerCandidate(v).usb \/ remove THEN 0 ELSE @]

WifiConfig(w, wifi, remove) ==
    IF w.m.cfg.has \/ (remove /\ w.m.rt.val.src = "consumer" /\ ~w.m.rt.val.usb)
    THEN SaveConfig(w, [Overlay(w.m.rt.val, w.m.cfg) EXCEPT !.wifi = wifi])
    ELSE Good(w)

WifiCommit(w, wifi, remove, id) == Then(w, CommitLocal(w, WifiProfile(w.m.rt.val, wifi, remove, id)))

WifiAfterDraft(w, wifi, remove, id) == Then(w, WifiCommit(WifiConfig(w, wifi, remove), wifi, remove, id))

\* Draft, then configuration, then the profile.
WifiSave(w, wifi, remove, id) ==
    IF ~SettingsHealthy(w) THEN Bad(w) ELSE WifiAfterDraft(SaveDraft(w, wifi), wifi, remove, id)

Transfer(v) == [v EXCEPT !.usb = TRUE, !.sta = 0]

\* select_config_station(): the runtime keeps everything but the station.
StationRuntime(w, v) ==
    LET r == CommitSetup(w, v)
    IN  IF SetupResult(w.m.p, r.m.p, v) = "committed"
        THEN [r EXCEPT !.m.rt = [ok |-> TRUE, gen |-> r.m.p.seq, val |-> v], !.bad = FALSE]
        ELSE Bad(r)

StationCommit(w, v) == Then(w, StationRuntime(w, v))

BugStationSave(w, c) ==
    CASE ~SettingsHealthy(w) -> Bad(w)
      [] w.m.rt.val.src # "consumer" \/ w.m.rt.val.usb -> Good(w)
      [] OTHER -> StationCommit(SaveConfig(w, c), Transfer(w.m.rt.val))

StationSave(w, c) ==
    CASE ~SettingsHealthy(w) -> Bad(w)
      [] w.m.rt.val.src # "consumer" \/ w.m.rt.val.usb -> Good(w)
      [] OTHER -> StationCommit(SaveConfig(w, Overlay(w.m.rt.val, w.m.cfg)), Transfer(w.m.rt.val))

Asked(w, sta, radio) == [has |-> TRUE, sta |-> sta, radio |-> radio, wifi |-> w.m.rt.val.wifi]

PutFinal(w, c) == Then(w, IF Overlay(w.m.rt.val, c) = c THEN SaveConfig(w, c) ELSE Bad(w))

PutStation(w, sta, radio) ==
    Then(w, PutFinal(IF sta = Overlay(w.m.rt.val, w.m.cfg).sta THEN w
                     ELSE StationSave(w, Asked(w, sta, radio)), Asked(w, sta, radio)))

\* PUT of the configuration over USB.
PutConfig(w, sta, radio) == PutStation(EnsureLocal(w), sta, radio)

HostnameSave(w, id) ==
    IF ~w.m.p.ok \/ w.m.p.val.src # "consumer" \/ w.m.rt.gen # w.m.p.seq THEN Bad(w)
    ELSE LoadRuntime(CommitSetup(w, [w.m.p.val EXCEPT !.host = id]))

-----------------------------------------------------------------------------
(* The claim of an owner, and setup of the network                         *)

NoSlot == [st |-> "none", src |-> "legacy", gen |-> 0, req |-> 0, wifi |-> 0]

CurrentSource(w, s) == w.m.p.ok /\ w.m.p.val.src = s.src /\ w.m.p.seq = s.gen

BugClaimProfile(w, s, utc) ==
    [src |-> "consumer", wifi |-> s.req, sta |-> s.req, usb |-> FALSE, req |-> s.req,
     host |-> w.m.p.val.host,
     tls |-> IF utc THEN s.req ELSE 0]

\* Trust that was minted stays; otherwise it is minted now, or left pending without a clock.
ClaimProfile(w, s, utc) ==
    [src |-> "consumer", wifi |-> s.req, sta |-> s.req, usb |-> FALSE, req |-> s.req,
     host |-> w.m.p.val.host,
     tls |-> IF s.src = "consumer" THEN w.m.p.val.tls ELSE IF utc THEN s.req ELSE 0]

RuntimeAgrees(w, s) == w.m.rt.ok /\ w.m.rt.val.src = s.src

\* late: the trial's window closes while the certificate is made, or while flash is written.
BugClaimResult(w, before, late) ==
    CASE w.bad                    -> "rejected"
      [] late = "written"         -> "reconcile"
      [] OTHER                    -> "committed"

ClaimResult(w, before, late) ==
    CASE w.bad                    -> "reconcile"
      [] late = "written"         -> "reconcile"
      [] OTHER                    -> "committed"

-----------------------------------------------------------------------------
(* Reset                                                                   *)

SavePhase(w, phase) == ReplaceAccess(w, [w.m.a.rec EXCEPT !.reset.phase = phase])

BeginReset(w, level) ==
    IF w.m.a.st # "healthy" \/ (level # "full" /\ ~w.m.p.ok) THEN Bad(w)
    ELSE IF ResetPending(w.m.a) THEN Good(w)
    ELSE ReplaceAccess(w, [w.m.a.rec EXCEPT !.reset = [level |-> level, phase |-> "intent"]])

EraseDraft(w) == Register(w, [w.d EXCEPT !.draft = 0])

BugPreserved(c, v) == [c EXCEPT !.wifi = 0, !.has = TRUE]

Preserved(c, v) == [c EXCEPT !.wifi = 0, !.has = TRUE, !.sta = IF v.src = "consumer" THEN v.sta ELSE @]

PreserveConfig(w) ==
    IF w.m.p.val.src # "consumer" /\ ~w.m.cfg.has THEN Good(w)
    ELSE SaveConfig(w, Preserved(w.m.cfg, w.m.p.val))

AfterDraft(w) == Then(w, PreserveConfig(w))

BugPreserveOperational(w) == PreserveConfig(w)

PreserveOperational(w) == AfterDraft(EraseDraft(w))

EraseProfile(w, i) ==
    Op(w, [w.d EXCEPT !.pm[i] = BlankProfile], [w.d EXCEPT !.pm[i] = StoppedErase(@, BlankProfile, w.o)])

SelectUnprovisioned(w) == IF w.m.p.ok THEN Select(w, Unprovisioned) ELSE Bad(w)

AfterErase(w) == Then(w, SelectUnprovisioned(ReloadProfile(w)))

EraseSecond(w) == Then(w, AfterErase(EraseProfile(w, 2)))

ClearProfile(w) == EraseSecond(EraseProfile(w, 1))

EraseConfig(w) == LET r == Register(w, [w.d EXCEPT !.cfg = NoConfig])
                  IN  [r EXCEPT !.m.cfg = IF r.bad THEN @ ELSE NoConfig]

EraseOperational(w) ==
    LET extras == Register(w, [w.d EXCEPT !.extra = 0])
        draft  == Then(extras, EraseDraft(extras))
    IN  Then(draft, EraseConfig(draft))

At(w, phase) == ~w.bad /\ ~w.dead /\ w.m.a.rec.reset.phase = phase

Level(w) == w.m.a.rec.reset.level

FromIntent(w) ==
    IF ~At(w, "intent") THEN w
    ELSE LET r == IF Level(w) = "provisioning" THEN PreserveOperational(w) ELSE w
         IN  Then(r, SavePhase(r, "preserved"))

FromPreserved(w) ==
    IF ~At(w, "preserved") THEN w
    ELSE LET r == IF Level(w) # "access" THEN ClearProfile(w) ELSE w IN Then(r, SavePhase(r, "selected"))

FromSelected(w) ==
    IF ~At(w, "selected") THEN w
    ELSE ReplaceAccess(w, [FreshAccess EXCEPT !.epoch = w.m.a.rec.epoch + 1,
                                              !.field = Level(w) = "access",
                                              !.reset = [level |-> Level(w), phase |-> "access"]])

FromAccess(w) ==
    IF ~At(w, "access") THEN w
    ELSE LET r == IF Level(w) = "full" THEN EraseOperational(w) ELSE w IN Then(r, SavePhase(r, "erased"))

\* Bonds that cannot be erased are locked out: BLE is off until they are.
FromErased(w) ==
    IF ~At(w, "erased") THEN w
    ELSE LET r == Register(w, [w.d EXCEPT !.stack = 0])
         IN  IF r.bad THEN Bad(ReplaceAccess(r, [r.m.a.rec EXCEPT !.bleOff = TRUE]))
             ELSE ReplaceAccess(r, [r.m.a.rec EXCEPT !.bleOff = FALSE, !.reset.phase = "bonds"])

FromBonds(w) ==
    IF ~At(w, "bonds") THEN Bad(w) ELSE ReplaceAccess(w, [w.m.a.rec EXCEPT !.reset = NoReset])

Resume(w) == FromBonds(FromErased(FromAccess(FromSelected(FromPreserved(FromIntent(w))))))

-----------------------------------------------------------------------------
(* Power                                                                   *)

DeadMemory ==
    [p |-> [ok |-> FALSE, seq |-> 0, act |-> 1, val |-> NoProfile], a |-> FaultAccess, cfg |-> NoConfig,
     cfgok |-> FALSE, drok |-> FALSE, rt |-> [ok |-> FALSE, gen |-> 0, val |-> NoProfile],
     slot |-> NoSlot, fence |-> FALSE, clean |-> FALSE]

BootMemory ==
    [DeadMemory EXCEPT !.p = LoadProfile(d.pm), !.a = LoadAccess(d.am), !.cfg = d.cfg, !.cfgok = TRUE,
                       !.drok = TRUE, !.rt = RuntimeOf(LoadProfile(d.pm)), !.clean = TRUE]

\* An erased access journal is normal only for a device without an owner's own station.
ErasedAccessOk(p) ==
    /\ p.ok
    /\ \/ p.val.src = "unprovisioned"
       \/ p.val.src = "legacy" /\ p.seq = 0
       \/ p.val.src = "consumer" /\ p.val.usb

AccessRecovery(mem) ==
    \/ mem.a.st = "fault" \/ ResetPending(mem.a)
    \/ mem.a.st = "erased" /\ ~ErasedAccessOk(mem.p)

Init ==
    /\ d = [pm |-> <<BlankProfile, BlankProfile>>, am |-> <<BlankAccess, BlankAccess>>,
            cfg |-> NoConfig, draft |-> 0, extra |-> 0, stack |-> 0]
    /\ m = DeadMemory /\ mode = "off" /\ work = 0 /\ faults = 0 /\ rot = FALSE
    /\ told = [committed |-> {}, rejected |-> {}]
    /\ rst = [level |-> "none", at |-> 0, sta |-> 0]
    /\ pairs = {<<0, 0>>}

\* The station in force, as a load of everything would give it.
Effective(dd) == Overlay(LoadProfile(dd.pm).val, dd.cfg)

\* A reset became durable when a load would find it.
DurableReset(dd) ==
    IF /\ LoadAccess(dd.am).st = "healthy" /\ LoadAccess(dd.am).rec.reset.phase = "intent"
       /\ ~ResetPending(LoadAccess(d.am))
    THEN [level |-> LoadAccess(dd.am).rec.reset.level, at |-> work, sta |-> Effective(d).sta]
    ELSE rst

Became(ws, next) ==
    \E w \in ws :
        /\ w.left = 0
        /\ d' = w.d
        /\ m' = IF w.dead \/ next = "off" THEN DeadMemory
                ELSE [w.m EXCEPT !.clean = @ /\ w.kind = "none"]
        /\ mode' = IF w.dead THEN "off" ELSE next
        /\ faults' = faults + (IF w.kind = "none" THEN 0 ELSE 1)
        /\ rst' = DurableReset(w.d)

Boot ==
    /\ mode = "off"
    /\ \E q \in Faults :
           IF ResetPending(BootMemory.a)
           THEN \E r \in {Resume([World(q) EXCEPT !.m = BootMemory])} :
                    Became({r}, IF r.bad THEN "recovery" ELSE "off")
           ELSE q.kind = "none" /\ Became({[World(q) EXCEPT !.m = BootMemory]},
                                          IF AccessRecovery(BootMemory) THEN "recovery" ELSE "up")
    /\ UNCHANGED <<work, rot, told, pairs>>

PowerOff ==
    /\ mode # "off"
    /\ m' = DeadMemory /\ mode' = "off"
    /\ UNCHANGED <<d, work, faults, rot, told, rst, pairs>>

\* A page of flash decays while the device is off.
Rot ==
    /\ mode = "off" /\ faults < MaxFaults
    /\ \E i \in 1..2 : \E page \in {"h", "p", "c"} :
           \/ d.pm[i][page] = "ok" /\ d' = [d EXCEPT !.pm[i][page] = "torn"]
           \/ d.am[i][page] = "ok" /\ d' = [d EXCEPT !.am[i][page] = "torn"]
    /\ rot' = TRUE /\ faults' = faults + 1 /\ rst' = DurableReset(d')
    /\ UNCHANGED <<m, mode, work, told, pairs>>

-----------------------------------------------------------------------------
(* Operations                                                              *)

Working == mode = "up" /\ ~m.fence /\ work < MaxWork

Worked == work' = New /\ UNCHANGED rot

WifiSaves ==
    /\ Working
    /\ \E q \in Faults, remove \in BOOLEAN :
           Became({WifiSave(World(q), IF remove THEN 0 ELSE New, remove, New)}, "up")
    /\ Worked /\ UNCHANGED <<told, pairs>>

\* The host replaces station and radio, or the radio alone.
PutConfigs ==
    /\ Working
    /\ \E q \in Faults, sta \in {New, Effective(d).sta} :
           /\ sta # 0
           /\ pairs' = pairs \cup {<<sta, New>>}
           /\ Became({PutConfig(World(q), sta, New)}, "up")
    /\ Worked /\ UNCHANGED told

HostnameSaves ==
    /\ Working /\ m.p.val.src = "consumer"
    /\ \E q \in Faults : Became({HostnameSave(World(q), New)}, "up")
    /\ Worked /\ UNCHANGED <<told, pairs>>

SetRadioPassword ==
    /\ Working
    /\ \E q \in Faults : Became({SetRecord(World(q), [NextAccess(m.a) EXCEPT !.radio = New])}, "up")
    /\ Worked /\ UNCHANGED <<told, pairs>>

SetFieldMode ==
    /\ Working /\ ~NextAccess(m.a).field
    /\ \E q \in Faults : Became({SetRecord(World(q), [NextAccess(m.a) EXCEPT !.field = TRUE])}, "up")
    /\ Worked /\ UNCHANGED <<told, pairs>>

\* A phone is bonded (LocalAccess): the record first, then the stack's own store.
Bond ==
    /\ Working /\ m.a.st = "healthy" /\ ~m.a.rec.bleOff
    /\ \E r \in {ReplaceAccess(Calm, [m.a.rec EXCEPT !.bond = New])} :
           Became({[r EXCEPT !.d.stack = New, !.d.extra = New]}, "up")
    /\ Worked /\ UNCHANGED <<told, pairs>>

\* Network setup from the open access point, for a blank, a network or a consumer profile.
NetworkProfile(v, id) ==
    IF v.src = "consumer" THEN [v EXCEPT !.wifi = id, !.req = id]
    ELSE [NoProfile EXCEPT !.src = "network", !.wifi = id, !.req = id]

NetworkSetup ==
    /\ Working /\ m.p.ok
    /\ m.p.seq = 0 \/ (m.p.val.src \in {"network", "consumer"} /\ m.rt.ok /\ m.rt.val.src = m.p.val.src)
    /\ \E q \in Faults : \E r \in {InitializeAccess(World(q))} :
           Became({Then(r, CommitSetup(r, NetworkProfile(m.p.val, New)))}, "up")
    /\ Worked /\ UNCHANGED <<told, pairs>>

ClaimStart ==
    /\ Working /\ m.slot.st = "none" /\ m.p.ok
    /\ m.p.val.src = "legacy" => m.p.seq = 0
    /\ \E q \in Faults : \E r \in {InitializeAccess(World(q))} :
           Became({IF r.bad THEN r
                   ELSE [r EXCEPT !.m.slot = [st |-> "identify", src |-> m.p.val.src, gen |-> m.p.seq,
                                              req |-> New, wifi |-> New]]}, "up")
    /\ Worked /\ UNCHANGED <<told, pairs>>

\* The press of the button or the open setup, then the request of the claim.
ClaimAdvance ==
    /\ mode = "up"
    /\ \/ m.slot.st = "identify" /\ m' = [m EXCEPT !.slot.st = "granted"]
       \/ m.slot.st = "granted" /\ m' = [m EXCEPT !.slot.st = "trial"]
    /\ UNCHANGED <<d, mode, work, faults, rot, told, rst, pairs>>

\* expire() and cancel(), at the end of any of the four windows or when output starts.
ClaimExpire ==
    /\ mode = "up" /\ m.slot.st # "none"
    /\ m' = [m EXCEPT !.slot = NoSlot]
    /\ UNCHANGED <<d, mode, work, faults, rot, told, rst, pairs>>

ClaimRejected ==
    /\ d' = d /\ m' = [m EXCEPT !.slot = NoSlot] /\ mode' = mode /\ faults' = faults /\ rst' = rst
    /\ told' = [told EXCEPT !.rejected = @ \cup {m.slot.req}] /\ UNCHANGED pairs

ClaimSelect(utc, late, q) ==
    \E r \in {Select(World(q), ClaimProfile(World(q), m.slot, utc))} :
        /\ Became({[r EXCEPT !.m.slot = IF ClaimResult(r, m.p, late) = "committed"
                                        THEN [@ EXCEPT !.st = "terminal"] ELSE NoSlot]}, mode)
        /\ told' = [told EXCEPT
                       !.committed = IF ~r.dead /\ ClaimResult(r, m.p, late) = "committed"
                                     THEN @ \cup {m.slot.req} ELSE @,
                       !.rejected = IF ~r.dead /\ ClaimResult(r, m.p, late) = "rejected"
                                    THEN @ \cup {m.slot.req} ELSE @]
        /\ pairs' = pairs \cup {<<m.slot.req, d.cfg.radio>>}

CommitClaim ==
    /\ mode = "up" /\ ~m.fence /\ m.slot.st = "trial"
    /\ \E utc \in BOOLEAN, late \in {"no", "minted", "written"} :
           IF ~CurrentSource(Calm, m.slot) \/ late = "minted"
              \/ ~RuntimeAgrees(Calm, m.slot)
           THEN ClaimRejected
           ELSE \E q \in Faults : ClaimSelect(utc, late, q)
    /\ UNCHANGED <<work, rot>>

\* The certificate of a claim that was saved without a clock.
MaterializeTls ==
    /\ Working /\ m.p.ok /\ m.p.val.src = "consumer" /\ m.p.val.tls = 0
    /\ \E q \in Faults : Became({Select(World(q), [m.p.val EXCEPT !.tls = New])}, "up")
    /\ Worked /\ UNCHANGED <<told, pairs>>

\* Admission is closed and the device restarts, whether or not the intent was saved.
ResetControl(w, level) ==
    LET r == InitializeAccess(w)
    IN  IF r.bad THEN r ELSE [BeginReset(r, level) EXCEPT !.m.fence = TRUE]

BeginsReset ==
    /\ mode # "off" /\ ~m.fence /\ work < MaxWork
    /\ \E q \in Faults, level \in Levels :
           Became({[ResetControl(World(q), level) EXCEPT !.m.fence = TRUE]}, mode)
    /\ Worked /\ UNCHANGED <<told, pairs>>

Next ==
    \/ Boot \/ PowerOff \/ Rot
    \/ WifiSaves \/ PutConfigs \/ HostnameSaves \/ SetRadioPassword \/ SetFieldMode \/ Bond
    \/ NetworkSetup \/ ClaimStart \/ ClaimAdvance \/ ClaimExpire \/ CommitClaim \/ MaterializeTls
    \/ BeginsReset

Spec == Init /\ [][Next]_vars

-----------------------------------------------------------------------------
(* Properties                                                              *)

InService == mode = "up" /\ ~m.fence

\* A device in service holds no secret from before the last reset, not even in a spare slot.
ResetWhole ==
    InService =>
        /\ rst.level # "none" =>
               \A i \in 1..2 : /\ d.am[i].p = "ok" => d.am[i].val.radio \notin 1..rst.at
                               /\ d.am[i].p = "ok" => d.am[i].val.bond \notin 1..rst.at
                               /\ m.a.rec.bleOff \/ d.stack \notin 1..rst.at
        /\ rst.level \in {"provisioning", "full"} =>
               /\ \A i \in 1..2 : d.pm[i].p = "ok" => /\ d.pm[i].val.wifi \notin 1..rst.at
                                                      /\ d.pm[i].val.tls \notin 1..rst.at
               /\ d.cfg.wifi \notin 1..rst.at /\ d.draft \notin 1..rst.at
        /\ rst.level = "full" => /\ d.extra \notin 1..rst.at
                                 /\ d.cfg.sta \notin 1..rst.at /\ d.cfg.radio \notin 1..rst.at

\* The reset of the provisioning keeps the station in force (unless its page decays).
StationKept ==
    InService /\ rst.level = "provisioning" /\ work = rst.at + 1 /\ rst.sta # 0 /\ ~rot =>
        Effective(d).sta = rst.sta

\* A claim answered as rejected is never found in flash, a committed one is found by a restart, and
\* a healthy store remembers what a restart would load.
ClaimHonest ==
    /\ \A i \in 1..2 : d.pm[i].p = "ok" /\ d.pm[i].h = "ok" => d.pm[i].val.req \notin told.rejected
    /\ mode = "up" /\ m.p.ok => LoadProfile(d.pm) = m.p
    /\ m.p.ok /\ m.slot.st = "terminal" => m.p.seq > m.slot.gen /\ m.p.val.src = "consumer"

\* What is transmitted under is a station and a radio configuration that someone asked for together.
StationWhole ==
    mode = "up" /\ m.p.ok => <<Effective(d).sta, Effective(d).radio>> \in pairs

\* No load goes back to an earlier generation, and trust once minted stays, but for a reset.
GenerationStep(old, new) ==
    old.ok /\ new.ok /\ new.val.src \notin {"legacy", "unprovisioned"} =>
        /\ new.seq >= old.seq
        /\ old.val.tls # 0 => new.val.tls = old.val.tls

GenerationsKept == [][GenerationStep(LoadProfile(d.pm), LoadProfile(d'.pm))]_vars

\* Whatever write fails or is cut, flash holds what was asked for: a reset is
\* whole and keeps what it must, a claim is what its client was told, station
\* and radio belong together.
StoreWhole == ResetWhole /\ StationKept /\ ClaimHonest /\ StationWhole

\* After a restart in which no write failed, no reset is left to finish.
ResetCarriedOut == mode # "off" /\ m.clean /\ ~m.fence => ~ResetPending(m.a)

=============================================================================
