-------------------------------- MODULE Api --------------------------------
(***************************************************************************)
(* The management API (network/api.cpp): every client reads a resource     *)
(* with a revision and may change settings only on the strength of that    *)
(* revision.  A restart or a change of the network is accepted first and   *)
(* carried out when its reply has been delivered.  Settings are small      *)
(* values; the scheduler, the job service and the network are what the     *)
(* handlers ask of them.                                                   *)
(***************************************************************************)
EXTENDS Integers

CONSTANTS Clients,      \* "usb", "radio" and "tls": one client of each carrier
          Kinds,        \* changes a client may ask for
          Resources,    \* resources a client may read and keep
          LateKinds,    \* changes asked for on a reading that was kept
          Faults,       \* which write of a change may fail
          Profiles,     \* initial profiles: "none", "network", "engineering", "consumer"
          MaxSteps      \* bound on changes

VARIABLES a,            \* saved settings, the scheduler's state and the change that is pending
          held,         \* a reading that a client keeps: the resource, its value, the revision
          h             \* history: steps; the held revision was used, was used again, was stale

vars == <<a, held, h>>

NoConfig == [set |-> FALSE, on |-> FALSE, dial |-> 0, st |-> 0, wifi |-> 0, sched |-> 0, cal |-> 0,
             timing |-> 0, ntp |-> 0, drive |-> 0, pins |-> 0]

FactoryConfig == [NoConfig EXCEPT !.set = TRUE]

NoReading == [by |-> "none", res |-> "none", view |-> <<>>, rev |-> <<>>]

NoPend == [tx |-> 0, what |-> "none"]

Init ==
    /\ \E p \in Profiles, c \in {NoConfig, FactoryConfig}, m \in {"none", "on"} :
         a = [bump |-> 0, seq |-> 0, cfg |-> c, msg |-> m, filters |-> 0, log |-> 0,
              prof |-> [src |-> p, usb |-> FALSE, st |-> 1, wifi |-> 1, name |-> 0], pseq |-> 0,
              draft |-> -1, dseq |-> 0, udp |-> 0, useq |-> 0, healthy |-> TRUE, idle |-> TRUE, maint |-> FALSE,
              recover |-> FALSE, pend |-> NoPend, restarts |-> 0, net |-> 0]
    /\ held = NoReading
    /\ h = [steps |-> 0, used |-> FALSE, stale |-> FALSE, again |-> FALSE]

-----------------------------------------------------------------------------
(* What is in force, what a client is shown of it, and the revision.       *)

\* overlay(): a claimed profile supplies the network and, until USB manages it, the station.
EffectiveConfig(w) ==
    CASE ~w.healthy -> NoConfig
      [] w.prof.src = "network" -> NoConfig
      [] w.prof.src = "consumer" /\ w.prof.usb /\ ~w.cfg.set -> NoConfig
      [] w.prof.src = "consumer" ->
            LET base == IF w.cfg.set THEN w.cfg ELSE FactoryConfig
            IN  [base EXCEPT !.wifi = w.prof.wifi, !.st = IF w.prof.usb THEN @ ELSE w.prof.st]
      [] OTHER -> w.cfg

BugRevision(w) == <<w.bump, EffectiveConfig(w), w.pseq, w.dseq>>

Revision(w) == <<w.bump, w.seq, EffectiveConfig(w), w.pseq, w.dseq>>

UdpRevision(w) == <<w.useq>>

ConfigView(w) == <<EffectiveConfig(w).on, EffectiveConfig(w).st, EffectiveConfig(w).wifi>>

StationView(w) == <<EffectiveConfig(w).st>>

FrequencyView(w) == <<EffectiveConfig(w).dial>>

CalibrationView(w) == <<EffectiveConfig(w).cal>>

NtpTimeoutView(w) == <<EffectiveConfig(w).ntp>>

AmplifierTimingView(w) == <<EffectiveConfig(w).timing>>

GpioDriveView(w) == <<EffectiveConfig(w).drive>>

HardwareView(w) == <<EffectiveConfig(w).pins>>

ApplicationView(w) == <<EffectiveConfig(w).st, EffectiveConfig(w).pins, EffectiveConfig(w).on>>

FilterView(w) == <<w.filters>>

MessageView(w) == <<w.msg>>

\* The draft, next to the station it would be applied over.
ProgressView(w) == <<w.draft, EffectiveConfig(w).st>>

HostnameView(w) == <<w.prof.name>>

WifiView(w) == <<w.prof.wifi>>

View(w, res) ==
    CASE res = "config" -> ConfigView(w)
      [] res = "station" -> StationView(w)
      [] res = "dial" -> FrequencyView(w)
      [] res = "cal" -> CalibrationView(w)
      [] res = "ntp" -> NtpTimeoutView(w)
      [] res = "timing" -> AmplifierTimingView(w)
      [] res = "drive" -> GpioDriveView(w)
      [] res = "pins" -> HardwareView(w)
      [] res = "application" -> ApplicationView(w)
      [] res = "filters" -> FilterView(w)
      [] res = "message" -> MessageView(w)
      [] res = "progress" -> ProgressView(w)
      [] res = "hostname" -> HostnameView(w)
      [] res = "wifi" -> WifiView(w)
      [] res = "logging" -> <<w.log>>
      [] res = "udp" -> <<w.udp>>
      [] OTHER -> <<>>

Reading(c, res) ==
    [by |-> c, res |-> res, view |-> View(a, res),
     rev |-> IF res = "udp" THEN UdpRevision(a) ELSE Revision(a)]

\* One client keeps what it read at the outset; the others act on what they read just before.
Get(c, res) ==
    /\ res = "wifi" => c = "usb"
    /\ held = NoReading /\ h.steps = 0
    /\ held' = Reading(c, res)
    /\ UNCHANGED <<a, h>>

-----------------------------------------------------------------------------
(* Saving.  Each step of a save gives [w, ok]; a failed write condemns the *)
(* store.                                                                  *)

Done(w) == [w |-> w, ok |-> TRUE]

Refused(w) == [w |-> w, ok |-> FALSE]

StoreWrite(w, new, fault) ==
    IF fault = "store" THEN Refused([w EXCEPT !.healthy = FALSE])
    ELSE Done([new EXCEPT !.seq = @ + 1])

ProfileWrite(w, prof, fault) ==
    IF fault = "profile" THEN Refused(w) ELSE Done([w EXCEPT !.prof = prof, !.pseq = @ + 1])

\* A USB write needs a profile of its own; one is made for a device that has none.
EnsureLocalProfile(w, fault) ==
    CASE w.prof.src = "consumer" -> Done(w)
      [] w.prof.src = "engineering" -> Refused(w)
      [] OTHER -> ProfileWrite(w, [w.prof EXCEPT !.src = "consumer", !.usb = TRUE, !.st = 0,
                                      !.wifi = IF w.prof.src = "network" THEN @ ELSE 0], fault)

\* Station authority moves to the configuration: first the station in force, then the profile.
StationSave(w, fault) ==
    IF w.prof.src # "consumer" \/ w.prof.usb THEN Done(w)
    ELSE IF fault = "station" THEN Refused([w EXCEPT !.healthy = FALSE])
    ELSE ProfileWrite([w EXCEPT !.cfg = EffectiveConfig(w), !.seq = @ + 1],
                      [w.prof EXCEPT !.usb = TRUE, !.st = 0], fault)

BugConsumed(r) == r

\* A saved configuration uses up the revision, even when nothing had to be written.
Consumed(r) == IF r.ok THEN Done([r.w EXCEPT !.bump = @ + 1]) ELSE r

SchedulerConfig(w, c, fault) == IF c = w.cfg THEN Done(w) ELSE StoreWrite(w, [w EXCEPT !.cfg = c], fault)

CarriesStation(c, w) == c = "usb" \/ (c = "radio" /\ w.prof.src = "consumer" /\ EffectiveConfig(w).set)

Identity(w, new) ==
    w.prof.src = "consumer" =>
        new.wifi = w.prof.wifi /\ (w.prof.usb \/ new.st = w.prof.st)

\* The candidate is checked, the profile prepared for it, and the configuration saved.
SaveCandidate(w, c, new, fault) ==
    LET moved == new.st # EffectiveConfig(w).st \/ ~EffectiveConfig(w).set
        own == IF c = "usb" /\ w.prof.src = "none" THEN EnsureLocalProfile(w, fault) ELSE Done(w)
        part == IF own.ok /\ moved /\ CarriesStation(c, w) /\ own.w.prof.src = "consumer"
                THEN IF new.wifi # own.w.prof.wifi THEN Refused(own.w) ELSE StationSave(own.w, fault)
                ELSE own
    IN  CASE new.on /\ (w.recover \/ w.msg = "on" \/ new.dial = 0) -> Refused(w)
          [] moved /\ ~CarriesStation(c, w) /\ w.prof.src \in {"consumer", "network"} -> Refused(w)
          [] ~part.ok -> part
          [] ~Identity(part.w, new) -> Refused(part.w)
          [] OTHER -> Consumed(SchedulerConfig(part.w, new, fault))

FrequencyCandidate(base, v) ==
    [base EXCEPT !.dial = v, !.on = IF base.dial = 0 THEN FALSE ELSE @]

CalibrationCandidate(base, v) == [base EXCEPT !.cal = v]

TimingCandidate(base, v) == [base EXCEPT !.timing = v]

NtpTimeoutCandidate(base, v) == [base EXCEPT !.ntp = v]

DriveCandidate(base, v) == [base EXCEPT !.drive = v]

\* The station or the pins alone.
ScopedCandidate(base, k, v) == [base EXCEPT ![k] = v]

SchedulesCandidate(base, v) == [base EXCEPT !.sched = v]

\* A whole configuration keeps what it has no authority over: frequency, calibration, timing.
ConfigCandidate(base, v, on) ==
    [(IF base.set THEN base ELSE FactoryConfig) EXCEPT !.st = v, !.on = on]

Candidate(w, k, v) ==
    LET base == EffectiveConfig(w)
    IN  CASE k = "dial" -> FrequencyCandidate(base, v)
          [] k = "cal" -> CalibrationCandidate(base, v)
          [] k = "timing" -> TimingCandidate(base, v)
          [] k = "ntp" -> NtpTimeoutCandidate(base, v)
          [] k = "drive" -> DriveCandidate(base, v)
          [] k \in {"st", "pins"} -> ScopedCandidate(base, k, v)
          [] k = "sched" -> SchedulesCandidate(base, v)
          [] OTHER -> ConfigCandidate(base, v, v = 1)

\* A draft is applied over what is in force; a field cleared on purpose is not filled in.
ApplyProgress(w, c, fault) ==
    IF w.draft = -1 THEN Refused(w)
    ELSE SaveCandidate(w, c, ConfigCandidate(EffectiveConfig(w), w.draft, EffectiveConfig(w).on), fault)

\* Changes of the other resources.
SaveFilters(w, v, fault) == StoreWrite(w, [w EXCEPT !.filters = v], fault)

SaveLogging(w, v, fault) == StoreWrite(w, [w EXCEPT !.log = v], fault)

SaveUdp(w, v, fault) ==
    IF fault = "store" THEN Refused(w) ELSE Done([w EXCEPT !.udp = v, !.useq = @ + 1])

MessageSchedule(w, v, fault) ==
    IF v = 1 /\ ((w.cfg.set /\ w.cfg.on) \/ w.recover) THEN Refused(w)
    ELSE StoreWrite(w, [w EXCEPT !.msg = IF v = 1 THEN "on" ELSE "off",
                                 !.recover = IF v = 1 THEN @ ELSE FALSE], fault)

PauseMessage(w, v, fault) ==
    Consumed(IF w.msg = "none" THEN Done(w)
             ELSE StoreWrite(w, [w EXCEPT !.msg = "off"], fault))

SaveProgress(w, v, fault) ==
    IF fault = "store" THEN Refused([w EXCEPT !.healthy = FALSE])
    ELSE Done([w EXCEPT !.draft = v, !.dseq = @ + 1])

SaveHostname(w, c, v, fault) ==
    LET own == IF c = "usb" THEN EnsureLocalProfile(w, fault) ELSE Done(w)
    IN  IF ~own.ok \/ own.w.prof.src # "consumer" THEN [own EXCEPT !.ok = FALSE]
        ELSE IF own.w.prof.name = v THEN own
        ELSE ProfileWrite(own.w, [own.w.prof EXCEPT !.name = v], fault)

\* wifi_save(): the draft, then the configuration, then the profile, so that old credentials
\* never come back.
WifiSave(w, v, fault) ==
    IF fault = "store" THEN Refused([w EXCEPT !.healthy = FALSE])
    ELSE LET d == [w EXCEPT !.dseq = @ + 1]
             s == IF d.cfg.set THEN [d EXCEPT !.cfg = [(IF d.prof.src = "consumer"
                                                        THEN EffectiveConfig(d) ELSE d.cfg)
                                                          EXCEPT !.wifi = v], !.seq = @ + 1]
                  ELSE d
         IN  ProfileWrite(s, [s.prof EXCEPT !.wifi = v,
                                !.src = IF @ = "engineering" THEN @ ELSE "consumer",
                                !.usb = @ \/ s.prof.src # "consumer"], fault)

\* A change of the network by USB takes effect with the next start.
WifiResource(w, v, fault) == WifiSave(w, v, fault)

Restart(w, tx) ==
    IF w.recover THEN Refused(w)
    ELSE Consumed(Done([w EXCEPT !.pend = [tx |-> tx, what |-> "restart"]]))

Network(w, tx) == Consumed(Done([w EXCEPT !.pend = [tx |-> tx, what |-> "network"]]))

Saved(w, c, k, v, tx, fault) ==
    CASE k = "filters" -> SaveFilters(w, v, fault)
      [] k = "logging" -> SaveLogging(w, v, fault)
      [] k = "udp" -> SaveUdp(w, v, fault)
      [] k = "message" -> MessageSchedule(w, v, fault)
      [] k = "pause" -> PauseMessage(w, v, fault)
      [] k = "progress" -> SaveProgress(w, v, fault)
      [] k = "hostname" -> SaveHostname(w, c, v, fault)
      [] k = "wifi" -> WifiResource(w, v, fault)
      [] k = "restart" -> Restart(w, tx)
      [] k = "network" -> Network(w, tx)
      [] k = "apply" -> ApplyProgress(w, c, fault)
      [] k # "config" /\ ~EffectiveConfig(w).set -> Refused(w)
      [] OTHER -> SaveCandidate(w, c, Candidate(w, k, v), fault)

Uses(k) == k \notin {"filters", "logging", "udp", "message", "progress", "hostname", "wifi"}

-----------------------------------------------------------------------------
(* A change, its delivery, and what happens around the API.                *)

\* Principal, host, origin and carrier; nothing is changed while USB maintenance is pending.
Authentic(c, k) == c \in Clients /\ ~a.maint /\ (k = "wifi" => c = "usb")

\* Only a client that holds the present revision changes anything, one change at a time.
Admitted(g, c, k) ==
    /\ g.rev = (IF k = "udp" THEN UdpRevision(a) ELSE Revision(a))
    /\ Authentic(c, k)
    /\ a.idle \/ k = "pause"
    /\ a.pend = NoPend
    /\ a.healthy

Put(g, c, k, v, fault, cost) ==
    /\ h.steps + cost <= MaxSteps
    /\ Admitted(g, c, k)
    /\ \E r \in {Saved(a, c, k, v, h.steps + 1, fault)} :
         /\ a' = r.w
         /\ h' = [h EXCEPT !.steps = @ + cost,
                           !.stale = @ \/ (r.ok /\ View(a, g.res) # g.view),
                           !.again = @ \/ (r.ok /\ Uses(k) /\ g.rev = held.rev /\ h.used),
                           !.used = @ \/ (r.ok /\ Uses(k) /\ g.rev = held.rev)]
    /\ UNCHANGED held

\* By the client that kept its reading: no bound, as a revision that worked is gone.
PutHeld(k, v) == held # NoReading /\ Put(held, held.by, k, v, "none", 0)

\* By a client that has just read.
PutFresh(c, k, v, fault) == Put(Reading(c, IF k = "udp" THEN "udp" ELSE "none"), c, k, v, fault, 1)

RestartSafe == a.idle /\ a.healthy /\ ~a.recover

\* finish_request(): the reply was delivered or lost; what was accepted happens now or never.
FinishRequest(sent) ==
    /\ a.pend # NoPend
    /\ a' = [a EXCEPT !.pend = NoPend,
                      !.restarts = IF sent /\ RestartSafe /\ a.pend.what = "restart" THEN @ + 1 ELSE @,
                      !.net = IF sent /\ a.idle /\ a.pend.what = "network" THEN 1 - @ ELSE @]
    /\ UNCHANGED <<held, h>>

Around(w) == h.steps < MaxSteps /\ a' = w /\ h' = [h EXCEPT !.steps = @ + 1] /\ UNCHANGED held

\* A job is loaded or ends; a message was interrupted.
JobRequest == Around([a EXCEPT !.idle = ~@])

Maintenance == ~a.maint /\ Around([a EXCEPT !.maint = TRUE])

MessageInterrupted == a.msg = "on" /\ Around([a EXCEPT !.recover = TRUE])

\* CONFIG of the console and a profile committed by setup do not come through the API.
ConsoleConfig(v) ==
    /\ a.healthy /\ a.idle
    /\ Around([a EXCEPT !.cfg = [FactoryConfig EXCEPT !.st = v], !.seq = @ + 1])

SetupCommits(v) ==
    /\ a.prof.src \in {"none", "network", "consumer"}
    /\ Around([a EXCEPT !.prof = [@ EXCEPT !.src = "consumer", !.usb = FALSE, !.st = v], !.pseq = @ + 1])

Next ==
    \/ \E c \in Clients, res \in Resources : Get(c, res)
    \/ \E k \in LateKinds : PutHeld(k, 1)
    \/ \E c \in Clients, k \in Kinds, v \in {0, 1} : PutFresh(c, k, v, "none")
    \/ \E c \in Clients, k \in Kinds, f \in Faults : PutFresh(c, k, 1, f)
    \/ \E sent \in BOOLEAN : FinishRequest(sent)
    \/ JobRequest
    \/ Maintenance
    \/ MessageInterrupted
    \/ \E v \in {0, 1} : ConsoleConfig(v)
    \/ \E v \in {0, 1} : SetupCommits(v)

Spec == Init /\ [][Next]_vars

-----------------------------------------------------------------------------

\* No lost update: a change that is made on the strength of a reading is made while what the
\* client read is still so, whoever else has changed the device in the meantime and back.
NoLostUpdate == ~h.stale

\* One revision authorises one configuration, restart or network change: a client that repeats
\* an ambiguous request is refused, even when the first one wrote nothing or was never carried out.
RevisionSpent == ~h.again

=============================================================================
