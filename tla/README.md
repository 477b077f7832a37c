# WsprryPico: TLA+ models, checks and proofs

WsprryPico is the firmware of a WSPR/QRSS beacon on a Raspberry Pi Pico 2 W. A client (over
USB or the network) or the built-in scheduler owns the transmitter, loads a job, arms it for a
UTC instant, and a second core launches and streams it. This directory holds TLA+ models of
that code, TLC runs on small instances, and TLAPS proofs. Paths below are relative to `src/src/`
of the repository unless they name `docs/` or `engineering/`.

## The system

| component | state it keeps | operations | hard behaviour |
|---|---|---|---|
| job service (`wtp/job_service`) | owner and lease, one job and its state, arm record, sessions, replay cache, terminal records and retained jobs, interlock, maintenance deadline | HELLO ... ABORT, `poll`, `local_abort`, `local_inhibit_output`, `begin_maintenance`, `reset` | retries, lease expiry during execution, eviction, a disable that is not confirmed, a steered clock |
| RF engine (`rf/stream_engine`, `standalone/frequency_policy_engine`) | plan, start conditions, phase, programmed and frozen correction | prepare, schedule, begin, disable; launch, finish, miss, fault by itself | runs on core 1, with its own clock snapshot |
| RF worker (`rf/worker`, `rf/pico/worker`) | mailbox between the cores, safety latch, suspension | call, step, `check_safety`, `guarded_flash_execute` | two cores, a 100 ms deadline, torn copies |
| sample sink (`rf/pio_dma_sink`), Si5351 (`rf/si5351_*`), chain (`rf/amplifier_enable`, `rf/filter_selector`) | epoch, DMA blocks, chain phase; registers as written and as believed | arm, stop, submit, interrupts; prepare, begin, poll | stale interrupts, partial I2C failure, relays under RF |
| storage (`standalone/storage`, `standalone/ntp_retention`) | two-bank flash journal, configuration, slot watermark, learned rates | load, append, purge, reserve, stage, flush | power loss between page programs |
| scheduler (`standalone/scheduler`) | cursor, pair, message schedule, restart latch | poll, STOP, CONFIG | at most one transmission per slot, across restarts |
| endpoint (`wtp/endpoint`, `wtp/frame_parser`) | output queue, event ids, retained input | connect, payload, poll, consume | full queue, stalls, replaced sessions |
| USB control (`usb/`) | one transaction, maintenance hold, time exchange | begin, chunk, acknowledge, poll | replies that are never acknowledged, cable pulled |
| provisioning (`provisioning/`) | owner claim, profile and access slots, reset intent | claim, commit, settings, reset, resume | crash between writes |
| access (`provisioning/local_access`, `ble_session`, `manager`, `activation`, `gatt_transport`, `field_runtime`, `network/softap_api`) | proofs, bonds, logins, sessions, the access point's window | verify, enrol, write, apply, activate, poll | timeouts, lost links, two surfaces at once |
| network (`network/api`, `consumer_radio`, `bootstrap_*`, `pico/server`) | revisions, sealed sessions, trial networks, connections | login, request, start, submit, ack, accept, poll | lost replies, replays, closing sockets |
| time (`time/`, `microchrony/`) | UTC mapping, uncertainty, holdover, sources | NTP, GPS, controller and browser samples | late replies, steps, sources that disagree |
| board, logging, hardware settings, encoding | | | I/O and data conversion, mostly |

The job service is the centre: every source of work goes through it, and it alone decides that a
job may transmit. The scheduler calls it in-process (`handle_internal`), the endpoint decodes
frames into its requests, `main` polls it in the foreground loop, the physical controls call
`local_abort` and `local_inhibit_output`, USB maintenance calls `begin_maintenance`. It calls the
engine through the frequency policy and the worker; the engine acts by itself in between, on the
other core, and the service only sees what `poll` reports.

What makes it correct: RF is on only while the service says so or has declared the transmitter
failed; a job that executes has an owner and is not taken away; an execution is not repeated while
the record of its end is retained, however often a client repeats itself; a start happens in the armed second or not at all; the interlock
and maintenance leave nobody with authority; every execution ends.

## Modules

| module | models |
|---|---|
| `ArmPolicy` | clock snapshots, `validate_arm`, the launch recheck of `poll`, the UTC mapping |
| `LruSet` | the recency order of `terminal_records_` and `replay_cache_` as positions in a set |
| `TxEngine` | the engine behind `wtp::RfEngine`: operations of core 0 and steps of core 1 |
| `JobService` | the job service, its engine and the state machine; all properties |
| `Launches` | a history of the executions of `JobService`, and how long one has to be remembered |
| `MCJobService` | jobs, clocks, views and the actions that the runs of `JobService` use |
| `JobServiceProofs` | types, authority over the output, interlock and maintenance: theorems |
| `JobHistoryProofs` | the records and single execution; action properties; sessions and the armed second |
| `Worker` | the two cores of `rf/worker`: mailbox, safety latch, flash operation, launch interrupt |
| `WorkerProofs` | its inductive invariant and theorems |
| `StoreProofs` | those of `Journal`, with its refinement of `DurableRegister`, and of `Retention` |
| `Journal` | the two-bank flash journal of `standalone/storage`, under loss of power |
| `DurableRegister` | what the journal promises: one value, saved atomically |
| `Scheduler` | `standalone/scheduler` with the store of `standalone/storage` over durable registers |
| `SchedulerProofs` | its inductive invariant and theorems |
| `Sink` | the PIO/DMA sink, its interrupts, the amplifier enable, the filter relays, the indicator gate |
| `RfProofs` | the inductive invariants and theorems of `Sink` and `Si5351` |
| `Si5351` | the Si5351 engine and device, its gate and cutoff, the reference monitor |
| `FrameParser` | resynchronisation of WTP frames |
| `Endpoint` | one WTP connection: output queue, retained input, sessions, events |
| `UsbControl` | the USB management endpoint, the maintenance hold, the time exchange, delayed restarts |
| `Provisioning` | the records about the owner, claims, settings and resets, write by write |
| `Access` | the access controller, as operators that `SoftAp` and `BleField` share |
| `SoftAp` | the browser of the setup access point: logins, proofs, the job and the challenge they own |
| `BleField` | field commands over Bluetooth, the profile manager, the activation of a profile |
| `GattLink` | the Bluetooth link: pairing, indications, retained writes |
| `FieldRuntime` | the window of the access point |
| `AccessProofs` | the inductive invariants and theorems of the link, the window and the browser |
| `Radio` | the sealed API of the owner's browser |
| `Api` | the settings API with its revisions |
| `Bootstrap` | the setup server: network slot and trial, claim, recovery |
| `Server` | the TLS and plain listeners and their connections |
| `NetProofs` | the inductive invariants and theorems of `Server` and `Bootstrap` |
| `Clock` | the UTC discipline and the arbiter of its sources |
| `Chrony` | the estimator behind NTP and GPS: requests, selection, references |
| `Retention` | the cache of learned clock rates |
| `MCLifecycle`, `MCClients`, `MCLive`, `MCRf`, `MCTime`, `MCWire`, `MCStore`, `MCAccess`, `MCNet` | one run each, over several components |

### JobService

The variable `svc` is one record with the members of class `JobService` that control depends on
and the engine it drives (`svc.eng`). A method is an operator from service to service; the call
order of the code is the nesting of operators (`Refresh` is the prologue that `handle_owned` and
`poll` share: `expire_resources`, `prune_replay`, `prune_terminals`, `prune_sessions`). An action
is one call from outside: a request of one of the eight kinds from a transport session or from an
in-process producer (`NoRequestId`), `Poll`, `LocalAbort`, `LocalInhibit`, the maintenance calls,
`FreezePair` (by the scheduler), `SaveCorrection`, `Reset`, and the engine's own steps. One action is one call
because the service runs on core 0 without interruption by another caller; core 1 interleaves
between calls. `x`, the context of a call, holds what the call reads from outside: time, clock
snapshot, whether a disable is confirmed, what becomes of a start, the saved correction. All
are chosen anew at every call, so a clock may be steered or lost between two of them.

Abstractions: a job is its id, duration, permission to adjust and what admission finds in it
(`kind`); equal records stand for equal digests. Malformed ids and digests are not enumerated:
they are refused after the prologue and change nothing. Replies carry their error code only.
`last` is the reply of the last request, `NoReply` after other steps; safety runs leave it out
of the view and refer to it in action properties, which TLC evaluates on every transition. The
mapping of `time/mapping.hpp` is a shift (rate terms zero) and does not saturate. `principal` in a
replay entry is a history field. Every engine the firmware builds schedules locally; the path on
which `poll` launches (`Local = FALSE`) is that of `InhibitedRfEngine` and of the host tests.

### Worker

`TxEngine` takes an engine operation as one step; `Worker` opens it up. An action is what one core
does between two accesses to something the other core or an interrupt may change, so the places
of core 1 in `step()` are values of `pc1`, those of core 0 in `call`, `failure` and
`guarded_flash_execute` are values of `pc0` and `flash`, and those of the launch interrupt are
values of `irq`. Interrupts of core 1 come at every place but inside the masked copy; while one
runs, core 1 does not move, but core 0 does. The clock is a counter and a copy of it a pair of
halves, so that a torn copy is visible. Of the stream engine and the sink only their states are
kept; how the sink moves between them (launched, ended, failed, unconfirmed stop) is a choice.
`Inspect` stands for the metrics call too. The deadline of a call may pass at any moment, also
when core 1 is only slow. What ends in `failure()` waits for the watchdog, so both cores may
stop for good and the run does not check for deadlock.

### Journal

A flash is a function from slots to erased, torn (not erased and not valid) or whole records, two
banks of `SlotsPerBank`. `append` and `purge_history` are sequences of flash operations, one action
each (`Erase`, `Program`, `Verify`, `Clean`, `Confirm`), and `Cut` may take the power before, in the
middle of (`PartlyWiped`, `Programmed`) or after any of them. The pages of one record are one
operation, since a cut between two leaves a torn record like one inside a page. A flash operation
may also return false, done in part or not at all, and a program may return true without having
written. `healthy` is that of the store, which every failed append or purge clears; a
provisioning reset (`Recover`) loads past torn records. A payload is a model value, and a valid
checksum means that the record is the one written.

`Durable` says that `Journal` implements `DurableRegister` with the newest whole record as the value:
a save is one atomic step somewhere between call and return, a load yields the last committed value
and never an older one, and purging is invisible. Two slots to a bank is the configuration journal
(2048 of 4096 bytes); `MaxSeq` lets both banks be recycled and the limit be met.

### The component modules

They share one form. The state of a component is one record (or one per object it consists of), a
method is an operator on it, and an action is one call from outside: a handler, a callback, an
interrupt, a turn of the foreground loop. A bounded counter of disturbances (`MaxFaults`,
`MaxDisturbances`) or of calls (`MaxSteps`, `MaxRequests`) limits a run. What a property must
remember about the past is in a record `h`, or in a variable declared as history.

- `Scheduler`: a method is an operator on the service, the memory, the flash and the cursor at once,
  so a failed append in the middle of `poll()` leaves what the code leaves. The job service is the
  part of `JobService` the scheduler sees; other clients may take and give back ownership.
- `Sink`, `Si5351`: methods and interrupts are steps between which the hardware goes on; a failure
  strikes any one access to it. The samples are block numbers; a tone is a name, and a plan says
  which registers carry it.
- `FrameParser`, `Endpoint`: bytes are `0..3` with a shorter magic and a sum in place of the CRC, so
  that noise may contain a piece of a frame; a frame in a queue is its kind and id.
- `Provisioning`: a journal has two slots of a whole, a torn or an unreadable record; a write is one
  step that may leave either. Secrets and stations are the number of the operation that brought
  them in, so that a mixture of two operations is visible. A restart runs `resume()` and the
  loads in the order of `main`.
- `SoftAp`, `BleField` EXTEND `Access` and drive it from two surfaces; `GattLink` lies below
  `BleField`, `FieldRuntime` beside `SoftAp`. What the access point offers (`surface`) is decided on
  every turn of the main loop: nothing without a profile, and HELLO, status and time alone while the
  clock is not synchronized. A running job goes on without a clock (`WTP.md:155`) and the owner's
  ABORT is then refused over this carrier; `OwnerCanAbort` claims for that time that the owner's login
  is still served with what is offered, so that it can submit the time; ABORT is back as soon as the
  clock is.
- `Radio`, `Bootstrap`: a box opens or not. What a reply must be delivered for is released when the
  transport says so, which may be late or never.
- `Api`: what a handler writes, with the write that fails; a revision is the tuple of counters and
  settings that the code prints into it.
- `Server`: lwIP's callbacks come between polls; a poll visits the connections one at a time. A time
  is whether its limit has passed.
- `Clock`, `Chrony`: UTC is a phase against raw time and uncertainty grows by one a tick. `truth` is
  the phase of true UTC, which no code reads: properties compare with it.
- `Retention`: a value knows after which erasure it was learned.

Operators named `Bug...` are plausible faults, used by no definition: putting one in place of
the definition after it must make the named property fail.

## Runs

| run | checks | shows |
|---|---|---|
| `js_lifecycle` | `TypeOK`, `JobAuthority`, `MessageOnce`, `LaunchInSecond`, `Undisturbed` | Two jobs of one client, leases that expire, records that are evicted and expire, disables that fail, a clock that is steered and an engine on its own core; a board whose jobs poll() launches; one with saved corrections, frozen calibrations and resets; and one with room for two records, on which three jobs are recorded, retried, evicted and sent again: output, ownership and the records stay consistent, and an execution is not repeated before the retention of its record is over. |
| `js_clients` | `Interlocked`, `SessionBound`, `NoNewAuthority`, `LeaseRespected` | Two sessions and two principals with repeated request ids, evicted replies, pruned and re-used session ids; and the interlock and maintenance against a client that retries: nobody inherits another client's session, replies or lease, and authority that is withdrawn does not come back. |
| `live` | `StopIsFinal`, `AnswersTrue`, `EveryExecutionEnds`, `EveryOwnerReleased`, `CoresProgress`, `NoSpurious` | Every execution and every ownership ends whatever the engine does; a punctual engine behind an amplifier chain is never failed by the service's deadlines; and over all interleavings of the two cores, the launch interrupt, the button and a flash operation the safety stop is final and answers are true, and a latched inhibit and every call are served. |
| `rf_output` | `SinkSound`, `SwitchOrder`, `ToneSound`, `RefQuiet` | Both output engines, with and without amplifier, filters, gate and indicator, with late and stale interrupts and one failure of the hardware or of the I2C bus at any access: RF only behind a ready chain, the tone of the present event, relays never under RF, and no engine that reports silence while the chip transmits. |
| `time` | `AtMostOnce`, `StaysPut`, `ArmsAsPredicted`, `ClockHonest`, `EstimateSound` | Every order of polls, commands, failed writes, restarts and clock steps around the schedule with up to three disturbances; samples of rival sources, restarts of the clock, holdover and browser time; and sources of which one lies, with late, lost and repeated answers: no start goes out twice, UTC is true or withheld, and an estimate rests on an honest majority. |
| `wire` | `FramesFound`, `NothingLost`, `CableSafe`, `RevisionsSound` | The parser on every stream of a few bytes cut in every way, a WTP connection with a full queue, no memory, stalls and a restarted service, the USB management endpoint with its deferred effects, and the settings API with two clients and failing writes: replies are not lost, lost events show, the maintenance hold never outlives its transaction, and no change overwrites one its client has not seen. |
| `store` | `OwnerKept`, `FlashSound`, `PurgeComplete`, `Durable`, `LearningKept` | Three operations on the records about the owner with one write that fails or is cut anywhere and every restart in between; saves, purges and loads of the two-bank journal with power lost at any moment; and the cache of what the clock has learned under failing flash: resets are whole, claims answered truthfully, and the journal is an atomic durable register. |
| `access` | `BrowserSound`, `FieldTrust`, `LinkSound`, `WindowSound` | Two browser logins that bind, lapse and prove passwords while one owns an armed job and the device loses and finds its clock; Bluetooth enrolment, field commands and a profile's activation with failing stores; the link's callbacks in any order with a retained write; and the access point's window over outages, clients and requests. |
| `net` | `SetupSound`, `ServerSound`, `RadioSound` | The sealed API with sessions, replayed, forged and late packets and a recovery; the setup server of a blank, a network and a claimed device with lost replies, timeouts, failing writes and a lost link; and the TLS server with one or two sockets, pending admissions, handshakes and closing in any order. |
| `js_load_atomic` (violation) | `LoadAtomic` | A LOAD rejected after preparation leaves the engine with the plan of the rejected job. |
| `js_correction` (violation) | `CorrectionApplies` | A released loaded job keeps its plan in the engine, which then refuses every new saved correction. |
| `prov_reset` (violation) | `ResetCarriedOut` | A provisioning reset of a device whose profile is managed over USB never completes: its profile has no station of its own, and the configuration with the empty station is refused at every restart. |

A run checks several components in one state space without multiplying them: the variable `focus`
says which of them the behaviour is about, and the variables of the others keep an arbitrary
constant. `MCStore` EXTENDS `Journal`, `MCTime` `Scheduler` and `MCRf` `Sink`: their properties in the cfg
are those of the component, the ones the theorems state. `MCRf` holds the Si5351 as an instance whose variables
have other names than those of the sink, so that one module of proofs can speak of both. Where one variable serves two foci (the
clock of two components) they are never in one behaviour.

Bounds. In the runs of the job service time is in ticks, two to a UTC second, so that both a start
inside a second and one at its end occur; `MaxTime` lets a job be loaded, armed, executed, recorded,
its record expire, its lease expire and another job follow. On three boards of `js_lifecycle` one
record of capacity makes every second terminal job evict the first; on the fourth (`records`) two
records and three jobs let a record outlive one other job and be evicted by two, or expire. One job is realised exactly, the other with adjustments.
Sessions and principals are two each where the question is about several clients (`js_clients`, with
symmetry), one where it is not. `RequestHorizon` ends the arrival of requests, never `Poll` or the
engine; the clock stops at `MaxTime`, later than all deadlines of a request at the horizon.
`MaxBoots` bounds `reset`. `rf_output`: jobs of up to three events or blocks, one fault, and an epoch
of two armings, which a stale interrupt needs. `time`: two starts of the schedule and three
disturbances, so that a failed write, a restart and a step of the clock may meet; three sources, of
which one lies, are the fewest with a majority. `wire`: a queue of two frames and of three bytes
meets both limits; streams of seven bytes hold a frame behind noise. `store`: `MaxSeq` lets both
banks be recycled and the limit of the numbers be met; two operations follow one another with one
fault, which a claim over a half-done reset needs. `access`, `net`: two clients, one of whom is late;
limits of one or two ticks that elapse in every order; one or two sockets.

Fairness. `live` assumes weak fairness of `Poll` (the foreground loop of `main` calls it on
every turn), `Tick` (time passes) and `EngineMiss` (core 1's loop gives up a start whose window is
over). It assumes no fairness of `EngineLaunch`, `EngineFinish` or `EngineFault`, nor that a
disable succeeds: the engine may never report anything.
For the cores it assumes weak fairness of core 1 (its loop has no wait in it), of the launch interrupt once
entered, of the end of a flash operation and of the clamp once begun. It assumes nothing of core 0:
it need not call, and may give up at any moment. `MaxClock` is 1: two different snapshots suffice to
tear one, and no step depends on the value of the clock.

## Findings

Three runs expect a violation; each checks what the documentation says against the code.

- `js_load_atomic`: `engineering/protocol/WTP.md` says that a rejected LOAD leaves the current job
  unchanged. The service prepares the engine before its last checks, so the engine is left with
  the plan of the rejected job, and arming the accepted one ends in FAILED.
- `js_correction`: `docs/configure.md` says that a saved correction applies to the next prepared
  job. RELEASE of a loaded job leaves the plan in the engine, which refuses corrections while it
  holds one.
- `prov_reset`: `docs/maintain.md` says that a provisioning reset preserves the station details, and
  `main` that a persisted intent is finished. On a device whose profile is managed over USB the
  profile has no station; the reset copies it nevertheless, the configuration store refuses it, and
  every restart ends in recovery again.

`SetupSound` states one exception (`h.lapsed`, in `TrialUndone`): an acknowledgement that meets an
expired trial drops the slot inside `BootstrapSlot::acknowledge`, and the poll that restores the
station after an expired trial then finds none.

## Proofs

Eight modules hold theorems, each checked by TLAPS for every value of the constants. What they assume
are the ASSUMEs of the modules they are about, which TLC evaluates on every run: typed jobs, arm bodies
and clocks, sentinels outside their sets (`NoOwner`, `NoJob`, `NoReply` ...), positive limits
(`ArmPolicy`, `TxEngine`, `JobService`, `Journal`, `Scheduler`, `Sink`, `MCRf`, `MCAccess`, `MCStore`). `Worker`, `Server` and `Bootstrap` need none.

| module | theorems that a run checks on an instance | inductive invariant |
|---|---|---|
| `JobServiceProofs` | `TypeOK`, `JobAuthority`, `Interlocked` | `IInv` |
| `JobHistoryProofs` | `MessageOnce` (of `HSpec`, the service with the history of `Launches`); `LeaseRespected`, `Undisturbed`, `NoNewAuthority` (action properties); `SessionBound`, `LaunchInSecond` | `Records`, `Followed`; `StepInv`; `Bound`, `Timely` |
| `WorkerProofs` | `StopIsFinal`, `AnswersTrue` | its own `IInv` |
| `StoreProofs` | `FlashSound`, `PurgeComplete`, `Durable` (a refinement); `LearningKept` | `Sound`; `LearningGood` |
| `SchedulerProofs` | `AtMostOnce`, `StaysPut`, `ArmsAsPredicted` | `Held` |
| `RfProofs` | `SinkSound`, `SwitchOrder`; `ToneSound`, `RefQuiet` | `Sound`; `SiInv` |
| `AccessProofs` | `LinkSound`, `WindowSound`, `BrowserSound` | `LinkGood`, `FieldInv`, `ApInv` with `ArmedOffered` |
| `NetProofs` | `ServerSound`, `SetupSound` | `ServerGood`, `BootGood` |

### The job service

`JobHistoryProofs` EXTENDS `JobServiceProofs` and uses its lemmas about the methods. It has four
parts: the records, the steps, the sessions, and the executions that `Launches` follows.

`JobServiceProofs`: none of the six parts of `JobAuthority` and `Interlocked` is inductive.
`OutputAuthority` needs that outside armed, running and failed the engine is idle or failed and off,
for otherwise `EngLaunch` could raise it (`Sound`). `OwnedExecution` needs the pairing of state and
owner at every exit. `InhibitLatched` and `MaintenanceExclusive` need that a locked or free service
cannot be given work by any method that the prologue lets through. The proof has the following
layers:

1. types of the engine operations (`StoppedType`, `DisableType`, `BeginType`, `PrepareType`, ...)
   and finiteness of the record lists (`CompactFinite`, `PushFrontFinite`), which `Cardinality`
   needs;
2. `Sound(s)`, the state part of the invariant, and `Keeps(s, t)`: t is sound, has the modes of s,
   and is locked or free if s is. `Keeps` is transitive, so methods compose as their calls do:
   `ExpireResourcesKeeps`, `RefreshKeeps`, `StopAsKeeps`, `SettleKeeps`, `PollServiceKeeps`,
   `AbortJobKeeps`, `LocalAbortKeeps`;
3. `Obeys`: an operation of authority leaves a sound service but may give it work; the others
   keep. `Handled`: `handle_owned` with its refusal in front keeps locked services locked;
4. `IInv`: `Sound`, the interlock and maintenance parts, and the types of the other variables;
   `InitIInv`, one lemma per group of actions, `NextIInv`, and the theorems by PTL.

The records: that no live job has a record needs that eviction and expiry take the retained
job with the record and nothing else, and that a job is recorded before the state says it ended.
`Records` adds that positions in the list are distinct (`Ranked`) and that a job has one record
(`Once`): two records at one place could both escape, or both fall to, the cut at the capacity. The
lemmas about `LruSet` (closing the gaps keeps the order, pushing to the front keeps the rest) are
proved for every list.

What those records are for is `MessageOnce`. The service knows an execution only by its record, so
after an eviction or an expiry the same LOAD and ARM transmit again, as the code does and `WTP.md`
warns (line 163). `Launches` therefore follows the executions from outside, in `ends`, which no
handler reads: one enters when an armed or running job ends, and leaves when `TerminalTtl` has passed,
when the records of `TerminalCap` other jobs are there, or at a boot. `MessageOnce` says that until
then its record is in the list, with the time of its end, and no live job is that job. `Followed`
is the first half of that. Its step splits every call into a first part, which may record an end and
lets records expire, and a later one, which touches no record unless a job is still live, so that a
call records at most one end; `Fate` says what both leave of the records.

The steps: the action properties follow from relations between the service before and after
a method, which compose like `Keeps`: `Steady` (owner, failure and output), `RunKept` (an execution
left alone), `Continues` (it may end, but not by an abort), and `Granted` for the operations. They
need two invariants of their own. `Halted`: an idle service has no start pending in its engine, or
the engine could transmit behind the interlock after the service was seen quiet. `LeaseOver`: a
release is pending only when the lease has run out, or settling an execution would take the
transmitter from an owner whose lease runs.

The sessions: a session and a reply are pruned by their own ages, so a reply could outlive its
session. `Bound` says why not: the session of a reply was last seen no earlier than the reply was
given, nothing was seen in the future, and ids are unique.

The armed second: the arm record learns of the engine's launch at a later poll. `Timely` therefore
bounds both: the launch on record, and every start that the engine has made or may still make
(`Within`), which the deadline it was given ends before the armed second does.

### The worker

`WorkerProofs` proves all seven safety properties of `Worker` for every `MaxClock`. `IInv` adds to
the types: `Rendezvous` (core 1 serves only a published call, core 0 waits for it or has given up
with the latch set), `Latching` (what is excluded once stopped; an interrupt in progress means an
armed sink), `EngineSink` (an armed or running sink without its engine exists only between
`sink_.arm` and the state change after it), `Suspension` (from its grant to `Resume` nothing can
be armed, and only core 0, which is busy with flash, could resume), `Clocks`, and `Pending` (what a
call that is not yet answered has already decided). The proof has one case per action, split by
the parts of the invariant where the action changes the engine.

### The journal

`StoreProofs` proves, for every number of slots, every set of payloads and every `MaxSeq`
(`JournalAssumption`: at least one slot to a bank, a value for "nothing" that is no payload), that
numbers are distinct and only erased flash is programmed (`FlashSound`), that a purge is complete,
and that `Journal` implements `DurableRegister`. The first is not inductive by itself: that a new
record's number is new follows only if the record in memory is the newest on flash. `Sound` says so
(`Known`; a record that is written but not yet verified is left out of it), what an operation in
progress is for (`Due`), that it erases the bank that does not hold the newest record and programs
where flash is erased (`Aimed`), and that a purge clears the bank it moves to before the one it
leaves (`Cleared`). `Newest` is a CHOOSE over the whole records; that there is one is shown once,
from the bound on the numbers (`TopExists`). The refinement is shown action by action: a save
commits where `Program` leaves a whole record (`ProgramValue`) and is acknowledged where `Verify`
reads it back (`VerifyValue`); a fault or a cut is the register's `Lose`, which settles the save
either way; erasing leaves the newest record alone and maps to a stutter (`EraseValue`).

Its last part proves `LearningKept` for all rates and thresholds (`LearningAssumption`: a meaningful
change is not zero, and -1, which stands for nothing learned, is no rate). `LearningGood` compares what
each source taught last with what waits to be written and what is saved: what waits is the newest, or
the saved value if the newest is near enough to it (`Staged`), so a stage of one source, which copies
the other source's value into the same record, cannot take it back; and what is in memory and on
flash is of the present erasure (`OfThisEra`).

### The scheduler

`SchedulerProofs` proves `AtMostOnce`, `StaysPut` and `ArmsAsPredicted` for all schedules, networks,
hardware settings, clock offsets, horizons and numbers of disturbances. `SchedulerAssumption` gives
the numbers their types and a WSPR period a phase inside it and room for the window of a start:
`config.cpp` accepts periods of at least 120 s with a smaller phase, and the window is 10 s. A call
works on a world, a record of service, memory, flash and cursor, so the invariant is stated on
worlds. `Stored`: memory, when it is valid, equals flash, and no start that went out is beyond the
watermark there. `Owned`: a job that is out belongs to the scheduler, is the one the cursor names,
is reserved on flash, and a message is marked in flight. `Paired`: the second frame is one slot
after the first, and is reserved with it. `Settled`: settings that differ from those of the boot
await a restart and nothing is out. Together with the type of a world these are `Core`; `Held` adds
`Settled`, which the handlers that save hardware settings break and restore before they return
(`LatchCore`, `PinnedCore`). Each operator has a lemma that it keeps the parts it disturbs, in the
order of the calls; `ArmsAsPredicted` is then a statement about the two operators that arm
(`MessageArms`, `WsprPredicted`: what is armed inside the window is the earliest start that the
status shows).

### The sink

`RfProofs` proves `SinkSound` and `SwitchOrder` for every chain, all lead, tail, release and settling
times (zero included: `SinkAssumption`), lengths of jobs, orders of interrupts and failures. A method
works on a world, a record of sink, driver, outputs and indicator; `Good` is stated on worlds, and
`Does` says that a method leaves a good world and switches the outputs in order. `SinkSound` is not
inductive: RF is raised by the last of several alarms, each of which trusts the ones before.
`Prepared` says what they left: an amplifier that is known to be on has been on since the time the
sink noted, so have the filters, and nothing is on before its phase. `Tickets` says why an
acknowledgement of an earlier run is not taken for this one: a request is always for the newest
ticket. That RF is never on without data, after the last block too, rests on `Streaming`: the tail is
handed to the driver no later than the last block of the job is out, and as long as RF is on it is
still to come (`Awaits`). `Trailing` has the tail of the amplifier begin where RF ended. A step that
fails anywhere is an `Ends`, which raises nothing; most of the lemmas say that an alarm, a refusal or
a halt leaves one of three relations (`Same`, `Ends`, `Goes`), which compose as the calls do.

With `Settle = 0` the relays may close and the amplifier rise in one interrupt, one after the other;
`ColdSwitch` says that it is off when they close, and stays off in that step if they need any time.

### The Si5351

The second part of `RfProofs` proves `ToneSound` and `RefQuiet` for every set of plans (any number of
events, tones and gaps, each with a tone that is keyed: `SiAssumption`, as `plan()` refuses a job
without frequencies), every board and timing, and a failure in any transaction of any call, as often as
`MaxFaults` says. Neither is inductive. That RF is the tone of the present event rests on what the device believes,
and the code gives up a belief whenever a transaction fails, because the write may or may not have
reached the chip. So the invariant `SiGood` begins with `Believed`: an output that is believed off, or
whose shutdown is asked for and not verified, is masked; a tuning that is believed is the chip's; an
output that is uncertain on a configured chip has a request open. Each operation of the device has one
lemma, of the form: the result has a right belief, at most silences the reference (`Silent`), and when it
reports success, has what the operation is for (`PutIs`, `QuiesceIs`, `TransmitToneIs`,
`VerifyTransmitIs`, ...). `Ready` and `Waiting` say what `prepare` and the phases of the chain leave behind,
so that the launch finds the first tone tuned and an amplifier on since its phase began; `InTune` that
what is primed is the present tone, or that the output is off, and that its tuning is believed; `InChain`
that an open gate has the cutoff of this job ahead of it. A tone that follows a gap is primed while the
output is masked (`FollowingIs`: it is one of the job's, `PollRunningIs`: the event that is due exists).
Any step that fails ends in `fail`, and `DisableIs` says that this is idle with the reference masked, or
failed (`Safe`). `ToneSound` then follows from the belief: what radiates is not believed off.

### Local access

`AccessProofs` is about three of the four surfaces of `MCAccess`, each proved of the component and then
of the composition. Periods and lifetimes are any numbers (`PeriodsAssumption`, `LoginsAssumption`: the
two windows and the inactivity limit are positive, and no WTP session is called "none").

The link. `LinkSound` is broken by no single handler but by two that end different parts of it: a
disconnection, a lost encryption and a lost subscription each take down the endpoint, the field session
and the retained request in an order of their own. `LinkGood` therefore ties the parts together: who
has a session was admitted over an encrypted link (`Encrypted`), what is being sent belongs to the
endpoint that is open (`Matched`), a request that waits is held since it arrived (`Retained`).

The window. A loop of the coordinator decides on what the loop before left, and the history notes only
what happens between loops. `FieldInv` has what they share: the window began no later than the
history has it, and an outage that the radio has seen is covered or was given up less than the
reopening time ago. The steps of a loop have one lemma each, in the order of the code.

The browser. That the owner's surface offers ABORT, or TIME without a clock, is `ArmedOffered`: a job
is armed by a request that was offered, so the device has a profile. That the request is admitted, the
other half of `OwnerCanAbort`, rests on what no step may break: the job's owner is a session that one
login is bound to (`TokensUnique`, `Bound`: a token is given once, and a session has one login), its login is spared by
the inactivity limit as long as the job is out (`JobHeld`), and the slot of a new login is the first
that has none, which is never the owner's (`FirstFree`, by the well-foundedness of the naturals).
That each sensitive change has a proof of its own is the count `ProofsCounted`: what was used, with what
is still unused, is no more than what was given.

### The server

`NetProofs` proves `ServerSound` for every mode, every order of callbacks and turns, and any number of
generations. A change is applied by `finish_request`, which may be reached from a poll, a callback, an
error or a shutdown. `ServerGood` says that it is reached once for a generation (`Unfinished`: nothing
was done under a generation in use; `Known`: none is from the future; the two connections have
generations of their own), and what the count of unacknowledged units means while acknowledgements
come in any grouping (`Connection`: the last unit of the response is where the count points). The slot
of the pending socket is free until it is admitted and holds no bytes but its own (`Waiting`), closed
admission has no socket left (`Shut`), and at most one client is a WTP endpoint (`Alone`).

### The setup server

`NetProofs` also proves `SetupSound`, for any number of requests, changes and restarts. What a step of
`Bootstrap` does depends on the world it finds, so the invariant `BootGood` speaks of a world and of
what the history holds against it: the networks held (`n`), the answers delivered (`a`) and whether a
trial has lapsed (`l`). `Apart` keeps the three kinds of setup from each other. `Undone` says what a
trial keeps and where the station is without one; for that it also needs what the properties do not
mention, that a trial which has begun to join is on the network it tries. `Heard` ties a trial to its
request: one that is past its answer had it delivered, and the reply that is remembered is its own.
`Told` relates the replies under way to the result: a reply that says one says the one that waits.

Every helper has a lemma that says what it changes (`EndTrialIs`) and one that it keeps the invariant
(`EndTrialGood`). Ends of slots begin nothing (`Onward`), a round of the main loop may commit, and only
for a trial that was heard (`Committed`), a request may begin something (`Asked`), and the end of a
connection lets a trial start or ends it (`Ended`). `CommitsAnswered` then follows without looking into
the helpers again: in a round that changes the generation, the old state has the trial and its answer.
The exception that `TrialUndone` makes for a lapsed trial enters at one place: `DropSlotGood` asks for
it, an acknowledgement is the only request that drops a trial, and `ServeGood` discharges it from the
history.

### Limits of the proofs

Every theorem holds for all values of the constants; the bounds (`MaxTime`, `MaxSeq`, `MaxFaults`,
`MaxDisturbances`, `RequestHorizon`) are constants too, so that a proof covers behaviours of any
length. Model-checked only are:

- liveness (`EveryExecutionEnds`, `EveryOwnerReleased`, `CoresProgress`, and the end of jobs in
  `NoSpurious`): it rests on fairness and ENABLED, which the provers do not handle, as they do not
  induct over data or recursive definitions;
- the properties of the wire, of the field commands (`FieldTrust`), of the radio API, of the owner's
  records and of UTC and its estimator. Nothing about them is known to be unprovable, but that
  `FrameParser` is a recursive definition.

## Not modelled, and the plan

`PROJECT.json` lists every component with what is left out of it. Not modelled at all: message
encoding and the JSON codec (pure functions over unbounded strings, tested against published
vectors), the numeric search for synthesizer dividers, validation of hardware settings, packet
formats (HTTP, mDNS, DHCP), logging, and the start-up wiring of `main` beyond the turns of its loop
that the modules name. What remains to be done:

1. `GpsInput`: the pairing of receiver messages with pulses, which `Chrony` takes as given.
2. The turns of the board's main loop, the button and the indicator as one module over `FieldRuntime`.
3. Theorems about the components that are model-checked only: the honesty of `Clock`, the
   resets of `Provisioning`, the records of `Radio`.
4. An abstract specification of transmitter ownership that `JobService` refines.
