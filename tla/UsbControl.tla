----------------------------- MODULE UsbControl -----------------------------
(***************************************************************************)
(* Control over the USB cable: the management endpoint with its one        *)
(* transaction at a time (usb/management_endpoint.cpp), the maintenance    *)
(* hold and the time exchange behind it (usb/maintenance.hpp,              *)
(* usb/time_exchange.cpp), and the restarts that the main loop carries out *)
(* later (standalone/pico/main.cpp).  Of the job service only the owner    *)
(* and the maintenance hold are here.                                      *)
(***************************************************************************)
EXTENDS Integers

CONSTANTS Timeout,      \* transaction_timeout_ms
          Hold,         \* the deadline of begin_maintenance()
          Delay,        \* from a restart request to the restart
          SampleAge,    \* the largest age of a time sample
          MaxSeq,       \* bound on the ids of a session
          MaxSessions,  \* bound on the sessions
          MaxChanges,   \* bound on what others change
          MaxTime       \* bound on the clock

VARIABLES u,            \* ManagementEndpoint
          mt,           \* Maintenance
          x,            \* TimeExchange, and the observation it last passed on
          sv,           \* the job service: owner, hold (0: none), verification
          r,            \* the main loop's restart
          others,       \* revision, watermark and readiness, as others leave them
          clk, changes, acked

vars == <<u, mt, x, sv, r, others, clk, changes, acked>>

NoRestart == [at |-> 0, bootloader |-> FALSE, browser |-> FALSE, usb |-> FALSE, txn |-> 0]

NoHold == [pending |-> 0, finishing |-> FALSE, rev |-> 0, mark |-> 0]

NoSample == [id |-> 0, at |-> 0]

World == [u |-> u, mt |-> mt, x |-> x, sv |-> sv, r |-> r]

Becomes(w) == u' = w.u /\ mt' = w.mt /\ x' = w.x /\ sv' = w.sv /\ r' = w.r

-----------------------------------------------------------------------------
(* What the endpoint sees of the job service and the scheduler.            *)

MaintenanceOn(v) == v.verif \/ clk < v.hold

VerificationSafe(v) == ~v.owner

BeginMaintenance(v) == [v EXCEPT !.hold = clk + Hold]

Idle(v) == ~MaintenanceOn(v) /\ ~v.owner

LocalUsbReady(w) == others.ready /\ w.r.at = 0

-----------------------------------------------------------------------------
(* Maintenance                                                             *)

\* The revision and the watermark the host names are the present ones.
MaintenanceRequest(w, txn, finishing) ==
    IF \/ w.mt.pending # 0 \/ ~LocalUsbReady(w)
       \/ finishing /\ ~(w.sv.verif /\ VerificationSafe(w.sv))
       \/ ~finishing /\ (~Idle(w.sv) \/ MaintenanceOn(w.sv) \/ w.sv.owner)
    THEN w
    ELSE [w EXCEPT !.sv = IF finishing THEN @ ELSE BeginMaintenance(@),
                   !.mt = [pending |-> txn, finishing |-> finishing,
                           rev |-> others.rev, mark |-> others.mark]]

EnterBootloader(w) ==
    [w EXCEPT !.r = [at |-> clk + Delay, bootloader |-> TRUE, browser |-> w.r.browser, usb |-> TRUE,
                     txn |-> w.mt.pending],
              !.mt.pending = 0]

EndMaintenance(w) == [w EXCEPT !.sv.hold = 0, !.mt = NoHold]

BugMaintenanceFinish(w, txn, delivered) ==
    IF w.mt.pending = 0 \/ w.mt.pending # txn THEN w
    ELSE IF delivered /\ MaintenanceOn(w.sv) /\ VerificationSafe(w.sv) /\ LocalUsbReady(w)
            /\ others.rev = w.mt.rev /\ others.mark = w.mt.mark
    THEN IF w.mt.finishing THEN EndMaintenance([w EXCEPT !.sv.verif = FALSE]) ELSE EnterBootloader(w)
    ELSE [w EXCEPT !.mt = NoHold]

\* finish(): the reply was acknowledged or its transaction is gone.
MaintenanceFinish(w, txn, delivered) ==
    IF w.mt.pending = 0 \/ w.mt.pending # txn THEN w
    ELSE IF delivered /\ MaintenanceOn(w.sv) /\ VerificationSafe(w.sv) /\ LocalUsbReady(w)
            /\ others.rev = w.mt.rev /\ others.mark = w.mt.mark
    THEN IF w.mt.finishing THEN EndMaintenance([w EXCEPT !.sv.verif = FALSE]) ELSE EnterBootloader(w)
    ELSE EndMaintenance(w)

-----------------------------------------------------------------------------
(* The time exchange: a sample of the clock, then the UTC that belongs to  *)
(* it.                                                                     *)

TimeSample(w, txn) == [w EXCEPT !.x.sample = [id |-> txn, at |-> clk]]

\* Every submission consumes the sample, a refused one too.
TimeSubmit(w, token) ==
    IF w.x.sample.id = 0 \/ token # w.x.sample.id \/ clk - w.x.sample.at > SampleAge
    THEN [w EXCEPT !.x.sample = NoSample]
    ELSE [w EXCEPT !.x.sample = NoSample, !.x.used = @ \cup {token},
                   !.x.twice = @ \/ token \in w.x.used]

TimeReset(w) == [w EXCEPT !.x.sample = NoSample]

-----------------------------------------------------------------------------
(* The management endpoint                                                 *)

Shut(w) == [w EXCEPT !.u.pend = FALSE, !.u.input = FALSE, !.u.out = "none", !.u.timing = FALSE,
                     !.u.neg = FALSE, !.u.open = FALSE]

BugDisconnected(w) ==
    Shut(IF w.u.pend THEN MaintenanceFinish(w, w.u.txn, w.u.out = "none") ELSE w)

Disconnected(w) ==
    Shut(IF w.u.pend THEN MaintenanceFinish(w, w.u.txn, FALSE) ELSE w)

ConnectOf(w) ==
    IF w.u.gen = MaxSessions THEN Disconnected(w)
    ELSE [Disconnected(w) EXCEPT !.u.gen = @ + 1, !.u.last = 0, !.u.open = TRUE]

\* respond(): a short reply at once, a generated one counted first, or no memory for it.
Respond(w, out) ==
    IF out = "refused" THEN Disconnected(w)
    ELSE [w EXCEPT !.u.out = out, !.u.input = FALSE]

Late(w) == w.u.timing /\ clk - w.u.started >= Timeout

\* transaction_: disjoint numbers for the sessions and their requests.
Transaction(w, seq) == w.u.gen * (MaxSeq + 1) + seq

\* What a request does in the application.
Handle(w, what, txn) ==
    IF ~LocalUsbReady(w) THEN w
    ELSE CASE what = "begin" -> MaintenanceRequest(w, txn, FALSE)
           [] what = "finish" -> MaintenanceRequest(w, txn, TRUE)
           [] what = "sample" -> TimeSample(w, txn)
           [] what = "submit" -> TimeSubmit(w, w.x.told)
           [] OTHER -> w

Told(w, what, txn) == IF what = "sample" THEN [w EXCEPT !.x.told = txn] ELSE w

\* A frame of the current session that names this device and this boot.
DispatchRequest(w, seq, what, out) ==
    IF ~w.u.neg \/ seq <= w.u.last \/ w.u.pend THEN Disconnected(w)
    ELSE Respond(Told(Handle([w EXCEPT !.u.last = seq, !.u.pend = TRUE, !.u.txn = Transaction(w, seq)],
                             what, Transaction(w, seq)), what, Transaction(w, seq)), out)

DispatchHello(w, seq, out) ==
    IF seq <= w.u.last \/ w.u.pend \/ w.u.neg THEN Disconnected(w)
    ELSE Respond([w EXCEPT !.u.last = seq, !.u.neg = TRUE], out)

\* The reply to the ACK exists before the deferred effect runs.
DispatchAck(w, seq, out) ==
    IF ~w.u.neg \/ ~w.u.pend \/ seq # w.u.last \/ out = "refused" THEN Disconnected(w)
    ELSE MaintenanceFinish([Respond(w, out) EXCEPT !.u.pend = FALSE], w.u.txn, TRUE)

-----------------------------------------------------------------------------

Init ==
    /\ u = [open |-> FALSE, gen |-> 0, last |-> 0, neg |-> FALSE, pend |-> FALSE, txn |-> 0,
            timing |-> FALSE, started |-> 0, input |-> FALSE, out |-> "none"]
    /\ mt = NoHold /\ r = NoRestart /\ clk = 1 /\ changes = 0 /\ acked = {}
    /\ x = [sample |-> NoSample, told |-> 0, used |-> {}, twice |-> FALSE]
    /\ sv \in [owner : {FALSE}, hold : {0}, verif : BOOLEAN]
    /\ others = [rev |-> 0, mark |-> 0, ready |-> TRUE]

Same == UNCHANGED <<others, clk, changes, acked>>

Connect == u.gen < MaxSessions /\ Becomes(TimeReset(ConnectOf(World))) /\ Same

\* DTR falls, or the WTP endpoint reclaims the memory.
Disconnect == u.open /\ Becomes(TimeReset(Disconnected(World))) /\ Same

CanRead == u.open /\ u.out = "none" /\ ~Late(World)

FirstByte ==
    /\ CanRead /\ ~u.input
    /\ u' = [u EXCEPT !.input = TRUE, !.timing = TRUE, !.started = IF u.timing THEN @ ELSE clk]
    /\ UNCHANGED <<mt, x, sv, r>> /\ Same

Outs == {"ready", "preparing", "refused"}

Request ==
    \E seq \in 1..MaxSeq, out \in Outs, what \in {"begin", "finish", "sample", "submit", "read"} :
        /\ CanRead /\ u.input /\ seq <= u.last + 1 /\ Becomes(DispatchRequest(World, seq, what, out)) /\ Same

Hello ==
    \E seq \in 1..MaxSeq, out \in {"ready", "refused"} :
        CanRead /\ u.input /\ seq <= u.last + 1 /\ Becomes(DispatchHello(World, seq, out)) /\ Same

Ack ==
    \E seq \in 1..MaxSeq, out \in {"ready", "refused"} :
        /\ CanRead /\ u.input /\ Becomes(DispatchAck(World, seq, out))
        /\ acked' = IF u.pend /\ seq = u.last THEN acked \cup {u.txn} ELSE acked
        /\ UNCHANGED <<others, clk, changes>>

Malformed == CanRead /\ u.input /\ Becomes(Disconnected(World)) /\ Same

\* poll(): too late, or a step of counting the reply, which may turn out too long.
Poll ==
    \/ Late(World) /\ Becomes(Disconnected(World)) /\ Same
    \/ /\ ~Late(World) /\ u.out = "preparing"
       /\ \/ u' = [u EXCEPT !.out = "ready"] /\ UNCHANGED <<mt, x, sv, r>>
          \/ Becomes(Disconnected(World))
       /\ Same

ConsumeOutput ==
    /\ u.out = "ready" /\ u' = [u EXCEPT !.out = "none", !.timing = @ /\ u.pend]
    /\ UNCHANGED <<mt, x, sv, r>> /\ Same

\* REBOOT or BOOTSEL on the console.
ConsoleReboot ==
    /\ Idle(sv)
    /\ \E b \in BOOLEAN :
           r' = [r EXCEPT !.browser = FALSE, !.bootloader = b, !.at = clk + Delay]
    /\ UNCHANGED <<u, mt, x, sv>> /\ Same

\* schedule_restart(), for the browser and the setup page.
BrowserRestart ==
    /\ r.at = 0 /\ Idle(sv)
    /\ r' = [r EXCEPT !.browser = TRUE, !.at = clk + Delay]
    /\ UNCHANGED <<u, mt, x, sv>> /\ Same

RestartSafe ==
    IF r.usb THEN MaintenanceOn(sv) /\ VerificationSafe(sv) /\ others.ready
    ELSE Idle(sv)

\* The main loop finds that something has begun since and drops the restart.
RestartDropped ==
    /\ r.at # 0 /\ clk >= r.at /\ ~RestartSafe
    /\ Becomes([World EXCEPT !.r = NoRestart, !.sv.hold = 0]) /\ Same

\* The device starts again, or stays in its boot loader until it is updated.
Restart ==
    /\ r.at # 0 /\ clk >= r.at /\ RestartSafe /\ u.gen < MaxSessions
    /\ u' = [u EXCEPT !.open = FALSE, !.neg = FALSE, !.pend = FALSE, !.timing = FALSE,
                      !.input = FALSE, !.out = "none"]
    /\ mt' = NoHold /\ r' = NoRestart /\ x' = [x EXCEPT !.sample = NoSample]
    /\ sv' = [owner |-> FALSE, hold |-> 0, verif |-> r.bootloader]
    /\ Same

Changed == changes < MaxChanges /\ changes' = changes + 1 /\ UNCHANGED <<clk, acked>>

\* Another client of the job service.
OwnerClaims == ~MaintenanceOn(sv) /\ ~sv.owner /\ sv' = [sv EXCEPT !.owner = TRUE]
               /\ UNCHANGED <<u, mt, x, r, others>> /\ Changed

OwnerLeaves == sv.owner /\ sv' = [sv EXCEPT !.owner = FALSE] /\ UNCHANGED <<u, mt, x, r>> /\ Same

OthersChange ==
    /\ \E o \in {[others EXCEPT !.rev = @ + 1], [others EXCEPT !.mark = @ + 1],
                 [others EXCEPT !.ready = ~@]} : others' = o
    /\ UNCHANGED <<u, mt, x, sv, r>> /\ Changed

Tick == clk < MaxTime /\ clk' = clk + 1 /\ UNCHANGED <<u, mt, x, sv, r, others, changes, acked>>

Next == \/ Connect \/ Disconnect \/ FirstByte \/ Request \/ Hello \/ Ack \/ Malformed \/ Poll
        \/ ConsumeOutput \/ ConsoleReboot \/ BrowserRestart \/ RestartDropped \/ Restart
        \/ OwnerClaims \/ OwnerLeaves \/ OthersChange \/ Tick

Spec == Init /\ [][Next]_vars

-----------------------------------------------------------------------------

\* The maintenance hold that keeps clients out belongs to a transaction that is
\* still open, or to a restart that is on its way: no failure on the cable leaves it.
HoldAccounted ==
    /\ clk < sv.hold => mt.pending # 0 \/ r.usb
    /\ mt.pending # 0 => u.pend /\ u.txn = mt.pending
    /\ r.usb => r.at # 0

\* An update restart is on its way only after its own reply was acknowledged, and a
\* time sample counts once.
AskedFor == (r.usb => r.txn \in acked) /\ ~x.twice

=============================================================================
