----------------------------- MODULE Bootstrap -----------------------------
(***************************************************************************)
(* The setup server (network/pico/bootstrap_server.cpp) and the two HTTP   *)
(* connections it serves (network/pico/http_server.cpp): the network slot  *)
(* and its trial, the claim of an owner, the recovery slot, and what each  *)
(* of them leaves to the delivery of a reply.  Networks are numbers, 0 no  *)
(* network; a timer is due once its window has passed.                     *)
(***************************************************************************)
EXTENDS Integers, FiniteSets

CONSTANTS Starts,       \* profile sources the device may start with
          Kinds,        \* requests a browser may send
          Logins,       \* 0 is the open access point, others sealed by the radio API
          Outcomes,     \* how a write of the profile may end
          MaxRequests,  \* bound on connections
          MaxChanges    \* bound on what changes around the server

VARIABLES s,            \* the server, and the stores and the station it works on
          c,            \* connections
          h             \* history: requests and changes made, results shown, commits

vars == <<s, c, h>>

NoSlot == [st |-> "none", sid |-> 0, req |-> 0, gen |-> 0, ok |-> FALSE]
NoClient == [st |-> "free", tx |-> 0, says |-> 0]

Booted(src, gen, net, access) ==
    [slot |-> NoSlot, digest |-> 0, verifier |-> 0, trial |-> 0, prev |-> 0, switched |-> FALSE,
     pend |-> FALSE, deliv |-> FALSE, join |-> FALSE, gate |-> "open", restart |-> FALSE,
     ack |-> FALSE,
     own |-> NoSlot, otrial |-> 0, oprev |-> 0, oswitched |-> FALSE, opend |-> FALSE,
     odeliv |-> FALSE, oactive |-> FALSE, oreq |-> 0, rec |-> FALSE, orestart |-> FALSE,
     result |-> [gen |-> 0, req |-> 0, told |-> FALSE], prog |-> "no", expected |-> 0,
     login |-> 0, tx |-> 0, path |-> "none", shows |-> FALSE,
     rslot |-> 0, reset |-> FALSE, serial |-> 0, due |-> {},
     ap |-> TRUE, sta |-> FALSE, apok |-> TRUE, adm |-> TRUE, safe |-> TRUE,
     src |-> src, gen |-> gen, net |-> net, boot |-> src, healthy |-> TRUE, access |-> access,
     station |-> net, link |-> FALSE, radio |-> TRUE, idle |-> TRUE, rev |-> 0, reboot |-> FALSE]

Init ==
    /\ \E src \in Starts :
         s = Booted(src, IF src = "blank" THEN 0 ELSE 1, IF src = "blank" THEN 0 ELSE 1,
                    IF src = "blank" THEN "erased" ELSE "ok")
    /\ c = [i \in 1..2 |-> NoClient]
    /\ h = [tx |-> 0, changes |-> 0, nets |-> {0, 1}, shown |-> 0, delivered |-> {},
            unfit |-> FALSE, lapsed |-> FALSE]

-----------------------------------------------------------------------------
(* Authority over the profile.                                             *)

\* Nothing was ever saved and access is as delivered.
BlankAuthority(w) == w.healthy /\ w.gen = 0 /\ w.src = "blank"

\* What the flash holds and what the device started with agree, and nothing is being sent.
NetworkSetupAuthority(w) ==
    \/ BlankAuthority(w)
    \/ w.healthy /\ w.src \in {"network", "consumer"} /\ w.boot = w.src /\ w.gen # 0 /\ w.idle

\* A station claim needs a saved network and no restart on its way.
OwnerClaimable(w) ==
    /\ ~w.orestart /\ ~w.restart /\ w.healthy /\ w.idle
    /\ w.src \in {"network", "consumer"} /\ w.boot = w.src /\ w.gen # 0

OwnerClaimPending(w) == w.rec \/ w.orestart \/ w.own.st \in {"granted", "trial"}

SetupPending(w) ==
    w.rslot # 0 \/ w.reset \/ w.slot.st # "none" \/ w.restart \/ OwnerClaimPending(w)

-----------------------------------------------------------------------------
(* Ends of the network slot and of its trial.                              *)

BugRestoreBootstrap(w) == [w EXCEPT !.switched = FALSE]

\* Only a station that the trial took away is brought back.
RestoreBootstrap(w) ==
    IF w.switched
    THEN [w EXCEPT !.station = IF w.radio THEN w.prev ELSE 0, !.link = FALSE, !.switched = FALSE]
    ELSE w

\* The whole slot and every credential it held go together.
CancelSlot(w) ==
    [(IF w.slot.st = "trial" THEN RestoreBootstrap(w) ELSE w) EXCEPT
        !.login = 0, !.join = FALSE, !.slot = NoSlot, !.digest = 0, !.verifier = 0, !.trial = 0,
        !.prev = 0, !.pend = FALSE, !.deliv = FALSE, !.due = @ \ {"slot", "join", "deliver"}]

\* BootstrapSlot::cancel(), and what finds that a window has passed: it keeps nothing.
DropSlot(w) == [w EXCEPT !.slot = NoSlot, !.due = @ \ {"slot"}]

SlotExpired(w) == w.slot.st # "none" /\ "slot" \in w.due

\* finish(): a slot whose window has passed is gone rather than finished.
FinishSlot(w, committed) ==
    IF SlotExpired(w) THEN DropSlot(w)
    ELSE IF w.slot.st # "trial" THEN w
    ELSE [w EXCEPT !.slot = [@ EXCEPT !.st = "terminal", !.sid = 0, !.ok = committed],
                   !.due = @ \ {"slot"}]

EndTrial(w, committed) ==
    FinishSlot([(IF committed THEN w ELSE RestoreBootstrap(w)) EXCEPT
                   !.switched = FALSE, !.trial = 0, !.prev = 0, !.join = FALSE, !.pend = FALSE,
                   !.deliv = FALSE, !.verifier = IF committed THEN @ ELSE 0,
                   !.restart = @ \/ committed, !.ack = IF committed THEN FALSE ELSE @,
                   !.due = @ \ (IF committed THEN {"join", "deliver", "commit"}
                                             ELSE {"join", "deliver"})], committed)

-----------------------------------------------------------------------------
(* Ends of the owner's slot and of its trial.                              *)

RestoreOwner(w) ==
    IF w.oswitched
    THEN [w EXCEPT !.station = IF w.radio THEN w.oprev ELSE 0, !.link = FALSE, !.oswitched = FALSE]
    ELSE w

\* The identity of a result is kept until the device restarts.
CancelOwnerSlot(w, restore) ==
    [(IF restore THEN RestoreOwner(w) ELSE w) EXCEPT
        !.prog = "no", !.expected = 0, !.login = 0, !.oswitched = FALSE, !.own = NoSlot,
        !.otrial = 0, !.oprev = 0, !.oreq = IF w.orestart THEN @ ELSE 0, !.oactive = FALSE,
        !.opend = FALSE, !.odeliv = FALSE, !.due = @ \ {"owner"}]

\* The slot keeps its end for the browser to read unless output has become active.
EndOwnerTrial(w, committed) ==
    [(IF committed THEN w ELSE RestoreOwner(w)) EXCEPT
        !.oswitched = FALSE,
        !.own = IF committed THEN @
                ELSE IF w.idle /\ w.own.st = "trial" /\ "owner" \notin w.due
                     THEN [@ EXCEPT !.st = "terminal", !.sid = 0, !.ok = FALSE]
                ELSE NoSlot,
        !.otrial = 0, !.oprev = 0, !.oactive = FALSE, !.opend = FALSE, !.odeliv = FALSE,
        !.due = @ \ {"owner"}]

\* Only the end of a failed attempt makes room for a new one.
ClearFailedSetup(w) ==
    LET v == IF w.slot.st = "terminal" /\ ~w.slot.ok /\ ~w.restart /\ w.gate # "reconcile"
             THEN CancelSlot(w) ELSE w
    IN  IF v.own.st = "terminal" /\ ~v.rec /\ ~v.orestart THEN CancelOwnerSlot(v, TRUE) ELSE v

\* The login that opened a slot is over: what was not submitted goes with it.
SetupLoginClosed(w, login) ==
    IF login = 0 \/ login # w.login THEN w
    ELSE LET v == IF w.slot.st = "granted" THEN CancelSlot(w) ELSE w
             u == IF v.own.st = "granted" THEN CancelOwnerSlot(v, TRUE) ELSE v
         IN  [u EXCEPT !.login = 0]

-----------------------------------------------------------------------------
(* Requests.  An answer is the state after it and whether it was accepted. *)

No(w) == [w |-> w, ok |-> FALSE]
Yes(w) == [w |-> w, ok |-> TRUE]

\* A first setup writes the access record the device is to start with.
Initialized(w) == [w EXCEPT !.access = "ok"]

\* start() and grant_open_setup(): opened and granted in one request.
GrantSlot(w) ==
    [w EXCEPT !.serial = @ + 1, !.digest = w.serial + 1, !.due = @ \ {"slot"},
              !.slot = [NoSlot EXCEPT !.st = "granted", !.sid = w.serial + 1]]

ConsumeSlot(w, q) == [w EXCEPT !.slot = [@ EXCEPT !.st = "trial", !.req = q.tx]]

NetworkStart(w0) ==
    LET v == IF w0.safe /\ NetworkSetupAuthority(w0) THEN ClearFailedSetup(w0) ELSE w0
    IN  IF \/ v.own.st # "none" \/ v.rec \/ v.orestart
           \/ ~v.safe \/ ~NetworkSetupAuthority(v)
           \/ v.slot.st # "none" \/ v.restart
           \/ v.gate \notin {"open", "not"}
        THEN No(v)
        ELSE Yes(Initialized(GrantSlot([v EXCEPT !.gate = "open", !.login = 0])))

\* The slot is used up before the box is opened: a forged one ends the attempt.
NetworkSubmit(w, q) ==
    IF \/ w.own.st # "none" \/ w.rec \/ w.orestart
       \/ ~w.safe \/ ~NetworkSetupAuthority(w) \/ w.slot.st # "granted" \/ q.sid # w.slot.sid
    THEN No(w)
    ELSE IF SlotExpired(w) THEN No(DropSlot(w))
    ELSE LET v == [ConsumeSlot(w, q) EXCEPT !.prev = w.net]
         IN  IF q.k = "forged" THEN Yes(EndTrial(v, FALSE))
             ELSE Yes([v EXCEPT !.trial = 2, !.verifier = q.tx, !.pend = TRUE, !.deliv = FALSE])

\* acknowledge(): only the end of a committed attempt; an expired slot is dropped as it is.
Acknowledged(w) ==
    IF SlotExpired(w) THEN No(DropSlot(w))
    ELSE IF w.slot.st # "terminal" \/ ~w.slot.ok THEN No(w)
    ELSE Yes([DropSlot(w) EXCEPT !.verifier = 0, !.digest = 0])

\* Proof that the browser that submitted has seen the device on its new network.
NetworkAck(w, q) ==
    IF \/ w.own.st # "none" \/ w.rec \/ w.orestart
       \/ w.src = "blank" \/ w.digest = 0 \/ q.sid # w.digest \/ w.verifier = 0
       \/ w.slot.req # w.verifier
    THEN No(w)
    ELSE Acknowledged(w)

Mutation(w, q) ==
    IF w.reset \/ w.rslot # 0 \/ w.gate = "reconcile" THEN No(w)
    ELSE CASE q.k = "start" -> NetworkStart(w)
           [] q.k \in {"submit", "forged"} -> NetworkSubmit(w, q)
           [] q.k = "ack" -> NetworkAck(w, q)

\* A claim, a change of the progress record, or the claim of a station from that record.
Progress(k) == CASE k = "pstart" -> "save" [] k = "papply" -> "apply" [] OTHER -> "no"

OwnerStart(w0, q) ==
    IF ~OwnerClaimable(w0) THEN No(w0)
    ELSE LET v == ClearFailedSetup(w0)
         IN  IF v.slot.st # "none" \/ v.own.st # "none" \/ v.rec THEN No(v)
             ELSE Yes([(IF q.k = "pstart" THEN v ELSE Initialized(v)) EXCEPT
                          !.serial = @ + 1, !.login = 0, !.oreq = 0,
                          !.own = [NoSlot EXCEPT !.st = "granted", !.sid = v.serial + 1,
                                                 !.gen = v.gen],
                          !.prog = Progress(q.k), !.expected = v.rev, !.due = @ \ {"owner"}])

\* The slot still stands for the profile the flash holds.
OwnerCurrent(w, q) ==
    /\ OwnerClaimable(w) /\ w.own.st = "granted" /\ q.sid = w.own.sid
    /\ w.own.gen = w.gen

\* Two kinds of box fit two kinds of slot, and a progress record must not have moved.
OwnerSubmit(w, q) ==
    IF \/ q.k = "psubmit" /\ (w.prog # "save" \/ w.expected # w.rev)
       \/ q.k = "osubmit" /\ (w.prog = "save" \/ (w.prog = "apply" /\ w.expected # w.rev))
       \/ ~OwnerCurrent(w, q)
    THEN No(w)
    ELSE IF "owner" \in w.due THEN No([w EXCEPT !.own = NoSlot, !.due = @ \ {"owner"}])
    ELSE IF q.k = "psubmit" THEN Yes(CancelOwnerSlot([w EXCEPT !.rev = @ + 1], FALSE))
    ELSE Yes([w EXCEPT !.own = [@ EXCEPT !.st = "trial", !.req = q.tx], !.oreq = q.tx,
                       !.otrial = 2, !.oprev = w.net, !.opend = TRUE, !.odeliv = FALSE,
                       !.due = @ \ {"owner"}])

OwnerMutation(w, q) ==
    IF w.reset \/ w.rslot # 0 THEN No(w)
    ELSE IF q.k \in {"ostart", "pstart", "papply"} THEN OwnerStart(w, q)
    ELSE OwnerSubmit(w, q)

\* The result that waits to be read is the one the profile now holds.
ResultMatches(w) == w.src = "consumer" /\ w.result.gen = w.gen /\ w.result.req = w.oreq

\* What a claim's status says: the request whose result it reports as committed, or none.
Reported(w) ==
    IF w.healthy /\ ~w.rec /\ w.orestart /\ ResultMatches(w)
    THEN w.result.req ELSE 0

\* Erasure of the provisioning data, confirmed by a box of its own.
Recovery(w, q) ==
    IF ~(w.ap \/ w.sta) \/ w.reset \/ w.access = "fault" THEN No(w)
    ELSE IF q.k = "rstart"
    THEN IF SetupPending(w) THEN No(w)
         ELSE Yes([w EXCEPT !.serial = @ + 1, !.rslot = w.serial + 1, !.due = @ \ {"recovery"}])
    ELSE IF w.rslot = 0 \/ q.sid # w.rslot THEN No(w)
    ELSE IF "recovery" \in w.due \/ ~w.idle THEN No([w EXCEPT !.rslot = 0])
    ELSE Yes([w EXCEPT !.rslot = 0, !.reset = TRUE, !.access = "ok"])

\* The replies whose delivery matters are remembered, one at a time.
RememberSetupReply(w, q) ==
    IF q.k \in {"submit", "forged", "ack", "osubmit"} \/ (q.k = "ostatus" /\ Reported(w) # 0)
    THEN [w EXCEPT !.path = q.k, !.tx = q.tx, !.shows = q.k = "ostatus"] ELSE w

Opens(k) == k \in {"start", "ostart", "papply"}

Handled(w, q) ==
    CASE q.k \in {"start", "submit", "forged", "ack"} -> Mutation(w, q)
      [] q.k \in {"ostart", "pstart", "papply", "osubmit", "psubmit"} -> OwnerMutation(w, q)
      [] q.k \in {"rstart", "rsubmit"} -> Recovery(w, q)
      [] q.k = "ostatus" -> Yes(w)
      [] OTHER -> No(w)

Remembered(a, q) == IF a.ok THEN [a EXCEPT !.w = RememberSetupReply(a.w, q)] ELSE a

\* A sealed request reaches only the setup routes, and binds the slot it opens to its login.
ConsumerSetup(w, q) ==
    IF w.tx # 0 \/ q.k \in {"pstart", "psubmit", "rstart", "rsubmit"}
       \/ (q.k # "ostatus" /\ ~w.safe)
    THEN No(w)
    ELSE LET a == Handled(w, q)
         IN  Remembered(IF a.ok /\ Opens(q.k) THEN [a EXCEPT !.w.login = q.login] ELSE a, q)

\* Plain requests are for the access point, and wait for a reply that is still under way.
Dispatch(w, q) ==
    IF q.login # 0 THEN ConsumerSetup(w, q)
    ELSE IF \/ w.tx # 0 \/ q.via # "ap"
            \/ (q.k \notin {"rstart", "rsubmit"} /\ ~w.apok)
    THEN No(w)
    ELSE Remembered(Handled(w, q), q)

BugSetupDelivered(w, tx, apply) ==
    IF tx = 0 THEN w
    ELSE [(CASE w.path = "ostatus" /\ apply -> [w EXCEPT !.result.told = TRUE]
             [] w.path \in {"submit", "forged"} /\ w.pend -> [w EXCEPT !.deliv = apply]
             [] w.path = "osubmit" /\ w.opend -> [w EXCEPT !.odeliv = apply]
             [] w.path = "ack" /\ apply -> [w EXCEPT !.ack = TRUE]
             [] OTHER -> w)
          EXCEPT !.path = "none", !.tx = 0, !.shows = FALSE]

\* The result was read: the wait that is left is for the browser to show it.
ResultDelivered(w) ==
    IF w.result.told THEN w ELSE [w EXCEPT !.result.told = TRUE, !.due = @ \ {"result"}]

\* A trial starts only after the browser has its answer, and dies with an answer that was lost.
SetupDelivered(w, tx, apply) ==
    IF tx = 0 \/ tx # w.tx THEN w
    ELSE [(CASE w.path \in {"submit", "forged"} /\ w.pend ->
                  IF apply THEN [w EXCEPT !.deliv = TRUE, !.due = @ \ {"deliver"}]
                  ELSE CancelSlot(w)
             [] w.path = "osubmit" /\ w.opend ->
                  IF apply THEN [w EXCEPT !.odeliv = TRUE] ELSE CancelOwnerSlot(w, TRUE)
             [] w.path = "ack" /\ apply -> [w EXCEPT !.ack = TRUE]
             [] w.path = "ostatus" /\ apply /\ w.shows -> ResultDelivered(w)
             [] OTHER -> w)
          EXCEPT !.path = "none", !.tx = 0, !.shows = FALSE]

-----------------------------------------------------------------------------
(* One round of the main loop.                                             *)

\* A network trial takes the station unless it is already where it is to go.
StartTrial(w0) ==
    LET w == [w0 EXCEPT !.pend = FALSE, !.deliv = FALSE]
    IN  IF w.slot.st # "trial" THEN CancelSlot(w)
        ELSE IF w.prev # 0 /\ w.prev = w.trial /\ w.station = w.trial /\ w.link
        THEN [w EXCEPT !.join = TRUE, !.due = @ \ {"join"}]
        ELSE IF w.radio
        THEN [w EXCEPT !.switched = TRUE, !.station = w.trial, !.link = FALSE, !.join = TRUE,
                       !.due = @ \ {"join"}]
        ELSE EndTrial([w EXCEPT !.switched = TRUE, !.station = 0, !.link = FALSE], FALSE)

\* The window of the network slot; a trial that is cut short gives the station back.
ExpireNetwork(w) ==
    LET v == IF w.slot.st \notin {"none", "terminal"} /\ w.gate # "reconcile"
                /\ (~w.safe \/ ~NetworkSetupAuthority(w)) THEN CancelSlot(w) ELSE w
        u == IF v.slot.st # "none" /\ v.gate # "reconcile" /\ "slot" \in v.due
             THEN CancelSlot(v) ELSE v
    IN  IF u.slot.st = "none" THEN [u EXCEPT !.digest = 0] ELSE u

BugPollNetworkStart(w) == IF w.pend THEN StartTrial(w) ELSE w

PollNetworkStart(w) ==
    IF w.pend /\ w.deliv /\ w.tx = 0 /\ "deliver" \in w.due THEN StartTrial(w) ELSE w

ExpireOwner(w, active) ==
    LET v == IF ~active /\ w.own.st = "granted" THEN CancelOwnerSlot(w, TRUE) ELSE w
    IN  IF v.own.st # "none" /\ "owner" \in v.due THEN CancelOwnerSlot(v, TRUE) ELSE v

StationReady(w, net) == net # 0 /\ w.station = net /\ w.link

PollOwnerStart(w0) ==
    IF ~w0.opend \/ w0.tx # 0 \/ ~w0.odeliv THEN w0
    ELSE LET w == [w0 EXCEPT !.opend = FALSE]
         IN  IF w.otrial = w.oprev /\ StationReady(w, w.otrial) THEN [w EXCEPT !.oactive = TRUE]
             ELSE IF w.radio
             THEN [w EXCEPT !.oswitched = TRUE, !.station = w.otrial, !.link = FALSE,
                            !.oactive = TRUE]
             ELSE EndOwnerTrial([w EXCEPT !.oswitched = TRUE, !.station = 0, !.link = FALSE], FALSE)

ResultBegins(w, gen, req) ==
    [w EXCEPT !.orestart = TRUE, !.result = [gen |-> gen, req |-> req, told |-> FALSE],
              !.due = @ \ {"result"}]

\* commit_consumer_claim(): refused on another generation, and unknown when the write is.
ClaimCommit(w, o) ==
    IF w.own.gen # w.gen \/ ~w.idle \/ w.boot # w.src \/ o = "not"
       \/ (w.prog = "apply" /\ w.expected # w.rev)
    THEN EndOwnerTrial(w, FALSE)
    ELSE IF o = "committed"
    THEN ResultBegins([EndOwnerTrial([w EXCEPT !.own = [@ EXCEPT !.st = "terminal", !.sid = 0,
                                                                 !.ok = TRUE]], TRUE)
                       EXCEPT !.src = "consumer", !.gen = @ + 1, !.net = w.otrial],
                      w.gen + 1, w.oreq)
    ELSE ResultBegins([CancelOwnerSlot(w, FALSE)
                       EXCEPT !.rec = TRUE, !.oreq = w.oreq, !.healthy = o = "reconciled",
                              !.gen = IF o = "reconciled" THEN @ + 1 ELSE @,
                              !.src = IF o = "reconciled" THEN "consumer" ELSE @,
                              !.net = IF o = "reconciled" THEN w.otrial ELSE @],
                      IF o = "reconciled" THEN w.gen + 1 ELSE w.gen, w.oreq)

PollOwnerCommit(w, o) ==
    IF w.oactive /\ w.own.st = "trial" /\ StationReady(w, w.otrial) THEN ClaimCommit(w, o) ELSE w

\* A write of unknown result is neither undone nor repeated before the restart reads it back.
NetworkCommit(w, o) ==
    CASE o = "committed" ->
           EndTrial([w EXCEPT !.gate = "committed", !.gen = @ + 1, !.net = w.trial,
                              !.src = IF @ = "consumer" THEN @ ELSE "network"], TRUE)
      [] o = "not" -> EndTrial([w EXCEPT !.gate = "not"], FALSE)
      [] OTHER ->
           [w EXCEPT !.gate = "reconcile", !.healthy = o = "reconciled",
                     !.gen = IF o = "reconciled" THEN @ + 1 ELSE @,
                     !.net = IF o = "reconciled" THEN w.trial ELSE @,
                     !.src = IF o = "reconciled" /\ @ # "consumer" THEN "network" ELSE @,
                     !.restart = TRUE, !.ack = FALSE, !.join = FALSE, !.trial = 0, !.prev = 0,
                     !.switched = FALSE, !.verifier = 0, !.due = @ \ {"commit"}]

PollNetworkTrial(w, o) ==
    IF w.slot.st # "trial" \/ w.pend \/ w.gate # "open" THEN w
    ELSE IF ~w.join \/ "join" \in w.due THEN EndTrial(w, FALSE)
    ELSE IF w.link /\ w.station # 0 /\ NetworkSetupAuthority(w) THEN NetworkCommit(w, o)
    ELSE w

\* Three seconds after the result was read, or a minute after it came to be.
ResultReady(w) == w.orestart /\ "result" \in w.due

\* A restart waits for idle output; only the network's is taken back once it is scheduled.
PollRestart(w) ==
    LET now == w.tx = 0 /\ w.restart /\ ("commit" \in w.due \/ (w.gate # "reconcile" /\ w.ack))
        set == ~w.reboot /\ w.idle
        v == IF now /\ set THEN [w EXCEPT !.reboot = TRUE, !.restart = w.gate = "reconcile"] ELSE w
    IN  IF v.tx = 0 /\ ResultReady(v) /\ ~v.reboot /\ v.idle
        THEN [v EXCEPT !.reboot = TRUE] ELSE v

Unadmitted(w) ==
    LET v == IF w.gate # "reconcile" THEN CancelSlot(w) ELSE w
    IN  IF ~v.rec /\ ~v.orestart THEN CancelOwnerSlot(v, TRUE) ELSE v

ExpireRecovery(w, active) ==
    IF (w.rslot # 0 /\ "recovery" \in w.due) \/ (~active /\ ~w.reset)
    THEN [w EXCEPT !.rslot = 0, !.due = @ \ {"recovery"}] ELSE w

\* Where requests may come from; the radio API withdraws the logins of a listener that is gone.
Surroundings(w, ap, sta, setup) ==
    LET v == [w EXCEPT !.ap = ap, !.sta = sta, !.apok = setup, !.adm = setup \/ sta,
                       !.safe = w.idle /\ (setup \/ sta)]
    IN  ExpireRecovery(IF ap \/ sta THEN v ELSE SetupLoginClosed(v, v.login), ap \/ sta)

Rounds(w, o) ==
    IF ~w.adm THEN Unadmitted(w)
    ELSE PollRestart(PollNetworkTrial(PollOwnerCommit(PollOwnerStart(ExpireOwner(
             PollNetworkStart(ExpireNetwork(w)), w.ap \/ w.sta)), o), o))

\* Without a listener no trial is started any more.
Idled(w) == IF ~w.ap /\ ~w.sta /\ w.pend THEN CancelSlot(w) ELSE w

-----------------------------------------------------------------------------
(* Connections.                                                            *)

\* accept(): the listener the connection came in by.
Admitted(w, via) == IF via = "ap" THEN w.ap ELSE w.sta

\* receive(): one whole request; the browser names the slot it knows of.
Received(k, via, login) ==
    [k |-> k, via |-> via, login |-> login, tx |-> h.tx + 1,
     sid |-> IF s.rslot # 0 THEN s.rslot ELSE IF s.own.sid # 0 THEN s.own.sid ELSE s.digest]

\* A trial whose window passed was given up by the request that found it so.
Lapsed(w, v) == w.slot.st = "trial" /\ v.slot.st = "none"

\* The reply is written; what it claims of a result is kept with it.
Serve(i, via, k, login, passed) ==
    /\ c[i] = NoClient /\ (\A j \in 1..(i - 1) : c[j] # NoClient)
    /\ Admitted(s, via) /\ (via = "sta" => login # 0)
    /\ h.tx < MaxRequests
    /\ \E a \in {Dispatch([s EXCEPT !.due = passed], Received(k, via, login))} :
         /\ s' = [a.w EXCEPT !.due = {}]
         /\ c' = [c EXCEPT ![i] = [st |-> "sent", tx |-> h.tx + 1,
                                   says |-> IF a.ok /\ k = "ostatus" THEN Reported(a.w) ELSE 0]]
         /\ h' = [h EXCEPT !.tx = @ + 1, !.lapsed = @ \/ (k = "ack" /\ Lapsed(s, a.w))]

\* The peer has acknowledged every byte of the reply.
Sent(i) ==
    /\ c[i].st = "sent"
    /\ c' = [c EXCEPT ![i].st = "acked"]
    /\ UNCHANGED <<s, h>>

\* Only acknowledged bytes prove delivery, however the connection ends.
Delivered(q) == q.st = "acked"

Recorded(g, q) ==
    IF Delivered(q) THEN [g EXCEPT !.delivered = @ \cup ({q.tx} \cap {s.slot.req, s.own.req}),
                                   !.shown = IF q.says # 0 THEN q.says ELSE @]
    ELSE g

Close(i) ==
    /\ c[i] # NoClient
    /\ s' = SetupDelivered(s, c[i].tx, Delivered(c[i]))
    /\ h' = Recorded(h, c[i])
    /\ c' = [c EXCEPT ![i] = NoClient]

-----------------------------------------------------------------------------

\* A commit follows an answer that reached its browser, on the profile the slot was opened for.
Unfit(w, v) ==
    /\ w.gen # v.gen
    /\ \/ w.slot.st = "trial" /\ w.slot.req \notin h.delivered
       \/ w.own.st = "trial" /\ (w.own.req \notin h.delivered \/ w.own.gen # w.gen)

Stopped(w) == SetupDelivered(SetupDelivered(w, c[1].tx, Delivered(c[1])), c[2].tx, Delivered(c[2]))

Poll(ap, sta, setup, passed, o) ==
    /\ sta => s.boot = "consumer"
    /\ (ap # s.ap \/ sta # s.sta \/ setup # s.apok) => h.changes < MaxChanges
    /\ \E w \in {Idled(Rounds(Surroundings([s EXCEPT !.due = passed], ap, sta, setup), o))} :
         /\ s' = [(IF ap \/ sta THEN w ELSE Stopped(w)) EXCEPT !.due = {}]
         /\ c' = IF ap \/ sta THEN c ELSE [i \in 1..2 |-> NoClient]
         /\ h' = [(IF ap \/ sta THEN h ELSE Recorded(Recorded(h, c[1]), c[2])) EXCEPT
                     !.changes = @ + (IF ap # s.ap \/ sta # s.sta \/ setup # s.apok THEN 1 ELSE 0),
                     !.nets = @ \cup {w.net}, !.unfit = @ \/ Unfit(s, w)]

\* The windows a running timer stands for: a slot's, the wait after a delivered submission, a
\* join, a claim's, the wait for its result to be read, a commit's, a recovery's.
Running ==
    {t \in {"slot", "deliver", "join", "owner", "result", "commit", "recovery"} :
        CASE t = "slot" -> s.slot.st # "none"
          [] t = "deliver" -> s.deliv
          [] t = "join" -> s.join
          [] t = "owner" -> s.own.st # "none"
          [] t = "result" -> s.orestart
          [] t = "commit" -> s.restart
          [] t = "recovery" -> s.rslot # 0}

\* None, one or all of them have passed by the time of a step.
Passed == {{}, Running} \cup {{t} : t \in Running}

\* A commit ends in some way only where a trial has come that far.
Ends == IF s.link /\ (s.slot.st = "trial" \/ s.own.st = "trial") THEN Outcomes ELSE {"not"}

\* The station joins the network it is set to.
Linked ==
    /\ ~s.link /\ s.station # 0
    /\ s' = [s EXCEPT !.link = TRUE]
    /\ UNCHANGED <<c, h>>

Change(w) ==
    /\ h.changes < MaxChanges
    /\ s' = w
    /\ h' = [h EXCEPT !.changes = @ + 1, !.nets = @ \cup {w.net}]
    /\ UNCHANGED c

LinkLost == s.link /\ Change([s EXCEPT !.link = FALSE])
OutputChanges == Change([s EXCEPT !.idle = ~@])
RadioFails == s.radio /\ Change([s EXCEPT !.radio = FALSE])
LoginCloses == s.login # 0 /\ Change(SetupLoginClosed(s, s.login))
ProgressSaved == Change([s EXCEPT !.rev = @ + 1])

\* USB saves another network; it is kept out of a claim, and takes effect with the next start.
UsbWifi ==
    /\ ~OwnerClaimPending(s) /\ ~s.reboot /\ s.idle /\ s.healthy /\ s.src # "blank"
    /\ Change([s EXCEPT !.gen = @ + 1, !.src = "consumer", !.net = 3])

\* A job that was accepted meanwhile takes a scheduled restart back.
RestartCancelled == s.reboot /\ ~s.idle /\ s' = [s EXCEPT !.reboot = FALSE] /\ UNCHANGED <<c, h>>

Reboot ==
    /\ s.reboot
    /\ s' = Booted(s.src, s.gen, s.net, s.access)
    /\ c' = [i \in 1..2 |-> NoClient]
    /\ h' = [h EXCEPT !.nets = {0, s.net}, !.shown = 0, !.delivered = {}]

Next ==
    \/ \E i \in 1..2 : \/ \E via \in {"ap", "sta"}, k \in Kinds, login \in Logins :
                            \E passed \in {{}, Running} : Serve(i, via, k, login, passed)
                       \/ Sent(i) \/ Close(i)
    \/ \E ap, sta, setup \in BOOLEAN, passed \in Passed, o \in Ends : Poll(ap, sta, setup, passed, o)
    \/ Linked \/ LinkLost \/ OutputChanges \/ RadioFails \/ LoginCloses \/ ProgressSaved
    \/ UsbWifi \/ RestartCancelled \/ Reboot

Spec == Init /\ [][Next]_vars

-----------------------------------------------------------------------------
(* Properties.                                                             *)

\* At most one setup is under way: a network slot, an owner's slot and a recovery never overlap,
\* whichever requests arrive and whatever expires in between.
ExclusiveSetup ==
    /\ s.slot.st = "none" \/ s.own.st = "none"
    /\ s.rslot # 0 => s.slot.st = "none" /\ s.own.st \in {"none", "terminal"}

\* A trial leaves nothing behind.  Outside one the station is off or on a network the profile has
\* held since the start, and neither the credentials tried nor those to go back to are kept: not
\* after a timeout, a cancellation, a lost listener or a failed write.  An acknowledgement that
\* meets an expired network trial (h.lapsed) is the exception: acknowledge() drops the slot by
\* expire() and returns, and the poll that would have restored the station sees no trial.
TrialUndone ==
    /\ (~s.switched /\ ~s.oswitched /\ s.gate # "reconcile" /\ ~s.rec)
           => s.station \in h.nets \cup {0}
    /\ s.trial # 0 \/ s.prev # 0 \/ s.switched => s.slot.st = "trial" \/ h.lapsed
    /\ s.otrial # 0 \/ s.oprev # 0 \/ s.oswitched => s.own.st = "trial"

\* The profile is written only for a submission whose answer reached the browser, over the
\* generation its slot was opened on.
CommitsAnswered == ~h.unfit

\* The early restart after a claim follows a delivered reply that reported this very result; the
\* acknowledgement of an older reply does not count as one.
ResultShown == s.result.told => h.shown = s.result.req
=============================================================================
