-------------------------------- MODULE Chrony -------------------------------
(***************************************************************************)
(* The clock estimator (microchrony/microchrony.cpp) and the NtpClient that *)
(* drives it (time/ntp_client.cpp): requests to the network sources, their   *)
(* replies, the GPS reference, the choice of a source, and the local          *)
(* frequency reference.                                                      *)
(*                                                                         *)
(* The line a source's samples fit is an interval around the phase (UTC less  *)
(* raw time) its newest sample gave, which widens by one with each tick of    *)
(* age; which source of an agreeing set has the shortest path, and how finely *)
(* its frequency is known, may be anything.  Poll exponents, bursts, delay    *)
(* statistics and the replace hint are left out.  A network may deliver any    *)
(* request's reply late, again, or never.                                    *)
(***************************************************************************)
EXTENDS Naturals, FiniteSets, FiniteSetsExt

CONSTANTS Loads,       \* [slots, samples, gps, rates, liars, requests, calls, ticks]
          ReachBits,   \* polls the reach register remembers
          MaxDistance, \* max_distance, in ticks of age
          RefAge,      \* ticks a GPS capture stays usable
          Gap,         \* ticks without captures that begin a new history
          Wrong        \* the phase, and the rate, of a source that lies

VARIABLES e, n, net, now, h

vars == <<e, n, net, now, h>>

Ref == 4                          \* reference_slot
Slots == 0 .. (h.load.slots - 1)
Sources == Slots \union {Ref}
None == 5                         \* selected_ == source_count

NoSource ==
    [endpoint |-> 0, online |-> FALSE, reach |-> 0, pending |-> FALSE, token |-> 0,
     sent |-> 0, due |-> 0, denied |-> FALSE, synced |-> FALSE, heard |-> FALSE,
     count |-> 0, gen |-> 0, phase |-> 0, accepted |-> 0, seen |-> 0, who |-> 0]

Init ==
    /\ h \in {[load |-> l, requests |-> 0, calls |-> 0, eaten |-> 0, wrong |-> FALSE]
                 : l \in Loads}
    /\ e = [source |-> [i \in {0, 1, 2, Ref} |->
                           IF i = 0 THEN [NoSource EXCEPT !.endpoint = 1, !.online = TRUE]
                           ELSE NoSource], refOn |-> FALSE, sequence |-> 0,
            capture |-> [seq |-> 0, raw |-> 0], doubt |-> FALSE, online |-> TRUE,
            selected |-> None, used |-> 0, valid |-> FALSE, phase |-> 0, root |-> 0,
            update |-> 0, sourceRaw |-> 0, rate |-> 0, fine |-> TRUE,
            freq |-> {}, state |-> "none",
            ref |-> [raw |-> 0, until |-> 0, rate |-> 0]]
    /\ n = [epochs |-> [i \in 0 .. 2 |-> 1]]
    /\ net = {}
    /\ now = 1

-----------------------------------------------------------------------------
(* Intervals and the sources that may be chosen.                             *)

Apart(p, q) == IF p < q THEN q - p ELSE p - q

Valid(s) == s.count >= h.load.samples

(* distance(): one tick for the path, and one for each of the line's age.     *)
Distance(s) == 1 + (now - s.accepted)

Overlap(s, t) == Apart(s.phase, t.phase) <= Distance(s) + Distance(t)

Fresh(s) == now - s.accepted <= RefAge

Candidate(k, i) ==
    LET s == k.source[i] IN
    /\ s.endpoint # 0 /\ s.online /\ s.reach > 0 /\ ~s.denied /\ s.synced /\ Valid(s)
    /\ i = Ref => Fresh(s)
    /\ Distance(s) <= MaxDistance

Candidates(k) == {i \in Sources : Candidate(k, i)}

Contradicted(k, c) ==
    /\ k.refOn /\ Valid(k.source[Ref]) /\ Fresh(k.source[Ref])
    /\ \E i \in c \ {Ref} : ~Overlap(k.source[i], k.source[Ref])

Agreeing(k, s) == \A i, j \in s : Overlap(k.source[i], k.source[j])

Weight(s) == MapThenSumSet(LAMBDA i : 2 ^ i, s)

(* The largest sets of candidates whose intervals meet; the lowest mask wins. *)
Best(k, c) ==
    CHOOSE s \in SUBSET c :
        /\ Agreeing(k, s)
        /\ \A t \in SUBSET c : Agreeing(k, t) =>
               \/ Cardinality(t) < Cardinality(s)
               \/ Cardinality(t) = Cardinality(s) /\ Weight(s) <= Weight(t)

\* The largest set is followed, of however few.
BugMajority(k, c) ==
    IF c = {} THEN {} ELSE Best(k, c)

(* Fewer than half of the candidates are never followed.                     *)
Majority(k, c) ==
    IF c = {} \/ Cardinality(Best(k, c)) * 2 <= Cardinality(c) THEN {} ELSE Best(k, c)

Unselected(k) == [k EXCEPT !.selected = None]

-----------------------------------------------------------------------------
(* The clock's frequency: `freq' is what the rate in force rests on.          *)

FrequencyState(k) ==
    IF k.state \in {"selected", "quality"} /\ now >= k.ref.until THEN "expired" ELSE k.state

(* discipline(): a fresh network rate is weighed against the reference again. *)
Requalified(k) ==
    CASE FrequencyState(k) \in {"none", "expired", "disagreement"} -> k
      [] Apart(k.ref.rate, k.rate) > 2 -> [k EXCEPT !.state = "disagreement"]
      [] k.fine -> [k EXCEPT !.state = "quality"]
      [] OTHER  -> [k EXCEPT !.state = "selected", !.freq = {"reference"}]

\* A peer's newer sample renews the clock without one of the selected source.
BugDisciplined(k, b, r, f) ==
    IF b = k.selected /\ k.used = k.source[b].gen THEN [k EXCEPT !.sourceRaw = now]
    ELSE Requalified([k EXCEPT !.valid = TRUE, !.phase = k.source[b].phase,
                               !.root = Distance(k.source[b]), !.rate = r, !.fine = f,
                               !.freq = @ \union {"network"}, !.selected = b,
                               !.used = k.source[b].gen, !.update = now,
                               !.sourceRaw = k.source[b].accepted])

(* discipline(): only a change of source, or a new sample of the selected one, *)
(* moves the clock.  A combined peer's sample adds nothing to its freshness.   *)
Disciplined(k, b, r, f) ==
    IF b = k.selected /\ k.used = k.source[b].gen THEN k
    ELSE Requalified([k EXCEPT !.valid = TRUE, !.phase = k.source[b].phase,
                               !.root = Distance(k.source[b]), !.rate = r, !.fine = f,
                               !.freq = @ \union {"network"}, !.selected = b,
                               !.used = k.source[b].gen, !.update = now,
                               !.sourceRaw = k.source[b].accepted])

Rates == IF h.load.rates THEN {0, Wrong} ELSE {0}
Fineness == IF h.load.rates THEN BOOLEAN ELSE {TRUE}

(* The source kept, or a challenger whose score has grown.                    *)
Chosen(k, m) ==
    IF m = {} THEN {Unselected(k)}
    ELSE {Disciplined(k, b, r, f) : b \in m, r \in Rates, f \in Fineness}

Doubted(k) == IF Contradicted(k, Candidates(k)) THEN [k EXCEPT !.doubt = TRUE] ELSE k

Judged(k) == IF k.doubt THEN {Unselected(k)} ELSE Chosen(k, Majority(k, Candidates(k)))

(* select(): everything it may settle on.  A conflict with the GPS reference   *)
(* latches, and nothing is followed while it lasts.                          *)
Select(k) == Judged(Doubted(k))

-----------------------------------------------------------------------------
(* Sources.                                                                  *)

Calls == h.calls < h.load.calls
Called == h' = [h EXCEPT !.calls = @ + 1]

Set(k, i, s) == [k EXCEPT !.source[i] = s]

(* configure(): an endpoint serves one slot; a new one begins an empty history.*)
Configure(i, p) ==
    /\ e.source[i].endpoint # p /\ (Calls \/ e.source[i].endpoint = 0)
    /\ \A j \in Slots \ {i} : e.source[j].endpoint # p
    /\ \E w \in Select(Set(e, i, NoSource)) :
           e' = Set(w, i, [NoSource EXCEPT !.endpoint = p, !.online = e.online, !.due = now])
    /\ n' = [n EXCEPT !.epochs[i] = @ + 1]
    /\ h' = IF e.source[i].endpoint = 0 THEN h ELSE [h EXCEPT !.calls = @ + 1]
    /\ UNCHANGED <<net, now>>

Remove(i) ==
    /\ Calls /\ e.source[i].endpoint # 0
    /\ e' \in Select(Set(e, i, NoSource))
    /\ n' = [n EXCEPT !.epochs[i] = @ + 1]
    /\ Called /\ UNCHANGED <<net, now>>

\* A new association keeps the query that is under way.
BugRestarted(k, s) ==
    [NoSource EXCEPT !.endpoint = s.endpoint, !.online = k.online /\ s.endpoint # 0, !.due = now,
                     !.pending = s.pending, !.token = s.token, !.sent = s.sent]

Restarted(k, s) ==
    [NoSource EXCEPT !.endpoint = s.endpoint, !.online = k.online /\ s.endpoint # 0, !.due = now]

(* reset(), by reset_peer(): every association begins anew; the frequency and  *)
(* what is held against the reference stay.                                  *)
ResetPeer ==
    /\ Calls /\ \E i \in Slots : e.source[i].endpoint # 0
    /\ e' \in Select(Unselected([e EXCEPT
           !.source = [i \in DOMAIN @ |-> IF i \in Slots THEN Restarted(e, @[i]) ELSE @[i]]]))
    /\ n' = [n EXCEPT !.epochs = [i \in DOMAIN @ |-> @[i] + 1]]
    /\ Called /\ UNCHANGED <<net, now>>

(* cancel().                                                                 *)
Cancel(i) ==
    /\ Calls /\ e.source[i].pending
    /\ e' = [e EXCEPT !.source[i].pending = FALSE]
    /\ Called /\ UNCHANGED <<n, net, now>>

(* online(): the link.                                                       *)
Online(on) ==
    /\ Calls /\ e.online # on
    /\ e' \in Select([e EXCEPT !.online = on,
           !.source = [i \in DOMAIN @ |->
               IF i \in Slots
               THEN [@[i] EXCEPT !.online = on /\ e.source[i].endpoint # 0 /\ ~e.source[i].denied,
                                 !.pending = FALSE, !.due = IF on THEN now ELSE @]
               ELSE @[i]]])
    /\ Called /\ UNCHANGED <<n, net, now>>

Shifted(r) == (r * 2) % (2 ^ ReachBits)

Asked(s, t) == [s EXCEPT !.reach = Shifted(@), !.sent = now, !.token = t, !.pending = TRUE,
                         !.due = now + 1]

(* request(): each poll ages the reach register, and one that has run empty    *)
(* takes the source out of the choice.                                       *)
Request(i) ==
    /\ h.requests < h.load.requests
    /\ e.source[i].online /\ ~e.source[i].denied /\ now >= e.source[i].due
    /\ \E s \in {Asked(e.source[i], h.requests + 1)} :
           e' \in IF s.reach > 0 THEN {Set(e, i, s)} ELSE Select(Set(e, i, s))
    /\ net' = net \union {[slot |-> i, token |-> h.requests + 1, epoch |-> n.epochs[i]]}
    /\ h' = [h EXCEPT !.requests = @ + 1]
    /\ UNCHANGED <<n, now>>

Says(i) == IF i \in h.load.liars THEN Wrong ELSE 0

Reached(r) == r + 1 - (r % 2)

(* append() of a new sample.                                                 *)
Appended(s, phase, who) ==
    [s EXCEPT !.count = IF @ < h.load.samples THEN @ + 1 ELSE @, !.gen = @ + 1, !.phase = phase,
              !.accepted = now, !.seen = now, !.synced = TRUE, !.who = who, !.heard = TRUE,
              !.reach = Reached(@)]

\* Any reply the source was asked for will do.
BugMatches(s, p) == s.pending

(* The reply answers the query under way.                                     *)
Matches(s, p) == s.pending /\ s.token = p.token

(* receive(), of a reply that answers the query under way: every such reply    *)
(* consumes it.  A server that repeats its transmit timestamp adds nothing.    *)
Received(s, p, kind) ==
    CASE kind = "repeated" -> {Set(e, p.slot, s)}
      [] kind = "rate"     -> {Set(e, p.slot, [s EXCEPT !.due = now + 2])}
      [] kind = "denied"   -> Select(Set(e, p.slot, [s EXCEPT !.denied = TRUE, !.online = FALSE,
                                                             !.synced = FALSE]))
      [] kind = "unsynced" -> Select(Set(e, p.slot, [s EXCEPT !.synced = FALSE]))
      [] kind = "far"      -> {Set(e, p.slot, [s EXCEPT !.reach = Reached(@), !.heard = TRUE])}
      [] kind = "good"     -> Select(Set(e, p.slot, Appended(s, Says(p.slot), p.epoch)))

(* A reply that answers nothing is counted and changes nothing.                *)
Receive(p, kind) ==
    /\ Matches(e.source[p.slot], p)
    /\ kind = "repeated" => e.source[p.slot].heard
    /\ kind \in {"good", "repeated"} \/ Calls
    /\ e' \in Received([e.source[p.slot] EXCEPT !.pending = FALSE], p, kind)
    /\ h' = IF kind \in {"good", "repeated"} THEN h ELSE [h EXCEPT !.calls = @ + 1]
    /\ UNCHANGED <<n, net, now>>

-----------------------------------------------------------------------------
(* The GPS reference.                                                        *)

\* A reference enabled again takes its captures from the start.
BugReferenceClock(on) ==
    /\ Calls /\ e.refOn # on
    /\ e' \in Select([e EXCEPT !.refOn = on, !.doubt = FALSE, !.sequence = 0,
                               !.source[Ref] = [NoSource EXCEPT !.endpoint = IF on THEN 9 ELSE 0,
                                                                !.online = on]])
    /\ Called /\ UNCHANGED <<n, net, now>>

(* reference_clock(): the sequence that has been consumed outlives the policy. *)
ReferenceClock(on) ==
    /\ Calls /\ e.refOn # on
    /\ e' \in Select([e EXCEPT !.refOn = on, !.doubt = FALSE,
                               !.source[Ref] = [NoSource EXCEPT !.endpoint = IF on THEN 9 ELSE 0,
                                                                !.online = on]])
    /\ Called /\ UNCHANGED <<n, net, now>>

(* The receiver's next PPS edge, tagged with its second.                      *)
Capture ==
    /\ h.load.gps /\ e.capture.raw < now
    /\ e' = [e EXCEPT !.capture = [seq |-> @.seq + 1, raw |-> now]]
    /\ h' = [h EXCEPT !.eaten = 0]
    /\ UNCHANGED <<n, net, now>>

(* Peers that have a line of their own to compare with.                       *)
Comparable(k) ==
    {i \in Slots : /\ k.source[i].online /\ k.source[i].synced /\ Valid(k.source[i])
                   /\ Distance(k.source[i]) <= MaxDistance}

\* Silence counts as agreement.
BugCompared(k) ==
    IF ~Valid(k.source[Ref]) THEN k
    ELSE [k EXCEPT !.doubt = \E i \in Comparable(k) : ~Overlap(k.source[i], k.source[Ref])]

(* Only a comparison settles a conflict, one way or the other.                *)
Compared(k) ==
    IF ~Valid(k.source[Ref]) \/ Comparable(k) = {} THEN k
    ELSE [k EXCEPT !.doubt = \E i \in Comparable(k) : ~Overlap(k.source[i], k.source[Ref])]

(* observe_reference() of the capture at hand: once, and only while it is new. *)
(* After a gap the history begins again.                                     *)
ObserveReference(phase) ==
    /\ e.refOn /\ e.capture.seq > e.sequence
    /\ e.capture.raw = now
    /\ phase = 0 \/ Calls
    /\ \E s \in {IF e.source[Ref].count > 0 /\ now - e.source[Ref].accepted > Gap
                 THEN [NoSource EXCEPT !.endpoint = 9, !.online = TRUE] ELSE e.source[Ref]} :
           e' \in Select(Compared([e EXCEPT !.sequence = e.capture.seq,
                                            !.source[Ref] = Appended(s, phase, 0)]))
    /\ h' = [h EXCEPT !.eaten = @ + 1, !.calls = IF phase = 0 THEN @ ELSE @ + 1]
    /\ UNCHANGED <<n, net, now>>

-----------------------------------------------------------------------------
(* The local frequency reference.                                            *)

(* seed(): a retained rate serves only where no reference is known.            *)
Seed ==
    /\ Calls /\ h.load.rates /\ e.state = "none"
    /\ e' = [e EXCEPT !.freq = {"seed"}]
    /\ Called /\ UNCHANGED <<n, net, now>>

(* observe_frequency_reference(): it sets the rate and never the epoch.        *)
FrequencyReference(rate) ==
    /\ Calls /\ h.load.rates /\ e.ref.raw < now
    /\ \E k \in {[e EXCEPT !.ref = [raw |-> now, until |-> now + 1, rate |-> rate]]} :
           e' = IF e.update > 0 /\ Apart(rate, e.rate) > 2
                THEN [k EXCEPT !.state = "disagreement"]
                ELSE IF e.update > 0 /\ e.fine THEN [k EXCEPT !.state = "quality"]
                ELSE [k EXCEPT !.state = "selected", !.freq = {"reference"}]
    /\ Called /\ UNCHANGED <<n, net, now>>

(* retire_frequency_reference(): loss ends its freshness, no more.             *)
RetireReference ==
    /\ Calls /\ e.state # "none" /\ e.ref.until > now
    /\ e' = [e EXCEPT !.ref.until = now]
    /\ Called /\ UNCHANGED <<n, net, now>>

\* The correction stays when the trust it rests on is withdrawn.
BugClearReference ==
    /\ Calls /\ e.state # "none"
    /\ e' = [e EXCEPT !.ref.until = IF @ < now THEN @ ELSE now, !.state = "none"]
    /\ Called /\ UNCHANGED <<n, net, now>>

(* clear_frequency_reference(): the policy is withdrawn.                      *)
ClearReference ==
    /\ Calls /\ e.state # "none"
    /\ e' = [e EXCEPT !.ref.until = IF @ < now THEN @ ELSE now, !.state = "none",
                      !.freq = IF e.update > 0 THEN {"network"} ELSE {}]
    /\ Called /\ UNCHANGED <<n, net, now>>

-----------------------------------------------------------------------------
(* What the arbiter is given.                                                *)

(* tracking().synchronized.                                                  *)
Synchronized(k) ==
    /\ k.valid /\ k.selected # None /\ ~k.doubt
    /\ k.selected = Ref => now - k.sourceRaw <= RefAge
    /\ k.root + (now - k.update) <= MaxDistance

Right(k) == {i \in Candidates(k) : k.source[i].phase = 0}
MostRight(k) == 2 * Cardinality(Right(k)) >= Cardinality(Candidates(k))

(* NtpClient::apply(): poll(), then the model is handed on, unless sources     *)
(* contradict each other.                                                    *)
Models(k) == ~k.doubt /\ FrequencyState(k) # "disagreement" /\ Synchronized(k)

Apply ==
    /\ e' \in Select(e)
    /\ h' = [h EXCEPT !.wrong = @ \/ (Models(e') /\ e'.phase # 0 /\ MostRight(e'))]
    /\ UNCHANGED <<n, net, now>>

TickOn ==
    /\ now < h.load.ticks
    /\ now' = now + 1
    /\ UNCHANGED <<e, n, net, h>>

Next ==
    \/ \E i \in Slots : \/ \E p \in {i + 1, i + 2} : Configure(i, p)
                        \/ Remove(i) \/ Cancel(i) \/ Request(i)
    \/ \E p \in net, kind \in {"good", "repeated", "rate", "denied", "unsynced", "far"} :
           Receive(p, kind)
    \/ \E on \in BOOLEAN : Online(on) \/ ReferenceClock(on)
    \/ \E v \in {0, Wrong} : ObserveReference(v) \/ FrequencyReference(v)
    \/ ResetPeer \/ Capture \/ Seed \/ RetireReference \/ ClearReference \/ Apply \/ TickOn

Spec == Init /\ [][Next]_vars

-----------------------------------------------------------------------------
(* Properties.                                                               *)

(* A source's line rests on replies to queries of its own association: what    *)
(* arrives late for one that has been replaced or reset is never taken.       *)
SamplesOwned == \A i \in Slots : e.source[i].count > 0 => e.source[i].who = n.epochs[i]

(* The age of the time that is served is that of the selected source's own     *)
(* newest sample: neither a peer's sample, nor a repeated reply, renews it.    *)
SourceAgeExact == e.selected # None => e.sourceRaw = e.source[e.selected].seen

(* While at least half of the candidates are right, no model that is wrong is  *)
(* handed on: where the two sides are as many, none is.                       *)
MajorityServed == ~h.wrong

(* A PPS capture is consumed once, also when the reference is switched off and *)
(* on while it is still new.                                                 *)
CaptureOnce == h.eaten <= 1

(* Withdrawing trust in the frequency reference leaves no rate that rests on   *)
(* it, whatever was learned, lost or combined meanwhile.                      *)
TrustRemoved == e.state = "none" => "reference" \notin e.freq

(* A conflict with the GPS reference ends only by a new capture that a peer     *)
(* confirms, or with the reference's removal.                                 *)
DoubtStep ==
    (e.doubt /\ ~e'.doubt) =>
        \/ e.refOn # e'.refOn
        \/ e'.sequence > e.sequence /\ Comparable(e)' # {}
DoubtHeld == [][DoubtStep]_vars

(* A model rests on samples that belong to it: of the source's own present     *)
(* association, of their own age, each used once.                            *)
EvidenceSound == SamplesOwned /\ SourceAgeExact /\ CaptureOnce

(* What is handed on is that of an honest majority, and nothing that has been   *)
(* withdrawn.                                                                *)
TrustSound == MajorityServed /\ TrustRemoved
=============================================================================
