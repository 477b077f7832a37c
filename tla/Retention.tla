------------------------------ MODULE Retention ------------------------------
(***************************************************************************)
(* The learning cache (standalone/ntp_retention.hpp): what NTP and GPS have *)
(* taught about the oscillator, staged while the device is busy, written      *)
(* seldom, and read back at boot as a provisional seed.                      *)
(*                                                                         *)
(* A learned value is a rate, whether it is finely known, and the erasure it   *)
(* was learned after; two rates differ enough to be written when they are     *)
(* Step apart.  Encoding, provenance and the legacy RF prior are left out.     *)
(***************************************************************************)
EXTENDS Naturals, Integers

CONSTANTS Rates,     \* rates either source may learn
          Step,      \* rates so far apart are a meaningful change
          Cooldown,  \* ticks between automatic writes
          MaxLearn,  \* values learned, in all
          MaxFaults  \* power cuts, flash errors and erasures, in all

VARIABLES m, flash, h

vars == <<m, flash, h>>

NoValue == [rate |-> -1, fine |-> FALSE, era |-> -1]
NoRecord == [utc |-> NoValue, gps |-> NoValue]

Kept(r) == r # NoRecord

(* load(): a torn write falls back to the record before it; data of another    *)
(* device or layout is neither used nor replaced.                            *)
Loaded(f) ==
    [record |-> IF f.kind = "ours" THEN f.rec ELSE NoRecord, pending |-> NoRecord,
     healthy |-> f.kind \in {"ours", "blank"}, wait |-> 0]

Init ==
    /\ flash \in {[kind |-> k, rec |-> NoRecord] : k \in {"blank", "foreign"}}
    /\ m = Loaded(flash)
    /\ h = [era |-> 0, utc |-> NoValue, gps |-> NoValue, learned |-> 0, faults |-> 0]

Apart(a, b) == IF a < b THEN b - a ELSE a - b

(* Staging adds to what is pending, else to what is saved.                    *)
BugBase == m.record

Base == IF Kept(m.pending) THEN m.pending ELSE m.record

Learns == h.learned < MaxLearn
Value(rate, fine) == [rate |-> rate, fine |-> fine, era |-> h.era]

(* stage(): NTP's rate.                                                      *)
Stage(rate, fine) ==
    /\ Learns /\ m.healthy
    /\ m' = [m EXCEPT !.pending = [Base EXCEPT !.utc = Value(rate, fine)]]
    /\ h' = [h EXCEPT !.learned = @ + 1, !.utc = Value(rate, fine)]
    /\ UNCHANGED flash

(* stage_gps(): the first thing learned also seeds UTC, broadly.              *)
StageGps(rate, fine) ==
    /\ Learns /\ m.healthy
    /\ m' = [m EXCEPT !.pending =
           [utc |-> IF Kept(Base) THEN Base.utc ELSE Value(rate, FALSE),
            gps |-> Value(rate, fine)]]
    /\ h' = [h EXCEPT !.learned = @ + 1, !.gps = Value(rate, fine),
                      !.utc = IF Kept(Base) THEN @ ELSE Value(rate, FALSE)]
    /\ UNCHANGED flash

Moved(new, old) == Apart(new.rate, old.rate) >= Step \/ (new.fine /\ ~old.fine)

(* A first value, a change of rate, or one known twice as finely.             *)
Changed ==
    \/ ~Kept(m.record)
    \/ Moved(m.pending.utc, m.record.utc)
    \/ m.pending.gps.rate # -1 /\ Moved(m.pending.gps, m.record.gps)

(* flush(), called only while the device is idle: what adds nothing is         *)
(* dropped; too soon after a write it waits; a write that fails ends writing.  *)
FlushDrops ==
    /\ m.healthy /\ Kept(m.pending) /\ ~Changed
    /\ m' = [m EXCEPT !.pending = NoRecord]
    /\ UNCHANGED <<flash, h>>

Writes == m.healthy /\ Kept(m.pending) /\ Changed /\ m.wait = 0

FlushWrites ==
    /\ Writes
    /\ flash' = [kind |-> "ours", rec |-> m.pending]
    /\ m' = [m EXCEPT !.record = m.pending, !.pending = NoRecord, !.wait = Cooldown]
    /\ UNCHANGED h

Faults == h.faults < MaxFaults
Faulted == [h EXCEPT !.faults = @ + 1]

FlushFails ==
    /\ Writes /\ Faults
    /\ \E written \in BOOLEAN :
           flash' = IF written THEN [kind |-> "ours", rec |-> m.pending] ELSE flash
    /\ m' = [m EXCEPT !.healthy = FALSE]
    /\ h' = Faulted

(* Power is cut and the device boots; a cut may tear the write under way, and   *)
(* a torn write with nothing before it is not ours to use.                    *)
Reboot ==
    /\ Faults
    /\ \/ UNCHANGED flash
       \/ Writes /\ flash.kind = "blank" /\ flash' = [flash EXCEPT !.kind = "torn"]
       \/ Writes /\ flash' = [kind |-> "ours", rec |-> m.pending]
    /\ m' = Loaded(flash')
    /\ h' = [Faulted EXCEPT !.utc = m'.record.utc, !.gps = m'.record.gps]

\* What was staged survives the erasure.
BugErased(f) == [Loaded(f) EXCEPT !.pending = m.pending]

Erased(f) == Loaded(f)

(* erase(): the factory reset forgets what was learned, also in RAM.  The next  *)
(* era begins when it reports that nothing is left.                           *)
Erase ==
    /\ Faults
    /\ flash' = [kind |-> "blank", rec |-> NoRecord]
    /\ m' = Erased(flash')
    /\ h' = [Faulted EXCEPT !.era = @ + 1, !.utc = NoValue, !.gps = NoValue]

(* A sector that does not erase leaves what it holds; nothing is written then.  *)
EraseFails ==
    /\ Faults
    /\ m' = [record |-> NoRecord, pending |-> NoRecord, healthy |-> FALSE, wait |-> 0]
    /\ h' = [Faulted EXCEPT !.utc = NoValue, !.gps = NoValue]
    /\ UNCHANGED flash

Tick ==
    /\ m.wait > 0
    /\ m' = [m EXCEPT !.wait = @ - 1]
    /\ UNCHANGED <<flash, h>>

Next ==
    \/ \E rate \in Rates, fine \in BOOLEAN : Stage(rate, fine) \/ StageGps(rate, fine)
    \/ FlushDrops \/ FlushWrites \/ FlushFails \/ Reboot \/ Erase \/ EraseFails \/ Tick

Spec == Init /\ [][Next]_vars

-----------------------------------------------------------------------------
(* Properties.                                                               *)

Near(last, kept) == last.rate = -1 \/ ~Moved(last, kept)

(* Neither learner's newest value is lost to the other's, to a write that      *)
(* waits, or to one that was judged too small a change.                       *)
LearnersKept == m.healthy => Near(h.utc, Base.utc) /\ Near(h.gps, Base.gps)

(* What a factory reset erased comes back neither from RAM nor from a later     *)
(* write.                                                                    *)
ErasedForgotten ==
    \A r \in {m.record, m.pending, flash.rec} :
        Kept(r) => r.utc.era = h.era /\ r.gps.era \in {-1, h.era}

(* The cache holds the newest that both learners know, and nothing erased.     *)
LearningKept == LearnersKept /\ ErasedForgotten
=============================================================================
