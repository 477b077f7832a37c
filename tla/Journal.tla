-------------------------------- MODULE Journal --------------------------------
(***************************************************************************)
(* The flash journal of standalone/storage.cpp, as its Store uses it: two  *)
(* banks (flash sectors) of SlotsPerBank records. append() writes the next *)
(* record and verifies it, erasing the other bank when the current one is  *)
(* full; purge_history() copies the newest record to the other bank and    *)
(* erases the rest; load() reads everything. Power may be lost at any      *)
(* moment; a flash operation may fail, and then has happened in part.      *)
(*                                                                         *)
(* A slot is erased, torn (neither erased nor a valid record) or holds a   *)
(* whole record. healthy is Store::healthy_: a failure of append clears    *)
(* it in the journal and in the store, one of purge_history in the store.  *)
(***************************************************************************)
EXTENDS Naturals

CONSTANTS
    Data, NoData,   \* payloads
    SlotsPerBank,   \* 4096 / size_
    MaxSeq          \* the largest sequence number

\* NoData is what a journal without a record holds.
ASSUME JournalAssumption ==
    NoData \notin Data /\ SlotsPerBank \in Nat \ {0} /\ MaxSeq \in Nat

VARIABLES
    slots,    \* the flash
    pc,       \* "off", "idle", or the flash operation that is due: "erase",
              \* "program", "verify", "clean", "confirm"
    purging,  \* the operation is purge_history
    goal,     \* the offset it writes
    writing,  \* the payload it writes, or NoData
    healthy, seq, latest, data   \* healthy_, sequence_, latest_, data_

ram == <<healthy, seq, latest, data>>
operation == <<pc, purging, goal, writing>>
vars == <<slots, operation, ram>>

Index == 0 .. 2 * SlotsPerBank - 1
First(b) == b * SlotsPerBank
BankOf(k) == IF k < SlotsPerBank THEN 0 ELSE 1
Other(k) == 1 - BankOf(k)

Erased == [kind |-> "erased", seq |-> 0, data |-> NoData]
Torn == [kind |-> "torn", seq |-> 0, data |-> NoData]
Slots == {Erased, Torn} \cup [kind: {"whole"}, seq: 1..MaxSeq, data: Data]

Whole(s) == {k \in Index : s[k].kind = "whole"}

\* The newest whole record, and what it holds.
Newest(s) == CHOOSE k \in Whole(s) : \A j \in Whole(s) : s[j].seq <= s[k].seq
Value(s) == IF Whole(s) = {} THEN NoData ELSE s[Newest(s)].data

Init ==
    /\ slots = [k \in Index |-> Erased]
    /\ pc = "off" /\ purging = FALSE /\ goal = 0 /\ writing = NoData
    /\ healthy = FALSE /\ seq = 0 /\ latest = 0 /\ data = NoData

-------------------------------------------------------------------------------
(* load *)

\* A record equal to the newest before it; older repetitions go unnoticed.
Repeats(s) ==
    \E j, k \in Whole(s) : /\ j < k /\ s[j].seq = s[k].seq
                           /\ \A i \in Whole(s) : i < k => s[i].seq <= s[k].seq

HasTorn(s) == \E k \in Index : s[k] = Torn

Loadable(s, recovery) ==
    /\ ~Repeats(s)
    /\ HasTorn(s) => recovery /\ Whole(s) # {}

\* The result of load, which may also fail to read.
Load(recovery) ==
    \/ /\ Loadable(slots, recovery) /\ healthy' = TRUE /\ data' = Value(slots)
       /\ IF Whole(slots) = {} THEN seq' = 0 /\ latest' = 0
          ELSE latest' = Newest(slots) /\ seq' = slots[latest'].seq
    \/ healthy' = FALSE /\ seq' = 0 /\ latest' = 0 /\ data' = NoData

Rest == pc' = "idle" /\ purging' = FALSE /\ goal' = 0 /\ writing' = NoData

Boot == pc = "off" /\ Load(FALSE) /\ Rest /\ UNCHANGED slots

\* A provisioning reset loads an unhealthy store past torn records.
Recover == pc = "idle" /\ ~healthy /\ Load(TRUE) /\ UNCHANGED <<slots, operation>>

\* A failure: no further write before the next load.
Fault == healthy' = FALSE /\ Rest /\ UNCHANGED <<seq, latest, data>>

-------------------------------------------------------------------------------
(* append and purge_history *)

Bank == IF seq = 0 THEN 0 ELSE BankOf(latest)

\* (Operators named Bug... are plausible faults of the definition after them.)
BugFree == {k \in Index : BankOf(k) = Bank /\ (seq = 0 \/ k > latest)}

\* Erased slots behind the newest record, in its bank.
Free == {k \in Index : BankOf(k) = Bank /\ (seq = 0 \/ k > latest) /\ slots[k] = Erased}

BugAppend(d) ==
    /\ pc = "idle" /\ healthy
    /\ \/ /\ writing' = d /\ purging' = FALSE
          /\ IF Free = {} THEN pc' = "erase" /\ goal' = First(1 - Bank)
             ELSE /\ pc' = "program"
                  /\ goal' \in Free /\ \A k \in Free : goal' <= k
          /\ UNCHANGED ram
       \/ Fault
    /\ UNCHANGED slots

\* Refused at the last sequence number, which also makes the store unhealthy, as
\* does a slot that cannot be read.
Append(d) ==
    /\ pc = "idle" /\ healthy
    /\ \/ /\ seq < MaxSeq /\ writing' = d /\ purging' = FALSE
          /\ IF Free = {} THEN pc' = "erase" /\ goal' = First(1 - Bank)
             ELSE /\ pc' = "program"
                  /\ goal' \in Free /\ \A k \in Free : goal' <= k
          /\ UNCHANGED ram
       \/ Fault
    /\ UNCHANGED slots

BugPurge ==
    /\ pc = "idle" /\ healthy
    /\ \/ /\ seq # 0 /\ seq < MaxSeq
          /\ writing' = data /\ purging' = TRUE /\ goal' = First(Other(latest))
          /\ pc' = IF slots[goal'] = Erased THEN "program" ELSE "erase"
          /\ UNCHANGED ram
       \/ Fault
    /\ UNCHANGED slots

\* Refused without a record or a configuration in it, and at the limit.
Purge ==
    /\ pc = "idle" /\ healthy
    /\ \/ /\ seq # 0 /\ seq < MaxSeq
          /\ writing' = data /\ purging' = TRUE /\ goal' = First(Other(latest))
          /\ pc' = "erase" /\ UNCHANGED ram
       \/ Fault
    /\ UNCHANGED slots

\* An erase of bank b that is complete, and what one may leave that is not.
Wiped(b) == [k \in Index |-> IF BankOf(k) = b THEN Erased ELSE slots[k]]
PartlyWiped(b) ==
    {[k \in Index |-> CASE BankOf(k) = b /\ f[k] = "gone" -> Erased
                        [] BankOf(k) = b /\ f[k] = "torn" -> Torn
                        [] OTHER -> slots[k]] : f \in [Index -> {"gone", "torn", "same"}]}

Erase ==
    /\ pc = "erase"
    /\ \/ /\ slots' = Wiped(BankOf(goal)) /\ pc' = "program"
          /\ UNCHANGED <<purging, goal, writing, ram>>
       \/ slots' \in PartlyWiped(BankOf(goal)) /\ Fault

BugRecord == [kind |-> "whole", seq |-> IF purging THEN seq ELSE seq + 1, data |-> writing]

Record == [kind |-> "whole", seq |-> seq + 1, data |-> writing]

\* What programming may leave. Only an erased slot can take a record.
Programmed ==
    {[slots EXCEPT ![goal] = t] :
        t \in IF slots[goal] = Erased THEN {Erased, Torn, Record} ELSE {Torn}}

Program ==
    /\ pc = "program" /\ slots' \in Programmed
    /\ \/ pc' = "verify" /\ UNCHANGED <<purging, goal, writing, ram>>
       \/ Fault

BugVerify ==
    /\ pc = "verify"
    /\ \/ /\ latest' = goal /\ seq' = seq + 1 /\ data' = writing /\ UNCHANGED healthy
          /\ IF purging
             THEN pc' = "clean" /\ writing' = NoData /\ UNCHANGED <<purging, goal>>
             ELSE Rest
       \/ Fault
    /\ UNCHANGED slots

Verify ==
    /\ pc = "verify"
    /\ \/ /\ slots[goal] = Record
          /\ latest' = goal /\ seq' = seq + 1 /\ data' = writing /\ UNCHANGED healthy
          /\ IF purging
             THEN pc' = "clean" /\ writing' = NoData /\ UNCHANGED <<purging, goal>>
             ELSE Rest
       \/ Fault
    /\ UNCHANGED slots

\* purge_history erases the bank it came from, reads it back and loads again.
Clean ==
    /\ pc = "clean"
    /\ \/ /\ slots' = Wiped(Other(latest)) /\ pc' = "confirm"
          /\ UNCHANGED <<purging, goal, writing, ram>>
       \/ slots' \in PartlyWiped(Other(latest)) /\ Fault

Confirm ==
    /\ pc = "confirm"
    /\ \/ /\ \A k \in Index : BankOf(k) = Other(latest) => slots[k] = Erased
          /\ Load(FALSE) /\ Rest
       \/ Fault
    /\ UNCHANGED slots

\* Power is lost; the operation that is due may have happened in part.
Cut ==
    /\ pc # "off"
    /\ CASE pc = "erase"   -> slots' \in PartlyWiped(BankOf(goal))
         [] pc = "program" -> slots' \in Programmed
         [] pc = "clean"   -> slots' \in PartlyWiped(Other(latest))
         [] OTHER          -> UNCHANGED slots
    /\ pc' = "off" /\ purging' = FALSE /\ goal' = 0 /\ writing' = NoData
    /\ healthy' = FALSE /\ seq' = 0 /\ latest' = 0 /\ data' = NoData

Next ==
    \/ Boot \/ Recover \/ (\E d \in Data : Append(d)) \/ Purge
    \/ Erase \/ Program \/ Verify \/ Clean \/ Confirm \/ Cut

Spec == Init /\ [][Next]_vars

-------------------------------------------------------------------------------
(* Properties. *)

\* Every variable has its type; the sequence number stays below its limit.
TypeOK ==
    /\ slots \in [Index -> Slots]
    /\ pc \in {"off", "idle", "erase", "program", "verify", "clean", "confirm"}
    /\ purging \in BOOLEAN /\ goal \in Index /\ writing \in Data \cup {NoData}
    /\ healthy \in BOOLEAN /\ seq \in 0..MaxSeq /\ latest \in Index
    /\ data \in Data \cup {NoData}

\* No two records ever carry the same sequence number: load() finds a newest one,
\* and refuses a flash only for a torn record.
SequencesDistinct ==
    \A j, k \in Whole(slots) : slots[j].seq = slots[k].seq => j = k

\* append() and purge_history() program erased slots only, also behind torn
\* records that a recovery skipped.
ProgramsErased == pc = "program" => slots[goal] = Erased

\* A purge that reports success has left the current record and nothing else.
PurgeComplete ==
    [][pc = "confirm" /\ healthy' => \A k \in Index \ {latest'} : slots'[k] = Erased]_vars

\* The flash holds one newest record at all times, and erased flash only is
\* programmed.
FlashSound == SequencesDistinct /\ ProgramsErased

\* The journal implements a durable register: a save is atomic under loss of
\* power and flash faults, and nothing older ever comes back.
Register == INSTANCE DurableRegister WITH
    value   <- Value(slots),
    up      <- healthy,
    seen    <- IF healthy THEN data ELSE NoData,
    pending <- IF purging THEN NoData ELSE writing
Durable == Register!Spec
===============================================================================
