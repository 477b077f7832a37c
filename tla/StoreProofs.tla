------------------------------ MODULE StoreProofs ------------------------------
(***************************************************************************)
(* The journal of two banks is sound whatever the number of its slots, and *)
(* implements an atomic durable register: for every operation that is cut  *)
(* short by a fault or by the loss of power, in any order. The cache of    *)
(* learned clock rates loses nothing but what was erased (last part).      *)
(*                                                                         *)
(* The argument about the journal rests on what an operation knows of the  *)
(* flash while it runs (Sound): the record in memory is the newest one on  *)
(* flash (Known), what is erased lies in the other bank (Aimed), and a     *)
(* purge has cleared the bank it moves to before it clears the one it came *)
(* from (Cleared).                                                         *)
(***************************************************************************)
EXTENDS MCStore, WellFoundedInduction, TLAPS

\* Two whole records of s with one sequence number are the same record.
Distinct(s) == \A j, k \in Whole(s) : s[j].seq = s[k].seq => j = k

\* No record of s is newer than the one at k.
Top(s, k) == k \in Whole(s) /\ \A j \in Whole(s) : s[j].seq <= s[k].seq

\* The records, without one that is being verified.
Settled == {k \in Whole(slots) : pc = "verify" => k # goal}

\* A healthy journal has the newest record in memory, or there is none.
Known ==
    healthy =>
        /\ seq = 0 => Settled = {} /\ data = NoData
        /\ seq = 0 /\ pc = "idle" => \A k \in Index : slots[k] = Erased
        /\ seq # 0 => latest \in Settled /\ slots[latest].seq = seq /\ slots[latest].data = data
        /\ \A k \in Settled : slots[k].seq <= seq

\* Between two operations nothing is due; an operation runs on a healthy journal
\* and has a sequence number left.
Due ==
    /\ pc \in {"off", "idle"} => writing = NoData /\ ~purging
    /\ pc \notin {"off", "idle"} => healthy
    /\ pc \in {"erase", "program", "verify"} => writing \in Data /\ seq < MaxSeq
    /\ pc \in {"clean", "confirm"} => purging /\ writing = NoData
    /\ purging => seq # 0 /\ (pc \in {"erase", "program", "verify"} => writing = data)

\* An operation erases the bank that does not hold the newest record, programs an
\* erased slot, and verifies what that may have left.
Aimed ==
    /\ pc = "erase" => seq # 0 /\ BankOf(goal) = Other(latest) /\ goal = First(Other(latest))
    /\ pc = "program" => slots[goal] = Erased
    /\ pc = "verify" => slots[goal] \in {Erased, Torn, Record}

\* The bank a purge moves to holds nothing else.
Cleared ==
    /\ purging /\ pc \in {"program", "verify"} =>
        /\ BankOf(goal) = Other(latest)
        /\ \A k \in Index : BankOf(k) = BankOf(goal) /\ k # goal => slots[k] = Erased
    /\ pc \in {"clean", "confirm"} =>
        \A k \in Index : BankOf(k) = BankOf(latest) /\ k # latest => slots[k] = Erased

\* The inductive invariant.
Sound == TypeOK /\ SequencesDistinct /\ Known /\ Due /\ Aimed /\ Cleared

-------------------------------------------------------------------------------
(* Banks, slots and the newest record. *)

\* t is s after an erase of bank b, complete or not.
Lost(s, t, b) ==
    /\ t \in [Index -> Slots]
    /\ \A k \in Index : t[k] = s[k] \/ (BankOf(k) = b /\ t[k] \in {Erased, Torn})

\* There are two banks, and each has a first slot.
LEMMA Banks ==
    /\ \A b \in {0, 1} : First(b) \in Index /\ BankOf(First(b)) = b
    /\ \A k \in Index : BankOf(k) \in {0, 1} /\ Other(k) \in {0, 1} /\ Other(k) # BankOf(k)
<1>1. SlotsPerBank \in Nat /\ SlotsPerBank >= 1
  BY JournalAssumption
<1>2. First(0) = 0 /\ First(1) = SlotsPerBank
  BY <1>1 DEF First
<1>3. 0 \in Index /\ SlotsPerBank \in Index
  BY <1>1 DEF Index
<1>4. BankOf(0) = 0 /\ BankOf(SlotsPerBank) = 1
  BY <1>1 DEF BankOf
<1>5. \A k \in Index : BankOf(k) \in {0, 1}
  BY DEF BankOf
<1> QED
  BY <1>2, <1>3, <1>4, <1>5 DEF Other

\* The three states of a slot.
LEMMA SlotKinds ==
    /\ Erased \in Slots /\ Torn \in Slots /\ Erased # Torn
    /\ Erased.kind # "whole" /\ Torn.kind # "whole"
    /\ \A e \in Slots : e.kind = "whole" => e.seq \in 1..MaxSeq /\ e.data \in Data
BY DEF Erased, Torn, Slots

\* The newest record is the one no other is newer than, where sequence numbers
\* are distinct.
LEMMA NewestIs ==
    ASSUME NEW s \in [Index -> Slots], NEW k, Top(s, k), Distinct(s)
    PROVE  Newest(s) = k /\ Value(s) = s[k].data
<1>1. k \in Whole(s) /\ \A j \in Whole(s) : s[j].seq <= s[k].seq
  BY DEF Top
<1>2. Newest(s) \in Whole(s) /\ \A j \in Whole(s) : s[j].seq <= s[Newest(s)].seq
  BY <1>1 DEF Newest
<1>3. \A j \in Whole(s) : s[j].seq \in Int
  BY SlotKinds DEF Whole
<1>4. s[Newest(s)].seq = s[k].seq
  BY <1>1, <1>2, <1>3
<1>5. Newest(s) = k
  BY <1>1, <1>2, <1>4 DEF Distinct
<1> QED
  BY <1>1, <1>5 DEF Value

\* Where there is a record, there is one that no other is newer than.
LEMMA TopExists ==
    ASSUME NEW s \in [Index -> Slots], Whole(s) # {}
    PROVE  \E k \in Whole(s) : Top(s, k)
<1> DEFINE Left(k) == MaxSeq - s[k].seq
<1> DEFINE T == {Left(k) : k \in Whole(s)}
<1>1. \A k \in Whole(s) : s[k].seq \in 1..MaxSeq
  BY SlotKinds DEF Whole
<1>2. \A k \in Whole(s) : Left(k) \in Nat
  BY <1>1, JournalAssumption
<1>3. T \subseteq Nat /\ T # {}
  BY <1>2
<1>4. IsWellFoundedOn(OpToRel(<, Nat), Nat)
  BY NatLessThanWellFounded
<1>5. PICK x \in T : \A y \in T : ~(<<y, x>> \in OpToRel(<, Nat))
  BY <1>3, <1>4, WFMin
<1>6. \A y \in T : ~(y < x)
  BY <1>3, <1>5 DEF OpToRel
<1>7. PICK k \in Whole(s) : x = Left(k)
  BY <1>5
<1>8. ASSUME NEW j \in Whole(s) PROVE s[j].seq <= s[k].seq
  <2>1. Left(j) \in T
    OBVIOUS
  <2>2. ~(Left(j) < Left(k))
    BY <1>6, <1>7, <2>1
  <2> QED
    BY <1>1, <1>7, <2>2, JournalAssumption
<1> QED
  BY <1>7, <1>8 DEF Top

\* So the newest record is one of them.
LEMMA NewestTop ==
    ASSUME NEW s \in [Index -> Slots], Whole(s) # {}
    PROVE  Top(s, Newest(s))
<1>1. \E k \in Whole(s) : \A j \in Whole(s) : s[j].seq <= s[k].seq
  BY TopExists DEF Top
<1> QED
  BY <1>1 DEF Newest, Top

\* An erase takes records away and adds none.
LEMMA LostWhole ==
    ASSUME NEW s \in [Index -> Slots], NEW t, NEW b, Lost(s, t, b)
    PROVE  /\ \A k \in Whole(t) : k \in Whole(s) /\ t[k] = s[k]
           /\ \A k \in Whole(s) : BankOf(k) # b => k \in Whole(t) /\ t[k] = s[k]
           /\ Distinct(s) => Distinct(t)
<1>1. \A k \in Whole(t) : k \in Whole(s) /\ t[k] = s[k]
  BY SlotKinds DEF Whole, Lost
<1>2. \A k \in Whole(s) : BankOf(k) # b => k \in Whole(t) /\ t[k] = s[k]
  BY DEF Whole, Lost
<1>3. Distinct(s) => Distinct(t)
  BY <1>1 DEF Distinct
<1> QED
  BY <1>1, <1>2, <1>3

\* An erase of the bank that does not hold the newest record keeps the value.
LEMMA LostKeeps ==
    ASSUME NEW s \in [Index -> Slots], NEW t, NEW b, Lost(s, t, b), Distinct(s),
           NEW k, Top(s, k), BankOf(k) # b
    PROVE  Top(t, k) /\ t[k] = s[k] /\ Value(t) = Value(s)
<1>1. Top(t, k) /\ t[k] = s[k]
  BY LostWhole DEF Top
<1>2. Value(s) = s[k].data
  BY NewestIs
<1>3. t \in [Index -> Slots] /\ Distinct(t)
  BY LostWhole DEF Lost
<1>4. Value(t) = t[k].data
  BY <1>1, <1>3, NewestIs
<1> QED
  BY <1>1, <1>2, <1>4

\* What Wiped and PartlyWiped leave.
LEMMA WipedLost ==
    ASSUME TypeOK, NEW b
    PROVE  /\ Lost(slots, Wiped(b), b)
           /\ \A k \in Index : BankOf(k) = b => Wiped(b)[k] = Erased
           /\ \A k \in Index : BankOf(k) # b => Wiped(b)[k] = slots[k]
           /\ \A t \in PartlyWiped(b) : Lost(slots, t, b)
<1>1. slots \in [Index -> Slots]
  BY DEF TypeOK
<1>2. /\ \A k \in Index : BankOf(k) = b => Wiped(b)[k] = Erased
      /\ \A k \in Index : BankOf(k) # b => Wiped(b)[k] = slots[k]
  BY DEF Wiped
<1>3. Wiped(b) \in [Index -> Slots]
  BY <1>1, SlotKinds DEF Wiped
<1>4. ASSUME NEW t \in PartlyWiped(b) PROVE Lost(slots, t, b)
  <2>1. PICK f \in [Index -> {"gone", "torn", "same"}] :
          t = [k \in Index |-> CASE BankOf(k) = b /\ f[k] = "gone" -> Erased
                                 [] BankOf(k) = b /\ f[k] = "torn" -> Torn
                                 [] OTHER -> slots[k]]
    BY DEF PartlyWiped
  <2>2. \A k \in Index : t[k] = slots[k] \/ (BankOf(k) = b /\ t[k] \in {Erased, Torn})
    BY <2>1
  <2>3. t \in [Index -> Slots]
    BY <1>1, <2>1, <2>2, SlotKinds
  <2> QED
    BY <2>2, <2>3 DEF Lost
<1> QED
  BY <1>2, <1>3, <1>4 DEF Lost

-------------------------------------------------------------------------------
(* Every operation keeps Sound. *)

\* At rest and after a load or a fault nothing is due.
Resting == pc \in {"off", "idle"} /\ purging = FALSE /\ goal \in Index /\ writing = NoData

\* Initially the flash is erased and the device is off.
LEMMA SoundInit == Init => Sound
<1> SUFFICES ASSUME Init PROVE Sound
  OBVIOUS
<1>1. 0 \in Index /\ 0 \in 0..MaxSeq
  BY JournalAssumption DEF Index
<1>2. TypeOK
  BY <1>1, SlotKinds DEF TypeOK, Init
<1>3. Whole(slots) = {}
  BY SlotKinds DEF Init, Whole
<1>4. SequencesDistinct
  BY <1>3 DEF SequencesDistinct
<1> QED
  BY <1>2, <1>4 DEF Sound, Known, Due, Aimed, Cleared, Init

\* A fault or a cut keeps the invariant if the records stay distinct.
LEMMA DownSound ==
    ASSUME slots' \in [Index -> Slots], Distinct(slots'), Resting', healthy' = FALSE,
           seq' \in 0..MaxSeq, latest' \in Index, data' \in Data \cup {NoData}
    PROVE  Sound'
<1>1. TypeOK'
  BY DEF TypeOK, Resting
<1>2. SequencesDistinct'
  BY DEF SequencesDistinct, Distinct, Whole
<1> QED
  BY <1>1, <1>2 DEF Sound, Known, Due, Aimed, Cleared, Resting

\* A load finds the newest record.
LEMMA LoadSound ==
    ASSUME TypeOK, SequencesDistinct, NEW r, Load(r), slots' = slots, Resting'
    PROVE  Sound'
<1>1. slots \in [Index -> Slots]
  BY DEF TypeOK
<1>2. Distinct(slots)
  BY DEF SequencesDistinct, Distinct
<1>3. CASE healthy' = FALSE /\ seq' = 0 /\ latest' = 0 /\ data' = NoData
  <2>1. 0 \in Index /\ 0 \in 0..MaxSeq
    BY JournalAssumption DEF Index
  <2> QED
    BY <1>1, <1>2, <1>3, <2>1, DownSound
<1>4. CASE /\ Loadable(slots, r) /\ healthy' = TRUE /\ data' = Value(slots)
           /\ IF Whole(slots) = {} THEN seq' = 0 /\ latest' = 0
              ELSE latest' = Newest(slots) /\ seq' = slots[latest'].seq
  <2>1. Whole(slots)' = Whole(slots)
    BY DEF Whole
  <2>2. Settled' \subseteq Whole(slots) /\ Whole(slots) \subseteq Settled'
    BY <2>1 DEF Settled, Resting
  <2>3. SequencesDistinct'
    BY <2>1 DEF SequencesDistinct
  <2>4. CASE Whole(slots) = {}
    <3>1. seq' = 0 /\ latest' = 0 /\ data' = NoData
      BY <1>4, <2>4 DEF Value
    <3>2. 0 \in Index /\ 0 \in 0..MaxSeq
      BY JournalAssumption DEF Index
    <3>3. TypeOK'
      BY <1>1, <1>4, <3>1, <3>2 DEF TypeOK, Resting
    <3>4. \A k \in Index : slots[k] = Erased
      BY <1>1, <1>4, <2>4 DEF Loadable, HasTorn, Whole, Slots
    <3>5. Known'
      BY <2>2, <2>4, <3>1, <3>4 DEF Known
    <3> QED
      BY <2>3, <3>3, <3>5 DEF Sound, Due, Aimed, Cleared, Resting
  <2>5. CASE Whole(slots) # {}
    <3>1. Top(slots, Newest(slots))
      BY <1>1, <2>5, NewestTop
    <3>2. latest' = Newest(slots) /\ seq' = slots[latest'].seq
      BY <1>4, <2>5
    <3>3. latest' \in Whole(slots) /\ latest' \in Index
      BY <3>1, <3>2 DEF Top, Whole
    <3>4. data' = slots[latest'].data
      BY <1>4, <2>5, <3>2 DEF Value
    <3>5. slots[latest'].seq \in 1..MaxSeq /\ slots[latest'].data \in Data
      BY <1>1, <3>3, SlotKinds DEF Whole
    <3>6. TypeOK'
      <4>1. seq' \in 0..MaxSeq
        BY <3>2, <3>5
      <4>2. data' \in Data
        BY <3>4, <3>5
      <4> QED
        BY <1>1, <1>4, <3>3, <4>1, <4>2 DEF TypeOK, Resting
    <3>7. \A k \in Whole(slots) : slots[k].seq <= seq'
      BY <3>1, <3>2 DEF Top
    <3>8. seq' # 0
      BY <3>2, <3>5
    <3>9. Known'
      BY <2>2, <3>2, <3>3, <3>4, <3>7, <3>8 DEF Known
    <3> QED
      BY <2>3, <3>6, <3>9 DEF Sound, Due, Aimed, Cleared, Resting
  <2> QED
    BY <2>4, <2>5
<1> QED
  BY <1>3, <1>4 DEF Load

\* A failed operation: what it has left on flash has distinct records.
LEMMA FaultSound ==
    ASSUME Sound, Fault, slots' \in [Index -> Slots], Distinct(slots')
    PROVE  Sound'
<1>1. 0 \in Index
  BY JournalAssumption DEF Index
<1>2. Resting'
  BY <1>1 DEF Resting, Fault, Rest
<1>3. healthy' = FALSE /\ seq' \in 0..MaxSeq /\ latest' \in Index /\ data' \in Data \cup {NoData}
  BY DEF Fault, Sound, TypeOK
<1> QED
  BY <1>2, <1>3, DownSound

\* While no record is being verified, a healthy journal knows the newest one.
LEMMA KnownTop ==
    ASSUME Sound, healthy, seq # 0
    PROVE  /\ latest \in Whole(slots) /\ slots[latest].seq = seq /\ slots[latest].data = data
           /\ data \in Data
           /\ pc = "verify" => goal # latest
           /\ pc # "verify" => Top(slots, latest) /\ Value(slots) = data
<1>1. latest \in Settled /\ slots[latest].seq = seq /\ slots[latest].data = data
  BY DEF Sound, Known
<1>2. latest \in Whole(slots) /\ (pc = "verify" => goal # latest)
  BY <1>1 DEF Settled
<1>3. slots \in [Index -> Slots]
  BY DEF Sound, TypeOK
<1>4. data \in Data
  BY <1>1, <1>2, <1>3, SlotKinds DEF Whole
<1>5. ASSUME pc # "verify" PROVE Top(slots, latest) /\ Value(slots) = data
  <2>1. \A k \in Whole(slots) : slots[k].seq <= seq
    BY <1>5 DEF Sound, Known, Settled
  <2>2. Top(slots, latest)
    BY <1>1, <1>2, <2>1 DEF Top
  <2>3. Distinct(slots)
    BY DEF Sound, SequencesDistinct, Distinct
  <2> QED
    BY <1>1, <1>3, <2>2, <2>3, NewestIs
<1> QED
  BY <1>1, <1>2, <1>4, <1>5

\* What programming leaves: at the goal an erased slot, a torn one or the record,
\* whose number no other record has.
LEMMA ProgramLeaves ==
    ASSUME Sound, pc = "program", NEW t \in Programmed
    PROVE  /\ t \in [Index -> Slots] /\ Distinct(t)
           /\ t[goal] \in {Erased, Torn, Record}
           /\ \A k \in Index : k # goal => t[k] = slots[k]
           /\ \A k \in Whole(slots) : k # goal /\ k \in Whole(t)
           /\ \A k \in Whole(t) : k # goal => k \in Whole(slots)
           /\ \A k \in Whole(slots) : slots[k].seq <= seq
           /\ Record.seq = seq + 1 /\ Record.data = writing /\ Record.kind = "whole"
<1>1. slots \in [Index -> Slots] /\ goal \in Index /\ seq \in 0..MaxSeq
  BY DEF Sound, TypeOK
<1>2. healthy /\ writing \in Data /\ seq < MaxSeq
  BY DEF Sound, Due
<1>3. slots[goal] = Erased
  BY DEF Sound, Aimed
<1>4. Record.seq = seq + 1 /\ Record.data = writing /\ Record.kind = "whole"
  BY DEF Record
<1>5. Record \in Slots
  BY <1>1, <1>2, JournalAssumption DEF Record, Slots
<1>6. PICK e \in {Erased, Torn, Record} : t = [slots EXCEPT ![goal] = e]
  BY <1>3 DEF Programmed
<1>7. t \in [Index -> Slots]
  BY <1>1, <1>5, <1>6, SlotKinds
<1>8. t[goal] = e /\ \A k \in Index : k # goal => t[k] = slots[k]
  BY <1>1, <1>6
<1>9. \A k \in Whole(slots) : k # goal /\ k \in Whole(t)
  BY <1>3, <1>8, SlotKinds DEF Whole
<1>10. \A k \in Whole(t) : k # goal => k \in Whole(slots)
  BY <1>8 DEF Whole
<1>11. \A k \in Whole(slots) : slots[k].seq <= seq
  BY <1>2 DEF Sound, Known, Settled
<1>12. goal \in Whole(t) => t[goal].seq = seq + 1
  BY <1>4, <1>8, SlotKinds DEF Whole
<1>13. \A k \in Whole(slots) : slots[k].seq \in Int
  BY <1>1, SlotKinds DEF Whole
<1>14. ASSUME NEW j \in Whole(t), NEW k \in Whole(t), t[j].seq = t[k].seq PROVE j = k
  <2>1. CASE j # goal /\ k # goal
    <3>1. j \in Whole(slots) /\ k \in Whole(slots) /\ t[j] = slots[j] /\ t[k] = slots[k]
      BY <1>8, <1>10, <2>1 DEF Whole
    <3> QED
      BY <1>14, <3>1 DEF Sound, SequencesDistinct
  <2>2. CASE j = goal /\ k # goal
    <3>1. k \in Whole(slots) /\ t[k] = slots[k]
      BY <1>8, <1>10, <2>2 DEF Whole
    <3> QED
      BY <1>1, <1>11, <1>12, <1>13, <1>14, <2>2, <3>1
  <2>3. CASE j # goal /\ k = goal
    <3>1. j \in Whole(slots) /\ t[j] = slots[j]
      BY <1>8, <1>10, <2>3 DEF Whole
    <3> QED
      BY <1>1, <1>11, <1>12, <1>13, <1>14, <2>3, <3>1
  <2> QED
    BY <2>1, <2>2, <2>3
<1>15. Distinct(t)
  BY <1>14 DEF Distinct
<1> QED
  BY <1>4, <1>6, <1>7, <1>8, <1>9, <1>10, <1>11, <1>15

\* An erase that the operation waits for, and what it may have left when it fails.
LEMMA EraseSound ==
    ASSUME Sound, Erase
    PROVE  Sound'
<1>1. /\ TypeOK /\ SequencesDistinct /\ pc = "erase" /\ healthy /\ seq # 0
      /\ BankOf(goal) = Other(latest) /\ writing \in Data /\ seq < MaxSeq
  BY DEF Sound, Erase, Due, Aimed
<1>2. slots \in [Index -> Slots] /\ goal \in Index /\ latest \in Index
  BY <1>1 DEF TypeOK
<1>3. Distinct(slots)
  BY <1>1 DEF SequencesDistinct, Distinct
<1>4. CASE slots' \in PartlyWiped(BankOf(goal)) /\ Fault
  <2>1. Lost(slots, slots', BankOf(goal))
    BY <1>1, <1>4, WipedLost
  <2>2. slots' \in [Index -> Slots] /\ Distinct(slots')
    BY <1>2, <1>3, <2>1, LostWhole DEF Lost
  <2> QED
    BY <1>4, <2>2, FaultSound
<1>5. CASE /\ slots' = Wiped(BankOf(goal)) /\ pc' = "program"
           /\ UNCHANGED <<purging, goal, writing, ram>>
  <2> DEFINE b == BankOf(goal)
  <2>1. /\ Lost(slots, slots', b)
        /\ \A k \in Index : BankOf(k) = b => slots'[k] = Erased
        /\ \A k \in Index : BankOf(k) # b => slots'[k] = slots[k]
    BY <1>1, <1>5, WipedLost
  <2>2. BankOf(latest) # b
    BY <1>1, <1>2, Banks
  <2>3. /\ purging' = purging /\ goal' = goal /\ writing' = writing /\ healthy' = healthy
        /\ seq' = seq /\ latest' = latest /\ data' = data
    BY <1>5 DEF ram
  <2>4. slots' \in [Index -> Slots] /\ Distinct(slots')
    BY <1>2, <1>3, <2>1, LostWhole DEF Lost
  <2>5. TypeOK' /\ SequencesDistinct'
    <3>1. TypeOK'
      BY <1>1, <1>5, <2>3, <2>4 DEF TypeOK
    <3>2. SequencesDistinct'
      BY <2>4 DEF SequencesDistinct, Distinct, Whole
    <3> QED
      BY <3>1, <3>2
  <2>6. Top(slots, latest) /\ slots[latest].seq = seq /\ slots[latest].data = data
    BY <1>1, KnownTop
  <2>7. Top(slots', latest) /\ slots'[latest] = slots[latest]
    BY <1>2, <1>3, <2>1, <2>2, <2>6, LostKeeps
  <2>8. Known'
    <3>1. \A k \in Settled' : k \in Whole(slots')
      BY DEF Settled, Whole
    <3>2. latest \in Settled'
      BY <1>5, <2>7 DEF Settled, Top, Whole
    <3> QED
      BY <1>1, <2>3, <2>6, <2>7, <3>1, <3>2 DEF Known, Top
  <2>9. slots'[goal] = Erased
    BY <1>2, <2>1
  <2>10. Due'
    BY <1>1, <1>5, <2>3 DEF Sound, Due
  <2>11. Aimed'
    BY <1>5, <2>3, <2>9 DEF Aimed
  <2>12. Cleared'
    BY <1>1, <1>5, <2>1, <2>3 DEF Cleared, Other
  <2> QED
    BY <2>5, <2>8, <2>10, <2>11, <2>12 DEF Sound
<1> QED
  BY <1>4, <1>5 DEF Erase

\* Programming, which may leave anything in the slot it writes.
LEMMA ProgramSound ==
    ASSUME Sound, Program
    PROVE  Sound'
<1>1. /\ TypeOK /\ SequencesDistinct /\ pc = "program" /\ healthy
      /\ writing \in Data /\ seq < MaxSeq
  BY DEF Sound, Program, Due
<1>2. slots' \in Programmed
  BY DEF Program
<1>3. /\ slots' \in [Index -> Slots] /\ Distinct(slots')
      /\ slots'[goal] \in {Erased, Torn, Record}
      /\ \A k \in Index : k # goal => slots'[k] = slots[k]
      /\ \A k \in Whole(slots) : k # goal /\ k \in Whole(slots')
      /\ \A k \in Whole(slots') : k # goal => k \in Whole(slots)
      /\ \A k \in Whole(slots) : slots[k].seq <= seq
  BY <1>1, <1>2, ProgramLeaves
<1>4. CASE Fault
  BY <1>3, <1>4, FaultSound
<1>5. CASE pc' = "verify" /\ UNCHANGED <<purging, goal, writing, ram>>
  <2>1. /\ purging' = purging /\ goal' = goal /\ writing' = writing /\ healthy' = healthy
        /\ seq' = seq /\ latest' = latest /\ data' = data
    BY <1>5 DEF ram
  <2>2. TypeOK'
    BY <1>1, <1>3, <1>5, <2>1 DEF TypeOK
  <2>3. SequencesDistinct'
    BY <1>3 DEF SequencesDistinct, Distinct, Whole
  <2>4. \A k \in Settled' : k \in Whole(slots) /\ slots'[k] = slots[k]
    BY <1>3, <1>5, <2>1 DEF Settled, Whole
  <2>5. \A k \in Whole(slots) : k \in Settled' /\ slots'[k] = slots[k]
    BY <1>3, <1>5, <2>1 DEF Settled, Whole
  <2>6. Settled = Whole(slots)
    BY <1>1 DEF Settled
  <2>7. Known
    BY DEF Sound
  <2>8. Known'
    <3>1. seq = 0 => Settled' = {} /\ data = NoData
      BY <1>1, <2>4, <2>6, <2>7 DEF Known
    <3>2. seq # 0 => latest \in Settled' /\ slots'[latest].seq = seq /\ slots'[latest].data = data
      BY <1>1, <2>5, <2>6, <2>7 DEF Known
    <3>3. \A k \in Settled' : slots'[k].seq <= seq
      BY <1>3, <2>4
    <3> QED
      BY <1>5, <2>1, <3>1, <3>2, <3>3 DEF Known
  <2>9. Due'
    BY <1>1, <1>5, <2>1 DEF Sound, Due
  <2>10. Aimed'
    <3>1. Record' = Record
      BY <2>1 DEF Record
    <3>2. Erased' = Erased /\ Torn' = Torn
      BY DEF Erased, Torn
    <3> QED
      BY <1>3, <1>5, <2>1, <3>1 DEF Aimed
  <2>11. Cleared'
    BY <1>1, <1>3, <1>5, <2>1 DEF Sound, Cleared, Other
  <2> QED
    BY <2>2, <2>3, <2>8, <2>9, <2>10, <2>11 DEF Sound
<1> QED
  BY <1>4, <1>5 DEF Program

\* Reading the record back, after which memory knows it.
LEMMA VerifySound ==
    ASSUME Sound, Verify
    PROVE  Sound'
<1>1. /\ TypeOK /\ SequencesDistinct /\ pc = "verify" /\ healthy
      /\ writing \in Data /\ seq < MaxSeq /\ slots' = slots
  BY DEF Sound, Verify, Due
<1>2. slots \in [Index -> Slots] /\ Distinct(slots)
  BY <1>1 DEF TypeOK, SequencesDistinct, Distinct
<1>3. CASE Fault
  BY <1>1, <1>2, <1>3, FaultSound
<1>4. CASE /\ slots[goal] = Record
           /\ latest' = goal /\ seq' = seq + 1 /\ data' = writing /\ UNCHANGED healthy
           /\ IF purging
              THEN pc' = "clean" /\ writing' = NoData /\ UNCHANGED <<purging, goal>>
              ELSE Rest
  <2>1. goal \in Index /\ seq \in 0..MaxSeq /\ latest \in Index /\ 0 \in Index
    BY <1>1, JournalAssumption DEF TypeOK, Index
  <2>2. seq + 1 \in 0..MaxSeq /\ seq + 1 # 0
    BY <1>1, <2>1, JournalAssumption
  <2>3. pc' \in {"clean", "idle"} /\ (pc' = "clean" => purging') /\ (pc' = "idle" => ~purging')
    BY <1>4 DEF Rest
  <2>4. purging' \in BOOLEAN /\ goal' \in Index /\ writing' = NoData
    BY <1>1, <1>4, <2>1 DEF TypeOK, Rest
  <2>5. TypeOK'
    BY <1>1, <1>4, <2>1, <2>2, <2>3, <2>4 DEF TypeOK
  <2>6. SequencesDistinct'
    BY <1>1, <1>2 DEF SequencesDistinct, Distinct, Whole
  <2>7. goal \in Whole(slots) /\ slots[goal].seq = seq + 1 /\ slots[goal].data = writing
    BY <1>4, <2>1 DEF Whole, Record
  <2>8. \A k \in Whole(slots) : slots[k].seq <= seq + 1
    <3>1. \A k \in Whole(slots) : k # goal => slots[k].seq <= seq
      BY <1>1 DEF Sound, Known, Settled
    <3>2. \A k \in Whole(slots) : slots[k].seq \in Int
      BY <1>2, SlotKinds DEF Whole
    <3> QED
      BY <2>1, <2>7, <3>1, <3>2
  <2>9. Settled' = Whole(slots)
    BY <1>1, <2>3 DEF Settled, Whole
  <2>10. Known'
    BY <1>1, <1>4, <2>2, <2>7, <2>8, <2>9 DEF Known
  <2>11. Due'
    BY <1>1, <1>4, <2>2, <2>3, <2>4 DEF Due
  <2>12. Aimed'
    BY <2>3 DEF Aimed
  <2>13. Cleared'
    <3>1. CASE purging
      <4>1. \A k \in Index : BankOf(k) = BankOf(goal) /\ k # goal => slots[k] = Erased
        BY <1>1, <3>1 DEF Sound, Cleared
      <4>2. pc' = "clean"
        BY <1>4, <3>1
      <4> QED
        BY <1>1, <1>4, <4>1, <4>2 DEF Cleared
    <3>2. CASE ~purging
      BY <1>4, <3>2 DEF Cleared, Rest
    <3> QED
      BY <3>1, <3>2
  <2> QED
    BY <2>5, <2>6, <2>10, <2>11, <2>12, <2>13 DEF Sound
<1> QED
  BY <1>3, <1>4 DEF Verify

\* The erase of the bank that a purge came from.
LEMMA CleanSound ==
    ASSUME Sound, Clean
    PROVE  Sound'
<1>1. TypeOK /\ SequencesDistinct /\ pc = "clean" /\ healthy /\ seq # 0
  BY DEF Sound, Clean, Due
<1>2. slots \in [Index -> Slots] /\ goal \in Index /\ latest \in Index
  BY <1>1 DEF TypeOK
<1>3. Distinct(slots)
  BY <1>1 DEF SequencesDistinct, Distinct
<1>4. CASE slots' \in PartlyWiped(Other(latest)) /\ Fault
  <2>1. Lost(slots, slots', Other(latest))
    BY <1>1, <1>4, WipedLost
  <2>2. slots' \in [Index -> Slots] /\ Distinct(slots')
    BY <1>2, <1>3, <2>1, LostWhole DEF Lost
  <2> QED
    BY <1>4, <2>2, FaultSound
<1>5. CASE /\ slots' = Wiped(Other(latest)) /\ pc' = "confirm"
           /\ UNCHANGED <<purging, goal, writing, ram>>
  <2> DEFINE b == Other(latest)
  <2>1. /\ Lost(slots, slots', b)
        /\ \A k \in Index : BankOf(k) # b => slots'[k] = slots[k]
    BY <1>1, <1>5, WipedLost
  <2>2. BankOf(latest) # b
    BY <1>2, Banks
  <2>3. /\ purging' = purging /\ goal' = goal /\ writing' = writing /\ healthy' = healthy
        /\ seq' = seq /\ latest' = latest /\ data' = data
    BY <1>5 DEF ram
  <2>4. slots' \in [Index -> Slots] /\ Distinct(slots')
    BY <1>2, <1>3, <2>1, LostWhole DEF Lost
  <2>5. TypeOK'
    BY <1>1, <1>5, <2>3, <2>4 DEF TypeOK
  <2>6. SequencesDistinct'
    BY <2>4 DEF SequencesDistinct, Distinct, Whole
  <2>7. Top(slots, latest) /\ slots[latest].seq = seq /\ slots[latest].data = data
    BY <1>1, KnownTop
  <2>8. Top(slots', latest) /\ slots'[latest] = slots[latest]
    BY <1>2, <1>3, <2>1, <2>2, <2>7, LostKeeps
  <2>9. Known'
    <3>1. \A k \in Settled' : k \in Whole(slots')
      BY DEF Settled, Whole
    <3>2. latest \in Settled'
      BY <1>5, <2>8 DEF Settled, Top, Whole
    <3> QED
      BY <1>1, <2>3, <2>7, <2>8, <3>1, <3>2 DEF Known, Top
  <2>10. Due'
    BY <1>1, <1>5, <2>3 DEF Sound, Due
  <2>11. Cleared'
    BY <1>1, <1>5, <2>1, <2>2, <2>3 DEF Sound, Cleared
  <2> QED
    BY <1>5, <2>5, <2>6, <2>9, <2>10, <2>11 DEF Sound, Aimed
<1> QED
  BY <1>4, <1>5 DEF Clean

\* The first step of a save: an erased slot, or an erase to make one.
LEMMA AppendSound ==
    ASSUME Sound, NEW fresh \in Data, Append(fresh)
    PROVE  Sound'
<1>1. TypeOK /\ SequencesDistinct /\ pc = "idle" /\ healthy /\ slots' = slots
  BY DEF Sound, Append
<1>2. slots \in [Index -> Slots] /\ Distinct(slots) /\ latest \in Index /\ seq \in 0..MaxSeq
  BY <1>1 DEF TypeOK, SequencesDistinct, Distinct
<1>3. CASE Fault
  BY <1>1, <1>2, <1>3, FaultSound
<1>4. CASE /\ seq < MaxSeq /\ writing' = fresh /\ purging' = FALSE
           /\ IF Free = {} THEN pc' = "erase" /\ goal' = First(1 - Bank)
              ELSE pc' = "program" /\ goal' \in Free
           /\ UNCHANGED ram
  <2>1. healthy' = healthy /\ seq' = seq /\ latest' = latest /\ data' = data
    BY <1>4 DEF ram
  <2>2. SequencesDistinct'
    BY <1>1, <1>2 DEF SequencesDistinct, Distinct, Whole
  <2>3. pc' \in {"erase", "program"}
    BY <1>4
  <2>4. Settled' = Settled
    BY <1>1, <2>3 DEF Settled, Whole
  <2>5. Known'
    BY <1>1, <2>1, <2>3, <2>4 DEF Sound, Known
  <2>6. Due'
    BY <1>1, <1>4, <2>1, <2>3 DEF Due
  <2>7. CASE Free = {}
    <3>1. pc' = "erase" /\ goal' = First(1 - Bank)
      BY <1>4, <2>7
    <3>2. seq # 0
      <4>1. SUFFICES ASSUME seq = 0 PROVE FALSE
        OBVIOUS
      <4>2. \A k \in Index : slots[k] = Erased
        BY <1>1, <4>1 DEF Sound, Known
      <4>3. First(0) \in Free
        BY <4>1, <4>2, Banks DEF Free, Bank
      <4> QED
        BY <2>7, <4>3
    <3>3. goal' = First(Other(latest))
      BY <3>1, <3>2 DEF Bank, Other
    <3>4. goal' \in Index /\ BankOf(goal') = Other(latest)
      BY <1>2, <3>3, Banks
    <3>5. TypeOK'
      BY <1>1, <1>4, <2>1, <3>1, <3>4 DEF TypeOK
    <3>6. Aimed'
      BY <2>1, <3>1, <3>2, <3>3, <3>4 DEF Aimed, Other, First, BankOf
    <3>7. Cleared'
      BY <1>4, <3>1 DEF Cleared
    <3> QED
      BY <2>2, <2>5, <2>6, <3>5, <3>6, <3>7 DEF Sound
  <2>8. CASE Free # {}
    <3>1. pc' = "program" /\ goal' \in Index /\ slots[goal'] = Erased
      BY <1>4, <2>8 DEF Free
    <3>2. TypeOK'
      BY <1>1, <1>4, <2>1, <3>1 DEF TypeOK
    <3>3. Aimed'
      BY <1>1, <3>1 DEF Aimed, Erased
    <3>4. Cleared'
      BY <1>4, <3>1 DEF Cleared
    <3> QED
      BY <2>2, <2>5, <2>6, <3>2, <3>3, <3>4 DEF Sound
  <2> QED
    BY <2>7, <2>8
<1> QED
  BY <1>3, <1>4 DEF Append

\* The first step of a purge: the erase of the other bank.
LEMMA PurgeSound ==
    ASSUME Sound, Purge
    PROVE  Sound'
<1>1. TypeOK /\ SequencesDistinct /\ pc = "idle" /\ healthy /\ slots' = slots
  BY DEF Sound, Purge
<1>2. slots \in [Index -> Slots] /\ Distinct(slots) /\ latest \in Index /\ seq \in 0..MaxSeq
  BY <1>1 DEF TypeOK, SequencesDistinct, Distinct
<1>3. CASE Fault
  BY <1>1, <1>2, <1>3, FaultSound
<1>4. CASE /\ seq # 0 /\ seq < MaxSeq
           /\ writing' = data /\ purging' = TRUE /\ goal' = First(Other(latest))
           /\ pc' = "erase" /\ UNCHANGED ram
  <2>1. healthy' = healthy /\ seq' = seq /\ latest' = latest /\ data' = data
    BY <1>4 DEF ram
  <2>2. SequencesDistinct'
    BY <1>1, <1>2 DEF SequencesDistinct, Distinct, Whole
  <2>3. Settled' = Settled
    BY <1>1, <1>4 DEF Settled, Whole
  <2>4. Known'
    BY <1>1, <1>4, <2>1, <2>3 DEF Sound, Known
  <2>5. data \in Data
    BY <1>1, <1>4, KnownTop
  <2>6. Due'
    BY <1>1, <1>4, <2>1, <2>5 DEF Due
  <2>7. goal' \in Index /\ BankOf(goal') = Other(latest)
    BY <1>2, <1>4, Banks
  <2>8. TypeOK'
    BY <1>1, <1>4, <2>1, <2>5, <2>7 DEF TypeOK
  <2>9. Aimed'
    BY <1>4, <2>1, <2>7 DEF Aimed, Other, First, BankOf
  <2>10. Cleared'
    BY <1>4 DEF Cleared
  <2> QED
    BY <2>2, <2>4, <2>6, <2>8, <2>9, <2>10 DEF Sound
<1> QED
  BY <1>3, <1>4 DEF Purge

\* What is due when power is lost may have happened in part.
LEMMA CutSound ==
    ASSUME Sound, Cut
    PROVE  Sound'
<1>1. TypeOK /\ SequencesDistinct
  BY DEF Sound
<1>2. slots \in [Index -> Slots] /\ Distinct(slots)
  BY <1>1 DEF TypeOK, SequencesDistinct, Distinct
<1>3. slots' \in [Index -> Slots] /\ Distinct(slots')
  <2>1. CASE pc = "erase"
    <3>1. Lost(slots, slots', BankOf(goal))
      BY <1>1, <2>1, WipedLost DEF Cut
    <3> QED
      BY <1>2, <3>1, LostWhole DEF Lost
  <2>2. CASE pc = "program"
    <3>1. slots' \in Programmed
      BY <2>2 DEF Cut
    <3> QED
      BY <2>2, <3>1, ProgramLeaves
  <2>3. CASE pc = "clean"
    <3>1. Lost(slots, slots', Other(latest))
      BY <1>1, <2>3, WipedLost DEF Cut
    <3> QED
      BY <1>2, <3>1, LostWhole DEF Lost
  <2>4. CASE pc \notin {"erase", "program", "clean"}
    BY <1>2, <2>4 DEF Cut
  <2> QED
    BY <2>1, <2>2, <2>3, <2>4
<1>4. 0 \in Index /\ 0 \in 0..MaxSeq
  BY JournalAssumption DEF Index
<1>5. Resting'
  BY <1>4 DEF Resting, Cut
<1>6. healthy' = FALSE /\ seq' = 0 /\ latest' = 0 /\ data' = NoData
  BY DEF Cut
<1> QED
  BY <1>3, <1>4, <1>5, <1>6, DownSound

\* The invariant is inductive.
LEMMA SoundStep == Sound /\ [Next]_vars => Sound'
<1> SUFFICES ASSUME Sound, [Next]_vars PROVE Sound'
  OBVIOUS
<1>1. TypeOK /\ SequencesDistinct
  BY DEF Sound
<1>2. slots \in [Index -> Slots] /\ Distinct(slots)
  BY <1>1 DEF TypeOK, SequencesDistinct, Distinct
<1>3. 0 \in Index
  BY JournalAssumption DEF Index
<1>4. CASE Boot
  <2>1. Load(FALSE) /\ slots' = slots /\ Resting'
    BY <1>3, <1>4 DEF Boot, Rest, Resting
  <2> QED
    BY <1>1, <2>1, LoadSound
<1>5. CASE Recover
  <2>1. Load(TRUE) /\ slots' = slots
    BY <1>5 DEF Recover
  <2>2. Resting'
    BY <1>1, <1>5 DEF Recover, Resting, operation, Sound, Due, TypeOK
  <2> QED
    BY <1>1, <2>1, <2>2, LoadSound
<1>6. CASE \E fresh \in Data : Append(fresh)
  BY <1>6, AppendSound
<1>7. CASE Purge
  BY <1>7, PurgeSound
<1>8. CASE Erase
  BY <1>8, EraseSound
<1>9. CASE Program
  BY <1>9, ProgramSound
<1>10. CASE Verify
  BY <1>10, VerifySound
<1>11. CASE Clean
  BY <1>11, CleanSound
<1>12. CASE Confirm
  <2>1. slots' = slots
    BY <1>12 DEF Confirm
  <2>2. CASE Load(FALSE) /\ Rest
    <3>1. Resting'
      BY <1>3, <2>2 DEF Rest, Resting
    <3> QED
      BY <1>1, <2>1, <2>2, <3>1, LoadSound
  <2>3. CASE Fault
    BY <1>2, <2>1, <2>3, FaultSound
  <2> QED
    BY <1>12, <2>2, <2>3 DEF Confirm
<1>13. CASE Cut
  BY <1>13, CutSound
<1>14. CASE UNCHANGED vars
  BY <1>14 DEF vars, operation, ram, Sound, TypeOK, SequencesDistinct, Whole, Known, Settled,
               Due, Aimed, Record, Erased, Torn, Cleared, Other
<1> QED
  BY <1>4, <1>5, <1>6, <1>7, <1>8, <1>9, <1>10, <1>11, <1>12, <1>13, <1>14 DEF Next

\* The journal's state is sound at all times (the invariant the other results
\* rest on).
THEOREM JournalSound == Spec => []Sound
<1>1. Init => Sound
  BY SoundInit
<1>2. Sound /\ [Next]_vars => Sound'
  BY SoundStep
<1> QED
  BY <1>1, <1>2, PTL DEF Spec

\* No two records ever carry the same number, so that load() never refuses a
\* flash it wrote for a repetition, and append() and purge_history() program
\* erased slots only.
THEOREM FlashIsSound == Spec => []FlashSound
<1>1. Sound => FlashSound
  BY DEF Sound, FlashSound, ProgramsErased, Aimed
<1> QED
  BY <1>1, JournalSound, PTL

\* A purge that reports success has left the current record and nothing else:
\* the read-back of the bank it came from covers one bank, the invariant the other.
THEOREM PurgeIsComplete == Spec => PurgeComplete
<1> DEFINE Alone == pc = "confirm" /\ healthy' => \A k \in Index \ {latest'} : slots'[k] = Erased
<1>1. Sound /\ [Next]_vars => [Alone]_vars
  <2> SUFFICES ASSUME Sound, Next, pc = "confirm", healthy'
               PROVE  \A k \in Index \ {latest'} : slots'[k] = Erased
    BY DEF vars
  <2>1. slots \in [Index -> Slots] /\ Distinct(slots) /\ latest \in Index
    BY DEF Sound, TypeOK, SequencesDistinct, Distinct
  <2>2. healthy /\ seq # 0
    BY DEF Sound, Due
  <2>3. Top(slots, latest)
    BY <2>2, KnownTop
  <2>4. Confirm
    BY DEF Next, Boot, Recover, Append, Purge, Erase, Program, Verify, Clean, Cut
  <2>5. /\ \A k \in Index : BankOf(k) = Other(latest) => slots[k] = Erased
        /\ Load(FALSE) /\ slots' = slots
    BY <2>4 DEF Confirm, Fault
  <2>6. Whole(slots) # {}
    BY <2>3 DEF Top
  <2>7. latest' = Newest(slots)
    BY <2>5, <2>6 DEF Load
  <2>8. latest' = latest
    BY <2>1, <2>3, <2>7, NewestIs
  <2>9. \A k \in Index : BankOf(k) = BankOf(latest) /\ k # latest => slots[k] = Erased
    BY DEF Sound, Cleared
  <2>10. \A k \in Index : BankOf(k) = BankOf(latest) \/ BankOf(k) = Other(latest)
    BY <2>1, Banks DEF Other
  <2> QED
    BY <2>5, <2>8, <2>9, <2>10
<1> QED
  BY <1>1, JournalSound, PTL DEF Spec, PurgeComplete

-------------------------------------------------------------------------------
(* The journal implements an atomic durable register. *)

\* What the owner was told, and the save in progress, as the register has them.
Seen == IF healthy THEN data ELSE NoData
Pending == IF purging THEN NoData ELSE writing

\* Programming leaves the value, or makes the record's the value.
LEMMA ProgramValue ==
    ASSUME Sound, pc = "program", NEW t \in Programmed
    PROVE  Value(t) = Value(slots) \/ Value(t) = writing
<1>1. /\ t \in [Index -> Slots] /\ Distinct(t)
      /\ t[goal] \in {Erased, Torn, Record}
      /\ \A k \in Index : k # goal => t[k] = slots[k]
      /\ \A k \in Whole(slots) : k # goal /\ k \in Whole(t)
      /\ \A k \in Whole(t) : k # goal => k \in Whole(slots)
      /\ \A k \in Whole(slots) : slots[k].seq <= seq
      /\ Record.seq = seq + 1 /\ Record.data = writing /\ Record.kind = "whole"
  BY ProgramLeaves
<1>2. slots \in [Index -> Slots] /\ goal \in Index /\ seq \in 0..MaxSeq /\ healthy
  BY DEF Sound, TypeOK, Due
<1>3. CASE t[goal] = Record
  <2>1. goal \in Whole(t)
    BY <1>1, <1>2, <1>3 DEF Whole
  <2>2. \A k \in Whole(slots) : slots[k].seq \in Int
    BY <1>2, SlotKinds DEF Whole
  <2>3. \A k \in Whole(t) : k # goal => t[k].seq <= seq /\ t[k].seq \in Int
    BY <1>1, <2>2 DEF Whole
  <2>4. \A k \in Whole(t) : t[k].seq <= t[goal].seq
    BY <1>1, <1>2, <1>3, <2>3
  <2>5. Top(t, goal)
    BY <2>1, <2>4 DEF Top
  <2> QED
    BY <1>1, <1>3, <2>5, NewestIs
<1>4. CASE t[goal] # Record
  <2>1. goal \notin Whole(t)
    BY <1>1, <1>4, SlotKinds DEF Whole
  <2>2. Whole(t) = Whole(slots)
    BY <1>1, <2>1
  <2>3. CASE Whole(slots) = {}
    BY <2>2, <2>3 DEF Value
  <2>4. CASE Whole(slots) # {}
    <3>1. seq # 0
      BY <1>2, <2>4 DEF Sound, Known, Settled
    <3>2. Top(slots, latest) /\ Value(slots) = data /\ slots[latest].data = data
      BY <1>2, <3>1, KnownTop
    <3>3. \A k \in Whole(slots) : t[k] = slots[k]
      BY <1>1 DEF Whole
    <3>4. Top(t, latest) /\ t[latest] = slots[latest]
      BY <2>2, <3>2, <3>3 DEF Top
    <3>5. Value(t) = t[latest].data
      BY <1>1, <3>4, NewestIs
    <3> QED
      BY <3>2, <3>4, <3>5
  <2> QED
    BY <2>3, <2>4
<1> QED
  BY <1>3, <1>4

\* An erase, complete or not, leaves the value.
LEMMA EraseValue ==
    ASSUME Sound, NEW t,
           \/ pc = "erase" /\ (t = Wiped(BankOf(goal)) \/ t \in PartlyWiped(BankOf(goal)))
           \/ pc = "clean" /\ (t = Wiped(Other(latest)) \/ t \in PartlyWiped(Other(latest)))
    PROVE  Value(t) = Value(slots)
<1>1. TypeOK /\ healthy /\ seq # 0 /\ pc # "verify"
  BY DEF Sound, Due, Aimed
<1>2. slots \in [Index -> Slots] /\ Distinct(slots) /\ latest \in Index
  BY DEF Sound, TypeOK, SequencesDistinct, Distinct
<1>3. Lost(slots, t, Other(latest))
  BY <1>1, WipedLost DEF Sound, Aimed
<1>4. BankOf(latest) # Other(latest)
  BY <1>2, Banks
<1>5. Top(slots, latest)
  BY <1>1, KnownTop
<1> QED
  BY <1>2, <1>3, <1>4, <1>5, LostKeeps

\* While a purge writes, the value is the one it writes again.
LEMMA PurgeValue ==
    ASSUME Sound, purging, pc = "program"
    PROVE  writing = Value(slots)
<1>1. healthy /\ seq # 0 /\ writing = data
  BY DEF Sound, Due
<1> QED
  BY <1>1, KnownTop

\* A record that reads back is the newest.
LEMMA VerifyValue ==
    ASSUME Sound, pc = "verify", slots[goal] = Record
    PROVE  Value(slots) = writing
<1>1. slots \in [Index -> Slots] /\ goal \in Index /\ seq \in 0..MaxSeq /\ healthy
  BY DEF Sound, TypeOK, Due
<1>2. Distinct(slots)
  BY DEF Sound, SequencesDistinct, Distinct
<1>3. goal \in Whole(slots) /\ slots[goal].seq = seq + 1 /\ slots[goal].data = writing
  BY <1>1 DEF Whole, Record
<1>4. \A k \in Whole(slots) : slots[k].seq \in Int /\ (k # goal => slots[k].seq <= seq)
  BY <1>1, SlotKinds DEF Whole, Sound, Known, Settled
<1>5. Top(slots, goal)
  BY <1>1, <1>3, <1>4 DEF Top
<1> QED
  BY <1>1, <1>2, <1>3, <1>5, NewestIs

\* The steps of the register, in the journal's terms.
LEMMA ToLose ==
    ASSUME healthy' = FALSE, Pending' = NoData,
           Value(slots') = Value(slots) \/ (Pending # NoData /\ Value(slots') = Pending)
    PROVE  Register!Lose
BY DEF Register!Lose, Pending

\* A load, when no save is in progress.
LEMMA ToLoad ==
    ASSUME NEW r, Load(r), slots' = slots, Pending = NoData, Pending' = NoData
    PROVE  Register!Load \/ Register!Lose
<1>1. CASE healthy' = TRUE /\ data' = Value(slots)
  BY <1>1 DEF Register!Load, Pending
<1>2. CASE healthy' = FALSE
  BY <1>2, ToLose
<1> QED
  BY <1>1, <1>2 DEF Load

\* A step that changes nothing the register has.
LEMMA ToStutter ==
    ASSUME Value(slots') = Value(slots), healthy' = healthy, Seen' = Seen, Pending' = Pending
    PROVE  UNCHANGED Register!vars
BY DEF Register!vars, Seen, Pending

\* Every step of the journal is a step of the register, or none.
LEMMA RegisterStep == Sound /\ [Next]_vars => [Register!Next]_(Register!vars)
<1> SUFFICES ASSUME Sound, [Next]_vars PROVE Register!Next \/ UNCHANGED Register!vars
  OBVIOUS
<1>1. writing \in Data \cup {NoData} /\ NoData \notin Data
  BY JournalAssumption DEF Sound, TypeOK
<1>2. Fault => healthy' = FALSE /\ Pending' = NoData
  BY DEF Fault, Rest, Pending
<1>3. CASE Boot
  <2>1. Load(FALSE) /\ slots' = slots /\ Pending' = NoData
    BY <1>3 DEF Boot, Rest, Pending
  <2>2. Pending = NoData
    BY <1>3 DEF Boot, Sound, Due, Pending
  <2> QED
    BY <2>1, <2>2, ToLoad DEF Register!Next
<1>4. CASE Recover
  <2>1. Load(TRUE) /\ slots' = slots /\ Pending' = Pending
    BY <1>4 DEF Recover, operation, Pending
  <2>2. Pending = NoData
    BY <1>4 DEF Recover, Sound, Due, Pending
  <2> QED
    BY <2>1, <2>2, ToLoad DEF Register!Next
<1>5. ASSUME NEW fresh \in Data, Append(fresh) PROVE Register!Next \/ UNCHANGED Register!vars
  <2>1. pc = "idle" /\ healthy /\ slots' = slots /\ Pending = NoData
    BY <1>5 DEF Append, Sound, Due, Pending
  <2>2. CASE Fault
    BY <1>2, <2>1, <2>2, ToLose DEF Register!Next
  <2>3. CASE ~Fault
    <3>1. writing' = fresh /\ purging' = FALSE /\ healthy' = healthy /\ data' = data
      BY <1>5, <2>3 DEF Append, ram
    <3>2. Register!Begin(fresh)
      BY <2>1, <3>1 DEF Register!Begin, Pending
    <3> QED
      BY <3>2 DEF Register!Next
  <2> QED
    BY <2>2, <2>3
<1>6. CASE Purge
  <2>1. pc = "idle" /\ healthy /\ slots' = slots /\ Pending = NoData
    BY <1>6 DEF Purge, Sound, Due, Pending
  <2>2. CASE Fault
    BY <1>2, <2>1, <2>2, ToLose DEF Register!Next
  <2>3. CASE ~Fault
    <3>1. purging' = TRUE /\ healthy' = healthy /\ data' = data
      BY <1>6, <2>3 DEF Purge, ram
    <3>2. Seen' = Seen /\ Pending' = Pending
      BY <2>1, <3>1 DEF Seen, Pending
    <3> QED
      BY <2>1, <3>1, <3>2, ToStutter
  <2> QED
    BY <2>2, <2>3
<1>7. CASE Erase
  <2>1. Value(slots') = Value(slots)
    BY <1>7, EraseValue DEF Erase
  <2>2. CASE Fault
    BY <1>2, <2>1, <2>2, ToLose DEF Register!Next
  <2>3. CASE ~Fault
    <3>1. purging' = purging /\ writing' = writing /\ healthy' = healthy /\ data' = data
      BY <1>7, <2>3 DEF Erase, ram
    <3>2. Seen' = Seen /\ Pending' = Pending
      BY <3>1 DEF Seen, Pending
    <3> QED
      BY <2>1, <3>1, <3>2, ToStutter
  <2> QED
    BY <2>2, <2>3
<1>8. CASE Program
  <2>1. pc = "program" /\ slots' \in Programmed /\ writing \in Data
    BY <1>8 DEF Program, Sound, Due
  <2>2. Value(slots') = Value(slots) \/ Value(slots') = writing
    BY <2>1, ProgramValue
  <2>3. Value(slots') = Value(slots) \/ (Pending # NoData /\ Value(slots') = Pending)
    BY <1>1, <2>1, <2>2, PurgeValue DEF Pending
  <2>4. CASE Fault
    BY <1>2, <2>3, <2>4, ToLose DEF Register!Next
  <2>5. CASE ~Fault
    <3>1. purging' = purging /\ writing' = writing /\ healthy' = healthy /\ data' = data
      BY <1>8, <2>5 DEF Program, ram
    <3>2. Seen' = Seen /\ Pending' = Pending
      BY <3>1 DEF Seen, Pending
    <3>3. CASE Value(slots') = Value(slots)
      BY <3>1, <3>2, <3>3, ToStutter
    <3>4. CASE Pending # NoData /\ Value(slots') = Pending
      <4>1. Register!Commit
        BY <3>1, <3>2, <3>4 DEF Register!Commit, Seen, Pending
      <4> QED
        BY <4>1 DEF Register!Next
    <3> QED
      BY <2>3, <3>3, <3>4
  <2> QED
    BY <2>4, <2>5
<1>9. CASE Verify
  <2>1. pc = "verify" /\ slots' = slots /\ writing \in Data /\ healthy
    BY <1>9 DEF Verify, Sound, Due
  <2>2. CASE Fault
    BY <1>2, <2>1, <2>2, ToLose DEF Register!Next
  <2>3. CASE ~Fault
    <3>1. slots[goal] = Record /\ data' = writing /\ healthy' = healthy /\ writing' = NoData
      BY <1>9, <2>3 DEF Verify, Rest
    <3>2. Value(slots) = writing
      BY <2>1, <3>1, VerifyValue
    <3>3. CASE purging
      <4>1. writing = data /\ purging' = purging
        BY <1>9, <2>1, <2>3, <3>3 DEF Sound, Due, Verify
      <4>2. Seen' = Seen /\ Pending' = Pending
        BY <3>1, <3>3, <4>1 DEF Seen, Pending
      <4> QED
        BY <2>1, <3>1, <4>2, ToStutter
    <3>4. CASE ~purging
      <4>1. purging' = FALSE
        BY <1>9, <2>3, <3>4 DEF Verify, Rest
      <4>2. Register!Acknowledge
        BY <1>1, <2>1, <3>1, <3>2, <3>4, <4>1 DEF Register!Acknowledge
      <4> QED
        BY <4>2 DEF Register!Next
    <3> QED
      BY <3>3, <3>4
  <2> QED
    BY <2>2, <2>3
<1>10. CASE Clean
  <2>1. Value(slots') = Value(slots)
    BY <1>10, EraseValue DEF Clean
  <2>2. CASE Fault
    BY <1>2, <2>1, <2>2, ToLose DEF Register!Next
  <2>3. CASE ~Fault
    <3>1. purging' = purging /\ writing' = writing /\ healthy' = healthy /\ data' = data
      BY <1>10, <2>3 DEF Clean, ram
    <3>2. Seen' = Seen /\ Pending' = Pending
      BY <3>1 DEF Seen, Pending
    <3> QED
      BY <2>1, <3>1, <3>2, ToStutter
  <2> QED
    BY <2>2, <2>3
<1>11. CASE Confirm
  <2>1. slots' = slots /\ Pending = NoData
    BY <1>11 DEF Confirm, Sound, Due, Pending
  <2>2. CASE Fault
    BY <1>2, <2>1, <2>2, ToLose DEF Register!Next
  <2>3. CASE Load(FALSE) /\ Rest
    <3>1. Pending' = NoData
      BY <2>3 DEF Rest, Pending
    <3> QED
      BY <2>1, <2>3, <3>1, ToLoad DEF Register!Next
  <2> QED
    BY <1>11, <2>2, <2>3 DEF Confirm
<1>12. CASE Cut
  <2>1. healthy' = FALSE /\ Pending' = NoData
    BY <1>12 DEF Cut, Pending
  <2>2. CASE pc = "erase"
    <3>1. Value(slots') = Value(slots)
      BY <1>12, <2>2, EraseValue DEF Cut
    <3> QED
      BY <2>1, <3>1, ToLose DEF Register!Next
  <2>3. CASE pc = "program"
    <3>1. slots' \in Programmed /\ writing \in Data
      BY <1>12, <2>3 DEF Cut, Sound, Due
    <3>2. Value(slots') = Value(slots) \/ Value(slots') = writing
      BY <2>3, <3>1, ProgramValue
    <3>3. Value(slots') = Value(slots) \/ (Pending # NoData /\ Value(slots') = Pending)
      BY <1>1, <2>3, <3>1, <3>2, PurgeValue DEF Pending
    <3> QED
      BY <2>1, <3>3, ToLose DEF Register!Next
  <2>4. CASE pc = "clean"
    <3>1. Value(slots') = Value(slots)
      BY <1>12, <2>4, EraseValue DEF Cut
    <3> QED
      BY <2>1, <3>1, ToLose DEF Register!Next
  <2>5. CASE pc \notin {"erase", "program", "clean"}
    <3>1. slots' = slots
      BY <1>12, <2>5 DEF Cut
    <3> QED
      BY <2>1, <3>1, ToLose DEF Register!Next
  <2> QED
    BY <2>2, <2>3, <2>4, <2>5
<1>13. CASE UNCHANGED vars
  <2>1. Value(slots') = Value(slots) /\ healthy' = healthy /\ Seen' = Seen /\ Pending' = Pending
    BY <1>13 DEF vars, operation, ram, Seen, Pending
  <2> QED
    BY <2>1, ToStutter
<1> QED
  BY <1>3, <1>4, <1>5, <1>6, <1>7, <1>8, <1>9, <1>10, <1>11, <1>12, <1>13 DEF Next

\* A save is atomic under loss of power and flash faults, and nothing older comes
\* back: the journal implements the durable register, whatever its size.
THEOREM JournalIsDurable == Spec => Durable
<1>1. Init => Register!Init
  <2>1. Init => Whole(slots) = {}
    BY SlotKinds DEF Init, Whole
  <2> QED
    BY <2>1 DEF Init, Register!Init, Value
<1>2. Sound /\ [Next]_vars => [Register!Next]_(Register!vars)
  BY RegisterStep
<1> QED
  BY <1>1, <1>2, JournalSound, PTL DEF Spec, Durable, Register!Spec

-----------------------------------------------------------------------------
\* What is learned of one source, and of both.
LearnedValues == [rate : Int, fine : BOOLEAN, era : Int]

LearnedRecords == [utc : LearnedValues, gps : LearnedValues]

LearnedMemory == [record : LearnedRecords, pending : LearnedRecords, healthy : BOOLEAN, wait : Nat]

LearnedFlash == [kind : {"ours", "blank", "foreign", "torn"}, rec : LearnedRecords]

LearnedHistory(y) ==
    /\ DOMAIN y = {"era", "utc", "gps", "learned", "faults"}
    /\ y.era \in Nat /\ y.utc \in LearnedValues /\ y.gps \in LearnedValues

LearnedTypes == m \in LearnedMemory /\ flash \in LearnedFlash /\ LearnedHistory(h)

\* What waits to be written is the newest that its source learned, or what is saved, which is
\* then near enough.
Staged(last, waiting, saved) == waiting = last \/ (waiting = saved /\ Learned!Near(last, saved))

\* The newest is what waits, or is near to what is saved.
LearnersGood ==
    m.healthy =>
        IF Learned!Kept(m.pending)
        THEN Staged(h.utc, m.pending.utc, m.record.utc) /\ Staged(h.gps, m.pending.gps, m.record.gps)
        ELSE Learned!Near(h.utc, m.record.utc) /\ Learned!Near(h.gps, m.record.gps)

\* A record that holds anything holds what was learned since the erasure.
OfThisEra(r) == Learned!Kept(r) => r.utc.era = h.era /\ r.gps.era \in {-1, h.era}

LearningGood ==
    LearnedTypes /\ LearnersGood /\ OfThisEra(m.record) /\ OfThisEra(m.pending) /\ OfThisEra(flash.rec)

\* Nothing learned is a value and a record.
LEMMA NothingLearned ==
    Learned!NoValue \in LearnedValues /\ Learned!NoRecord \in LearnedRecords
    /\ ~Learned!Kept(Learned!NoRecord)
  BY DEF LearnedValues, LearnedRecords, Learned!NoValue, Learned!NoRecord, Learned!Kept

\* A value is near to itself, and anything is near to nothing.
LEMMA NearItself ==
    ASSUME NEW x \in LearnedValues, NEW y \in LearnedValues
    PROVE  Learned!Near(x, x) /\ Learned!Near(Learned!NoValue, y)
  BY LearningAssumption DEF LearnedValues, Learned!Near, Learned!Moved, Learned!Apart, Learned!NoValue

\* What is staged goes on top of what waits, or of what is saved.
LEMMA BaseTyped ==
    ASSUME LearningGood
    PROVE  /\ Learned!Base \in LearnedRecords /\ OfThisEra(Learned!Base)
           /\ ~Learned!Kept(Learned!Base) => Learned!Base = Learned!NoRecord
  BY DEF LearningGood, LearnedTypes, LearnedMemory, Learned!Base, Learned!Kept

\* A rate is learned as a value of this era.
LEMMA ValueTyped ==
    ASSUME LearningGood, NEW rate \in Rates, NEW fine \in BOOLEAN
    PROVE  /\ Learned!Value(rate, fine) \in LearnedValues
           /\ Learned!Value(rate, fine).rate = rate /\ Learned!Value(rate, fine).era = h.era
  BY LearningAssumption DEF LearningGood, LearnedTypes, LearnedHistory, LearnedValues, Learned!Value

\* stage(): the value of NTP, on top of what waits.
LEMMA StageGood ==
    ASSUME LearningGood, NEW rate \in Rates, NEW fine \in BOOLEAN, Learned!Stage(rate, fine)
    PROVE  LearningGood'
  <1> DEFINE x == Learned!Value(rate, fine)
             p == [Learned!Base EXCEPT !.utc = x]
  <1>1. x \in LearnedValues /\ x.rate = rate /\ x.era = h.era
    BY ValueTyped
  <1>2. Learned!Base \in LearnedRecords /\ OfThisEra(Learned!Base)
        /\ (~Learned!Kept(Learned!Base) => Learned!Base = Learned!NoRecord)
    BY BaseTyped
  <1> HIDE DEF x
  <1>3. p \in LearnedRecords /\ p.utc = x /\ p.gps = Learned!Base.gps
    BY <1>1, <1>2 DEF LearnedRecords
  <1>4. m' = [m EXCEPT !.pending = p] /\ h' = [h EXCEPT !.learned = @ + 1, !.utc = x] /\ flash' = flash
        /\ m.healthy
    BY DEF Learned!Stage, x
  <1> HIDE DEF p
  <1>5. /\ m' \in LearnedMemory /\ m'.pending = p /\ m'.record = m.record /\ m'.healthy = m.healthy
        /\ LearnedHistory(h') /\ h'.utc = x /\ h'.gps = h.gps /\ h'.era = h.era
    <2>1. m \in LearnedMemory /\ LearnedHistory(h)
      BY DEF LearningGood, LearnedTypes
    <2>2. m' \in LearnedMemory /\ m'.pending = p /\ m'.record = m.record /\ m'.healthy = m.healthy
      BY <1>3, <1>4, <2>1 DEF LearnedMemory
    <2>3. LearnedHistory(h') /\ h'.utc = x /\ h'.gps = h.gps /\ h'.era = h.era
      BY <1>1, <1>4, <2>1 DEF LearnedHistory
    <2> QED
      BY <2>2, <2>3
  <1>6. Learned!Kept(p)
    BY <1>1, <1>3, LearningAssumption DEF Learned!Kept, Learned!NoRecord, Learned!NoValue
  <1>7. Staged(h.gps, p.gps, m.record.gps)
    <2>1. CASE Learned!Kept(m.pending)
      BY <2>1, <1>3, <1>4 DEF LearningGood, LearnersGood, Learned!Base
    <2>2. CASE ~Learned!Kept(m.pending)
      BY <2>2, <1>3, <1>4 DEF LearningGood, LearnersGood, Learned!Base, Staged
    <2> QED
      BY <2>1, <2>2
  <1>10. Staged(x, p.utc, m.record.utc)
    BY <1>3 DEF Staged
  <1>8. LearnersGood'
    BY <1>5, <1>6, <1>7, <1>10 DEF LearnersGood
  <1>9. p.gps.era \in {-1, h.era}
    <2>1. CASE Learned!Kept(Learned!Base)
      BY <2>1, <1>2, <1>3 DEF OfThisEra
    <2>2. CASE ~Learned!Kept(Learned!Base)
      BY <2>2, <1>2, <1>3 DEF Learned!NoRecord, Learned!NoValue
    <2> QED
      BY <2>1, <2>2
  <1> QED
    BY <1>1, <1>3, <1>4, <1>5, <1>8, <1>9 DEF LearningGood, LearnedTypes, OfThisEra, Learned!Kept, Learned!NoRecord

\* stage_gps(): the value of GPS, beside that of NTP.
LEMMA StageGpsGood ==
    ASSUME LearningGood, NEW rate \in Rates, NEW fine \in BOOLEAN, Learned!StageGps(rate, fine)
    PROVE  LearningGood'
  <1> DEFINE x == Learned!Value(rate, fine)
             z == Learned!Value(rate, FALSE)
             kept == Learned!Kept(Learned!Base)
             p == [utc |-> IF kept THEN Learned!Base.utc ELSE z, gps |-> x]
  <1>1. /\ x \in LearnedValues /\ x.rate = rate /\ x.era = h.era
        /\ z \in LearnedValues /\ z.rate = rate /\ z.era = h.era
    BY ValueTyped
  <1>2. Learned!Base \in LearnedRecords /\ OfThisEra(Learned!Base)
    BY BaseTyped
  <1>4. m' = [m EXCEPT !.pending = p] /\ flash' = flash /\ m.healthy
        /\ h' = [h EXCEPT !.learned = @ + 1, !.gps = x, !.utc = IF kept THEN @ ELSE z]
    BY DEF Learned!StageGps
  <1> HIDE DEF x, z
  <1>3. p \in LearnedRecords /\ p.gps = x /\ p.utc = IF kept THEN Learned!Base.utc ELSE z
    BY <1>1, <1>2 DEF LearnedRecords
  <1> HIDE DEF p
  <1>5. /\ m' \in LearnedMemory /\ m'.pending = p /\ m'.record = m.record /\ m'.healthy = m.healthy
        /\ LearnedHistory(h') /\ h'.gps = x /\ h'.utc = (IF kept THEN h.utc ELSE z) /\ h'.era = h.era
    <2>1. m \in LearnedMemory /\ LearnedHistory(h) /\ kept \in BOOLEAN
      BY DEF LearningGood, LearnedTypes, Learned!Kept
    <2>2. m' \in LearnedMemory /\ m'.pending = p /\ m'.record = m.record /\ m'.healthy = m.healthy
      BY <1>3, <1>4, <2>1 DEF LearnedMemory
    <2> HIDE DEF kept
    <2>3. LearnedHistory(h') /\ h'.gps = x /\ h'.utc = (IF kept THEN h.utc ELSE z) /\ h'.era = h.era
      BY <1>1, <1>4, <2>1 DEF LearnedHistory
    <2> QED
      BY <2>2, <2>3
  <1>6. Learned!Kept(p)
    BY <1>1, <1>3, LearningAssumption DEF Learned!Kept, Learned!NoRecord, Learned!NoValue
  <1>7. Staged(h'.utc, p.utc, m.record.utc)
    <2>1. CASE ~kept
      BY <2>1, <1>3, <1>5 DEF Staged
    <2>2. CASE kept /\ Learned!Kept(m.pending)
      BY <2>2, <1>3, <1>4, <1>5 DEF LearningGood, LearnersGood, Learned!Base
    <2>3. CASE kept /\ ~Learned!Kept(m.pending)
      BY <2>3, <1>3, <1>4, <1>5 DEF LearningGood, LearnersGood, Learned!Base, Staged
    <2> QED
      BY <2>1, <2>2, <2>3
  <1>8. LearnersGood'
    BY <1>3, <1>5, <1>6, <1>7 DEF LearnersGood, Staged, Learned!Kept, Learned!Near, Learned!Moved, Learned!Apart, Learned!NoRecord
  <1>9. p.utc.era = h.era
    BY <1>1, <1>2, <1>3 DEF OfThisEra
  <1> QED
    BY <1>1, <1>3, <1>4, <1>5, <1>8, <1>9 DEF LearningGood, LearnedTypes, OfThisEra, Learned!Kept, Learned!NoRecord

\* flush() drops what is near enough to what is saved.
LEMMA FlushDropsGood ==
    ASSUME LearningGood, Learned!FlushDrops
    PROVE  LearningGood'
  <1>1. /\ m' \in LearnedMemory /\ m'.pending = Learned!NoRecord /\ m'.record = m.record
        /\ m'.healthy = m.healthy /\ h' = h /\ flash' = flash
    BY NothingLearned DEF Learned!FlushDrops, LearningGood, LearnedTypes, LearnedMemory
  <1>2. Learned!Near(h.utc, m.record.utc) /\ Learned!Near(h.gps, m.record.gps)
    BY DEF LearningGood, LearnersGood, Staged, Learned!FlushDrops, Learned!Changed, Learned!Near
  <1>3. LearnersGood'
    BY <1>1, <1>2 DEF LearnersGood, Learned!Kept, Learned!Near, Learned!Moved, Learned!Apart, Learned!NoRecord
  <1> QED
    BY <1>1, <1>3 DEF LearningGood, LearnedTypes, OfThisEra, Learned!Kept, Learned!NoRecord

\* flush() saves what waits.
LEMMA FlushWritesGood ==
    ASSUME LearningGood, Learned!FlushWrites
    PROVE  LearningGood'
  <1>1. m \in LearnedMemory /\ m.pending \in LearnedRecords
    BY DEF LearningGood, LearnedTypes, LearnedMemory
  <1>2. /\ m' \in LearnedMemory /\ m'.pending = Learned!NoRecord /\ m'.record = m.pending
        /\ m'.healthy = m.healthy /\ h' = h
    BY <1>1, NothingLearned, LearningAssumption DEF Learned!FlushWrites, LearnedMemory
  <1>3. flash' \in LearnedFlash /\ flash'.rec = m.pending
    BY <1>1 DEF Learned!FlushWrites, LearnedFlash
  <1>4. /\ h.utc \in LearnedValues /\ h.gps \in LearnedValues
        /\ m.healthy /\ Learned!Kept(m.pending)
    BY DEF LearningGood, LearnedTypes, LearnedHistory, Learned!FlushWrites, Learned!Writes
  <1>5. Learned!Near(h.utc, m.pending.utc) /\ Learned!Near(h.gps, m.pending.gps)
    BY <1>4, NearItself DEF LearningGood, LearnersGood, Staged
  <1>6. LearnersGood'
    BY <1>2, <1>5 DEF LearnersGood, Learned!Kept, Learned!Near, Learned!Moved, Learned!Apart, Learned!NoRecord
  <1> QED
    BY <1>2, <1>3, <1>6 DEF LearningGood, LearnedTypes, OfThisEra, Learned!Kept, Learned!NoRecord

\* A fault is counted, and nothing else.
LEMMA FaultedTyped ==
    ASSUME LearningGood
    PROVE  /\ LearnedHistory(Learned!Faulted) /\ Learned!Faulted.era = h.era
  <1>1. LearnedHistory(h)
    BY DEF LearningGood, LearnedTypes
  <1> QED
    BY <1>1 DEF Learned!Faulted, LearnedHistory

\* A write that fails, whether flash has it or not, leaves the cache unhealthy.
LEMMA FlushFailsGood ==
    ASSUME LearningGood, Learned!FlushFails
    PROVE  LearningGood'
  <1>1. m \in LearnedMemory /\ m.pending \in LearnedRecords
    BY DEF LearningGood, LearnedTypes, LearnedMemory
  <1>2. /\ m' \in LearnedMemory /\ m'.pending = m.pending /\ m'.record = m.record /\ ~m'.healthy
    BY <1>1 DEF Learned!FlushFails, LearnedMemory
  <1>3. flash' \in LearnedFlash /\ flash'.rec \in {m.pending, flash.rec}
    BY <1>1 DEF Learned!FlushFails, LearnedFlash, LearningGood, LearnedTypes
  <1>4. LearnedHistory(h') /\ h'.era = h.era
    BY FaultedTyped DEF Learned!FlushFails
  <1> QED
    BY <1>2, <1>3, <1>4 DEF LearningGood, LearnersGood, LearnedTypes, OfThisEra, Learned!Kept, Learned!NoRecord

\* What a start finds is what is on flash, if it is of this device.
LEMMA LoadedGood ==
    ASSUME NEW f \in LearnedFlash
    PROVE  /\ Learned!Loaded(f) \in LearnedMemory
           /\ Learned!Loaded(f).pending = Learned!NoRecord
           /\ Learned!Loaded(f).record \in {f.rec, Learned!NoRecord}
  BY NothingLearned DEF Learned!Loaded, LearnedMemory, LearnedFlash

\* A restart loads what flash holds, if it is whole and its own.
LEMMA RebootGood ==
    ASSUME LearningGood, Learned!Reboot
    PROVE  LearningGood'
  <1>1. flash' \in LearnedFlash /\ flash'.rec \in {m.pending, flash.rec}
    BY DEF Learned!Reboot, LearnedFlash, LearnedMemory, LearningGood, LearnedTypes
  <1>2. /\ m' \in LearnedMemory /\ m'.pending = Learned!NoRecord
        /\ m'.record \in {flash'.rec, Learned!NoRecord}
    BY <1>1, LoadedGood DEF Learned!Reboot
  <1>3. m'.record \in LearnedRecords
    BY <1>2 DEF LearnedMemory
  <1>4. /\ LearnedHistory(h') /\ h'.era = h.era
        /\ h'.utc = m'.record.utc /\ h'.gps = m'.record.gps
    BY <1>3, FaultedTyped DEF Learned!Reboot, LearnedHistory, LearnedRecords
  <1>5. Learned!Near(h'.utc, m'.record.utc) /\ Learned!Near(h'.gps, m'.record.gps)
    BY <1>3, <1>4, NearItself DEF LearnedRecords
  <1>6. LearnersGood'
    BY <1>2, <1>5 DEF LearnersGood, Learned!Kept, Learned!Near, Learned!Moved, Learned!Apart, Learned!NoRecord
  <1> QED
    BY <1>1, <1>2, <1>4, <1>6 DEF LearningGood, LearnedTypes, OfThisEra, Learned!Kept, Learned!NoRecord

\* A factory reset erases memory and flash.
LEMMA EraseGood ==
    ASSUME LearningGood, Learned!Erase
    PROVE  LearningGood'
  <1>1. flash' \in LearnedFlash /\ flash'.rec = Learned!NoRecord
    BY NothingLearned DEF Learned!Erase, LearnedFlash
  <1>2. m' \in LearnedMemory /\ m'.pending = Learned!NoRecord /\ m'.record = Learned!NoRecord
    BY <1>1, LoadedGood DEF Learned!Erase, Learned!Erased
  <1>3. LearnedHistory(h') /\ h'.utc = Learned!NoValue /\ h'.gps = Learned!NoValue
    <2> DEFINE g == Learned!Faulted
    <2>1. LearnedHistory(g)
      BY FaultedTyped
    <2>2. h' = [g EXCEPT !.era = g.era + 1, !.utc = Learned!NoValue, !.gps = Learned!NoValue]
      BY DEF Learned!Erase
    <2> HIDE DEF g
    <2> QED
      BY <2>1, <2>2, NothingLearned DEF LearnedHistory
  <1>4. LearnersGood'
    BY <1>2, <1>3 DEF LearnersGood, Learned!Kept, Learned!Near, Learned!NoRecord, Learned!NoValue, Learned!Moved, Learned!Apart
  <1> QED
    BY <1>1, <1>2, <1>3, <1>4 DEF LearningGood, LearnedTypes, OfThisEra, Learned!Kept, Learned!NoRecord

\* An erasure that fails leaves flash as it was, and a cache that is empty and unhealthy.
LEMMA EraseFailsGood ==
    ASSUME LearningGood, Learned!EraseFails
    PROVE  LearningGood'
  <1>1. /\ m' \in LearnedMemory /\ m'.pending = Learned!NoRecord /\ m'.record = Learned!NoRecord
        /\ ~m'.healthy /\ flash' = flash
    BY NothingLearned DEF Learned!EraseFails, LearnedMemory
  <1>2. LearnedHistory(h') /\ h'.era = h.era
    BY NothingLearned, FaultedTyped DEF Learned!EraseFails, LearnedHistory
  <1> QED
    BY <1>1, <1>2 DEF LearningGood, LearnersGood, LearnedTypes, OfThisEra, Learned!Kept, Learned!NoRecord

\* The cooldown runs.
LEMMA LearningTickGood ==
    ASSUME LearningGood, Learned!Tick
    PROVE  LearningGood'
  <1>1. /\ m' \in LearnedMemory /\ m'.pending = m.pending /\ m'.record = m.record
        /\ m'.healthy = m.healthy /\ h' = h /\ flash' = flash
    BY DEF Learned!Tick, LearningGood, LearnedTypes, LearnedMemory
  <1> QED
    BY <1>1 DEF LearningGood, LearnersGood, LearnedTypes, OfThisEra, Staged, Learned!Kept, Learned!Near,
                Learned!Moved, Learned!Apart, Learned!NoRecord

\* The cache after the first load.
LEMMA LearningStart ==
    ASSUME Learned!Init
    PROVE  LearningGood
  <1>1. flash \in LearnedFlash /\ flash.rec = Learned!NoRecord
    BY NothingLearned DEF Learned!Init, LearnedFlash
  <1>2. m \in LearnedMemory /\ m.pending = Learned!NoRecord /\ m.record = Learned!NoRecord
    BY <1>1, LoadedGood DEF Learned!Init
  <1>3. LearnedHistory(h) /\ h.utc = Learned!NoValue /\ h.gps = Learned!NoValue
    BY NothingLearned DEF Learned!Init, LearnedHistory
  <1> QED
    BY <1>1, <1>2, <1>3 DEF LearningGood, LearnersGood, LearnedTypes, OfThisEra, Learned!Kept, Learned!Near,
                            Learned!NoRecord, Learned!NoValue

\* Every operation keeps the invariant.
LEMMA LearningStep ==
    ASSUME LearningGood, Learned!Next
    PROVE  LearningGood'
  BY StageGood, StageGpsGood, FlushDropsGood, FlushWritesGood, FlushFailsGood, RebootGood, EraseGood,
     EraseFailsGood, LearningTickGood DEF Learned!Next

\* The invariant has what the cache promises.
LEMMA LearningGoodSound ==
    ASSUME LearningGood
    PROVE  Learned!LearningKept
  <1>1. m.healthy => Learned!Near(h.utc, Learned!Base.utc) /\ Learned!Near(h.gps, Learned!Base.gps)
    <2>1. h.utc \in LearnedValues /\ h.gps \in LearnedValues
      BY DEF LearningGood, LearnedTypes, LearnedHistory
    <2> QED
      BY <2>1, NearItself DEF LearningGood, LearnersGood, Staged, Learned!Base
  <1> QED
    BY <1>1 DEF LearningGood, OfThisEra, Learned!LearningKept, Learned!LearnersKept, Learned!ErasedForgotten

\* The cache of learned rates holds the newest that NTP and GPS taught, and nothing that a factory
\* reset erased: stage(), stage_gps(), flush() and load() of ntp_retention.hpp.
THEOREM LearningHolds == StoreSpec => []LearningKept
  <1> DEFINE Inv == focus = "learned" => LearningGood
  <1>1. StoreInit => Inv
    BY LearningStart DEF StoreInit
  <1>2. Inv /\ [StoreNext]_store => Inv'
    <2>1. ASSUME Inv, StoreNext PROVE Inv'
      BY <2>1, LearningStep DEF StoreNext
    <2>2. ASSUME Inv, UNCHANGED store PROVE Inv'
      BY <2>2 DEF store, LearnedOnly, LearningGood, LearnersGood, LearnedTypes, OfThisEra, Staged, Learned!Kept, Learned!Near,
                Learned!Moved, Learned!Apart, Learned!NoRecord
    <2> QED
      BY <2>1, <2>2
  <1>3. Inv => LearningKept
    BY LearningGoodSound DEF LearningKept
  <1> QED
    BY <1>1, <1>2, <1>3, PTL DEF StoreSpec

=============================================================================
