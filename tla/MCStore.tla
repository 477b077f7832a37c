-------------------------------- MODULE MCStore --------------------------------
(***************************************************************************)
(* What the device keeps on flash, one part at a time (focus): the journal *)
(* of two banks, the records of the owner with claim and reset, and what   *)
(* the clock has learned. A part out of focus stays as it is at first.     *)
(***************************************************************************)
EXTENDS Journal, Integers

CONSTANTS MaxWork, MaxFaults, Levels, Rates, Step, Cooldown, MaxLearn, MaxTroubles

\* Rates are numbers of which -1, that of nothing learned, is none; a meaningful change is
\* not empty.
ASSUME LearningAssumption ==
    Rates \subseteq Int \ {-1} /\ Step \in Nat \ {0} /\ Cooldown \in Nat /\ MaxTroubles \in Nat

VARIABLES focus, d, m, mode, work, faults, rot, told, rst, pairs, flash, h

Owner == INSTANCE Provisioning

Learned == INSTANCE Retention WITH MaxFaults <- MaxTroubles

OwnerOnly == <<d, mode, work, faults, rot, told, rst, pairs>>

LearnedOnly == <<flash, h>>

store == <<focus, m, OwnerOnly, vars, LearnedOnly>>

NoOwner ==
    d = 0 /\ mode = 0 /\ work = 0 /\ faults = 0 /\ rot = 0 /\ told = 0 /\ rst = 0 /\ pairs = 0

StoreInit ==
    /\ Init
    /\ \/ focus = "owner" /\ Owner!Init /\ flash = 0 /\ h = 0
       \/ focus = "journal" /\ m = 0 /\ NoOwner /\ flash = 0 /\ h = 0
       \/ focus = "learned" /\ Learned!Init /\ NoOwner

StoreNext ==
    \/ focus = "owner" /\ Owner!Next /\ UNCHANGED <<focus, vars, LearnedOnly>>
    \/ focus = "journal" /\ Next /\ UNCHANGED <<focus, m, OwnerOnly, LearnedOnly>>
    \/ focus = "learned" /\ Learned!Next /\ UNCHANGED <<focus, OwnerOnly, vars>>

StoreSpec == StoreInit /\ [][StoreNext]_store

\* Whatever write fails or is cut, flash holds what was asked for, and no load
\* goes back to an earlier generation but for a reset (Provisioning).
OwnerKept ==
    /\ [](focus = "owner" => Owner!StoreWhole)
    /\ [][focus = "owner" =>
            Owner!GenerationStep(Owner!LoadProfile(d.pm), Owner!LoadProfile(d'.pm))]_store

\* The cache holds the newest both learners know, and nothing erased (Retention).
LearningKept == focus = "learned" => Learned!LearningKept

===============================================================================
