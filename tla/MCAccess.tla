------------------------------ MODULE MCAccess ------------------------------
(***************************************************************************)
(* Local access, one surface at a time (focus): the browser of the setup   *)
(* access point, the Bluetooth field commands, the Bluetooth link below    *)
(* them, and the window in which the access point is open.                 *)
(***************************************************************************)
EXTENDS Integers, Sequences, FiniteSets

CONSTANTS ProofLife, Inactivity, Absolute,
          ApBonds, ApSlots, ApWindow, Passwords, Wtp, MaxTokens, MaxProofs, ApTime,
          BondCap, Slots, Window, Peers, Values, ReplayCap, Fragments, Retention, SessionTimeout,
          Delivery, MaxCommands, EnrollAfter, BleTime,
          LinkPeers, Deadline, MaxEndpoints, LinkTime,
          Drain, Stable, Fallback, Grace, Reopen, Manual, FieldTime, MaxAsked

\* The periods of the access point's window are not empty.
ASSUME PeriodsAssumption == Manual \in Nat \ {0} /\ Reopen \in Nat \ {0}

\* The access point has slots for logins, a login is not idle at once, and "none" is no session.
ASSUME LoginsAssumption ==
    /\ ApSlots \in Nat /\ Absolute \in Nat /\ Inactivity \in Nat \ {0} /\ ProofLife \in Nat
    /\ "none" \notin Wtp

VARIABLES focus, a, clk, surface, job, hello, chal, pending, flight, tx, over, proved, done,
          s, m, c, busy, n, proven, ran, l, h

ApOnly == <<surface, job, hello, chal, pending, flight, tx, over, proved, done>>

BleOnly == <<m, c, busy, n, proven, ran>>

vars == <<focus, a, clk, ApOnly, BleOnly, s, l, h>>

Ap == INSTANCE SoftAp WITH BondCap <- ApBonds, Slots <- ApSlots, Window <- ApWindow, MaxTime <- ApTime

Ble == INSTANCE BleField WITH MaxTime <- BleTime

Link == INSTANCE GattLink WITH Peers <- LinkPeers, MaxTime <- LinkTime

Field == INSTANCE FieldRuntime WITH MaxTime <- FieldTime

Init ==
    \/ focus = "ap" /\ Ap!Init /\ s = 0 /\ m = 0 /\ c = 0 /\ busy = 0 /\ n = 0 /\ proven = 0 /\ ran = 0
       /\ l = 0 /\ h = 0
    \/ focus = "ble" /\ Ble!Init /\ surface = 0 /\ job = 0 /\ hello = 0 /\ chal = 0 /\ pending = 0 /\ flight = 0
       /\ tx = 0 /\ over = 0 /\ proved = 0 /\ done = 0 /\ l = 0 /\ h = 0
    \/ focus = "link" /\ Link!Init /\ a = 0 /\ clk = 0 /\ s = 0 /\ h = 0 /\ m = 0 /\ c = 0 /\ busy = 0
       /\ n = 0 /\ proven = 0 /\ ran = 0 /\ surface = 0 /\ job = 0 /\ hello = 0 /\ chal = 0 /\ pending = 0
       /\ flight = 0 /\ tx = 0 /\ over = 0 /\ proved = 0 /\ done = 0
    \/ focus = "field" /\ Field!Init /\ a = 0 /\ clk = 0 /\ l = 0 /\ m = 0 /\ c = 0 /\ busy = 0
       /\ n = 0 /\ proven = 0 /\ ran = 0 /\ surface = 0 /\ job = 0 /\ hello = 0 /\ chal = 0 /\ pending = 0
       /\ flight = 0 /\ tx = 0 /\ over = 0 /\ proved = 0 /\ done = 0

Next ==
    \/ focus = "ap" /\ Ap!Next /\ UNCHANGED <<focus, BleOnly, s, l, h>>
    \/ focus = "ble" /\ Ble!Next /\ UNCHANGED <<focus, ApOnly, l, h>>
    \/ focus = "link" /\ Link!Next /\ UNCHANGED <<focus, a, clk, s, ApOnly, BleOnly, h>>
    \/ focus = "field" /\ Field!Next /\ UNCHANGED <<focus, a, clk, ApOnly, BleOnly, l>>

Spec == Init /\ [][Next]_vars

\* Whoever armed a job can abort it while it is armed, or submit the time when
\* the device has lost its clock and refuses ABORT, authority follows the present
\* password, every sensitive change uses up a proof, and a challenge whose reply
\* is lost is withdrawn (SoftAp).
BrowserSound ==
    focus = "ap" => Ap!OwnerCanAbort /\ Ap!PasswordGoverns /\ Ap!ChallengeReturned

\* Nothing is admitted under a replaced profile, no activation runs twice, every
\* bond of the stack is in the record or is being enrolled, and a profile is
\* committed only as the password was given for it (BleField).
FieldTrust ==
    /\ [](focus = "ble" => Ble!OldTrustEnds /\ Ble!BondsAccounted)
    /\ [][focus = "ble" => Ble!CommitStep]_vars

\* An acknowledgement belongs to the endpoint connection that sent, a retained
\* write request is resumed in time or the link closed, and nothing is sent once
\* encryption or authority is lost (GattLink).
LinkSound ==
    focus = "link" => Link!CompletionMatched /\ Link!RequestKept /\ Link!SilentWhenLost

\* An unattended access point closes, and a device without its station can be
\* reached (FieldRuntime).
WindowSound == focus = "field" => Field!WindowBounded /\ Field!OutageOpens

=============================================================================
