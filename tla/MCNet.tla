-------------------------------- MODULE MCNet --------------------------------
(***************************************************************************)
(* The device on the network, one part at a time (focus): the sealed radio *)
(* API of the owner's browser, the setup server of a new device, and the   *)
(* TLS and HTTP server.                                                    *)
(***************************************************************************)
EXTENDS Integers, Sequences, FiniteSets

CONSTANTS
    Channels, Login, Inactive, Absolute, Proof, Packets, LastSequence, MaxCalls, Places,
    Starts, Requests, Logins, Outcomes, MaxRequests, MaxTurns,
    Modes, LastGeneration

VARIABLES focus, d, e, s, c, v, h

\* One connection that may do much, or two that do less.
ServerLoads == {[sockets |-> 1, calls |-> 8], [sockets |-> 2, calls |-> 5]}

Radio == INSTANCE Radio WITH
    Slots <- Channels, Idle <- Inactive, Kinds <- Packets, MaxSteps <- MaxCalls

Boot == INSTANCE Bootstrap WITH Kinds <- Requests, MaxChanges <- MaxTurns

Serve == INSTANCE Server WITH Loads <- ServerLoads

vars == <<focus, d, e, s, c, v, h>>

Init ==
    \/ focus = "radio" /\ Radio!Init /\ s = 0 /\ c = 0 /\ v = 0
    \/ focus = "boot" /\ Boot!Init /\ d = 0 /\ e = 0 /\ v = 0
    \/ focus = "server" /\ Serve!Init /\ d = 0 /\ e = 0 /\ s = 0

Next ==
    \/ focus = "radio" /\ Radio!Next /\ UNCHANGED <<focus, s, c, v>>
    \/ focus = "boot" /\ Boot!Next /\ UNCHANGED <<focus, d, e, v>>
    \/ focus = "server" /\ Serve!Next /\ UNCHANGED <<focus, d, e, s>>

Spec == Init /\ [][Next]_vars

\* No packet is served twice or for a session that has ended, what is pending has
\* its session, and a recovery ends the session it named and no other (Radio).
RadioSound ==
    /\ [](focus = "radio" => Radio!RequestsAuthorised /\ Radio!DeferredOwned)
    /\ [][focus = "radio" => Radio!RecoveryStep]_vars

\* One setup at a time; a trial leaves nothing behind; a profile is written for an
\* answered submission, and a result is shown before the restart (Bootstrap).
SetupSound ==
    focus = "boot" =>
        Boot!ExclusiveSetup /\ Boot!TrialUndone /\ Boot!CommitsAnswered /\ Boot!ResultShown

\* One WTP connection; a change is applied once its own response is acknowledged;
\* buffers belong to their socket; closed admission means no socket (Server).
ServerSound ==
    focus = "server" =>
        Serve!WtpExclusive /\ Serve!AppliedAcknowledged /\ Serve!BytesOwned /\ Serve!AdmissionHeld

=============================================================================
