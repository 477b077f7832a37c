------------------------------ MODULE MCClients ------------------------------
(***************************************************************************)
(* Clients against the service (focus): two sessions and two principals    *)
(* that share request ids ("sessions"), and one that retries while the     *)
(* interlock or maintenance begins ("interlock").                          *)
(***************************************************************************)
EXTENDS MCJobService

CONSTANTS OneSession, OnePrincipal, OneRequest

VARIABLE focus

Lock == INSTANCE MCJobService WITH
    Leases <- {2}, ReplayTtl <- 99, TerminalTtl <- 99, MaxSessions <- 1, MaintenanceHold <- 1,
    MaxTime <- 3, RequestHorizon <- 3

OneClient ==
    {[session |-> OneSession, principal |-> OnePrincipal, id |-> q] :
        q \in {OneRequest, NoRequestId}}

clients == <<focus, vars>>

FocusInit ==
    \/ focus = "interlock" /\ Lock!Init
    \/ focus = "sessions" /\ Init

FocusNext ==
    /\ UNCHANGED focus
    /\ \/ focus = "interlock" /\ Lock!InterlockNext(OneClient)
       \/ focus = "sessions" /\ SessionNext

FocusSpec == FocusInit /\ [][FocusNext]_clients

FocusView == IF focus = "sessions" THEN <<focus, ReplyView>> ELSE <<focus, BareView>>

===============================================================================
