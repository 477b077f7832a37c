-------------------------------- MODULE MCRf --------------------------------
(***************************************************************************)
(* The two output engines and their driver chains: a board has one of them *)
(* (focus), the other one's state stays what it is at first. What both     *)
(* have (fit, now, amp, fil, faults) the Si5351 keeps under other names.   *)
(***************************************************************************)
EXTENDS Sink

CONSTANTS Jobs, SiChains, Step, Budget, MaxTransactions

\* A plan has a tone, an event a length; a reference is on the board or not.
ASSUME SiAssumption ==
    /\ Step \in Nat \ {0}
    /\ SiChains \subseteq [amp : BOOLEAN, fil : BOOLEAN, gate : BOOLEAN, ref : BOOLEAN]
    /\ \A job \in Jobs :
          /\ job.tone \in Seq(STRING \ {"none"})
          /\ \E i \in DOMAIN job.tone : job.tone[i] # "off"

AllSinkChains ==
    {x \in [amp : BOOLEAN, fil : BOOLEAN, ind : BOOLEAN] : x.amp => x.fil = x.ind}

Boards ==
    {[amp |-> x[1], fil |-> x[1], gate |-> x[2], ref |-> x[2]] :
        x \in {<<TRUE, FALSE>>, <<FALSE, TRUE>>, <<FALSE, FALSE>>}}

TwoJobs == {[band |-> "hf", tone |-> <<"a", "off", "b">>], [band |-> "vhf", tone |-> <<"a", "b">>]}

VARIABLES focus, board, clk, pa, lpf, failed, chip, belief, gating, engine, monitor

SiVars == <<board, clk, pa, lpf, failed, chip, belief, gating, engine, monitor>>

Si == INSTANCE Si5351 WITH fit <- board, now <- clk, amp <- pa, fil <- lpf, faults <- failed,
    c <- chip, v <- belief, g <- gating, e <- engine, m <- monitor

NoSi == board = 0 /\ clk = 0 /\ pa = 0 /\ lpf = 0 /\ failed = 0
        /\ chip = 0 /\ belief = 0 /\ gating = 0 /\ engine = 0 /\ monitor = 0

RfInit ==
    \/ focus = "sink" /\ Init /\ NoSi
    \/ focus = "si5351" /\ Si!Init /\ Init /\ fit = [amp |-> FALSE, fil |-> FALSE, ind |-> FALSE]

RfNext ==
    \/ focus = "sink" /\ Next /\ UNCHANGED <<focus, SiVars>>
    \/ focus = "si5351" /\ Si!Next /\ UNCHANGED <<focus, vars>>

RfSpec == RfInit /\ [][RfNext]_<<focus, vars, SiVars>>

\* While RF is out the chip is tuned to the present event and the chain is
\* ready; no RF is left behind an engine that reports its output off (Si5351).
ToneSound == focus = "si5351" => Si!RightTone /\ Si!NeverSilent /\ Si!SiChain

\* The reference output is quiet around a job and its result is fresh (Si5351).
RefQuiet == focus = "si5351" => Si!RefQuiet

=============================================================================
