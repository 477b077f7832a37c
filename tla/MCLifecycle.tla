----------------------------- MODULE MCLifecycle -----------------------------
(***************************************************************************)
(* The lifecycle of jobs on four boards (focus): the firmware's, whose     *)
(* engine starts by itself; one whose jobs poll() launches ("service");    *)
(* one with calibrations to freeze, saved corrections and resets           *)
(* ("pairs"); and one with room for two records, on which three jobs are   *)
(* recorded, retried, evicted and sent again ("records"). Properties whose *)
(* terms the boards share are JobService's and Launches'.                  *)
(***************************************************************************)
EXTENDS MCJobService, Launches

VARIABLE focus

Life == INSTANCE MCJobService WITH TerminalCap <- 1, Jobs <- TwoJobs

ByService == INSTANCE MCJobService WITH TerminalCap <- 1, Local <- FALSE, Jobs <- OneJob

Pairs == INSTANCE MCJobService WITH
    TerminalCap <- 1, Jobs <- TwoJobs, Clocks <- SteadyClock, MaxTime <- 3,
    RequestHorizon <- 3, MaxBoots <- 1

Records == INSTANCE MCJobService WITH Clocks <- SteadyClock, MaxTime <- 4, RequestHorizon <- 4

OneRecord == INSTANCE Launches WITH TerminalCap <- 1

lifecycle == <<focus, history>>

FocusInit ==
    /\ ends = {}
    /\ \/ focus = "life" /\ Life!Init /\ saved = 0
       \/ focus = "service" /\ ByService!Init /\ saved = 0
       \/ focus = "pairs" /\ Pairs!Init
       \/ focus = "records" /\ Records!Init /\ saved = 0

FocusNext ==
    /\ UNCHANGED focus
    /\ \/ focus = "life" /\ Life!LifecycleNext /\ OneRecord!Follow
       \/ focus = "service" /\ ByService!LifecycleNext /\ OneRecord!Follow
       \/ focus = "pairs" /\ Pairs!CalibrationNext /\ OneRecord!Follow
       \/ focus = "records" /\ Records!RecordsNext /\ Follow

FocusSpec == FocusInit /\ [][FocusNext]_lifecycle

FocusView == <<focus, BareView, ends>>

===============================================================================
