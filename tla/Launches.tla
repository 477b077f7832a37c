------------------------------- MODULE Launches -------------------------------
(***************************************************************************)
(* How long a message that has been sent stays sent. The job service knows *)
(* the jobs it has executed only from the records it retains; this module  *)
(* follows its executions from outside, in a history variable that no      *)
(* handler reads, and forgets one only when WTP lets the service forget it *)
(* (WTP.md, terminal records).                                             *)
(***************************************************************************)
EXTENDS JobService

VARIABLE
    ends    \* the executions that have ended and have to be remembered

history == <<vars, ends>>

\* A job is due or on the air.
Executing == {"ARMED", "RUNNING"}

JobsOf(T) == {r.job : r \in T}

\* The execution that this step ends, however it ends.
Finished ==
    IF svc.state \in Executing /\ ~(svc'.state \in Executing /\ svc'.job = svc.job)
    THEN {[job |-> svc.job.id, at |-> now]} ELSE {}

\* As many other jobs are on record as there is room for: the records before
\* the step count too, for one call may record a job and prune another.
Crowded(id) ==
    Cardinality((JobsOf(svc.terminals) \cup JobsOf(svc'.terminals)) \ {id}) >= TerminalCap

\* An execution has to be remembered for terminal_record_ttl, unless the
\* records of other jobs fill the list first. A boot remembers nothing.
Follow ==
    ends' = IF svc'.boot # svc.boot THEN {}
            ELSE {e \in ends : now' - e.at < TerminalTtl /\ ~Crowded(e.job)} \cup Finished

HInit == Init /\ ends = {}
HNext == Next /\ Follow

HSpec == HInit /\ [][HNext]_history

-------------------------------------------------------------------------------
\* Until the record of its end may be dropped, a job that was armed is not
\* accepted again: neither a repeated LOAD and ARM nor another client can send
\* the same message twice. After that they can, and the service does not know.
NotAgain == svc.state \in Live => \A e \in ends : e.job # svc.job.id

\* A message goes out once within the retention of its record, which is in
\* the list all that time and is about one job.
MessageOnce ==
    /\ NotAgain /\ SingleExecution /\ RecordsCoherent
    /\ \A e \in ends : \E r \in svc.terminals : r.job = e.job /\ r.at = e.at
===============================================================================
