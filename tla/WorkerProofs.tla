----------------------------- MODULE WorkerProofs -----------------------------
(***************************************************************************)
(* Theorems of Worker, for every MaxClock. None of the properties is       *)
(* inductive by itself: that nothing restarts once stopped needs who owns  *)
(* the mailbox and what the latch excludes, that the flash operation meets *)
(* a quiet core needs what the suspension excludes from its grant to its   *)
(* return. IInv says those.                                                *)
(***************************************************************************)
EXTENDS Worker, TLAPS

\* Core 1 serves a call; has polled for it; has served it. A stream has ended.
Serving == {"copy", "copied", "admit", "serve", "armed", "reprobe", "rehalt", "seal", "report",
            "publish"}
Polled == {"look", "copy", "copied", "admit", "serve"}
Served == {"reprobe", "rehalt", "seal", "report", "publish"}
Ended == {"complete", "missed", "failed"}

\* The mailbox: who owns it when.
Rendezvous ==
    /\ pc1 \in Serving => phase = 1
    /\ phase # 0 => pc0 \notin {"free", "staged"}
    /\ pc0 = "wait" => phase # 0
    /\ pc0 \notin {"free", "staged", "wait"} => latch
    /\ flash \in {"enter", "open"} => pc0 = "free"

\* The latch, the stop and what they exclude.
Latching ==
    /\ (stopped \/ pc1 \in {"halt", "rehalt"}) => latch
    /\ stopped => ~sm /\ st \notin Executing /\ sink \notin Executing /\ pc1 # "armed"
    /\ irq # "none" => sink = "armed" /\ pc1 # "copied" /\ flash # "open"
    /\ pc0 = "dead" => oeover = "low"
    /\ pc0 = "wait" /\ pc1 \in {"seal", "report", "publish"} /\ latch => stopped
    /\ pc1 \in {"report", "publish"} /\ stopped /\ op \in Guarded => ~result

\* The engine and its sink.
EngineSink ==
    /\ sink \in Executing => st \in Executing \/ pc1 = "armed"
    /\ sink \in Ended => st # "idle" \/ pc1 = "armed"
    /\ pc1 = "armed" => op = "schedule" /\ result /\ st = "idle"
    /\ pc1 \in Polled => seen = st

\* The suspension and the flash operation.
Suspension ==
    /\ suspended => st \notin Executing /\ sink \notin Executing /\ ~sm /\ pc1 # "armed"
    /\ suspended /\ pc1 = "serve" /\ op \in Guarded => ~admitted
    /\ flash \in {"enter", "open"} => suspended
    /\ op = "suspend" /\ result /\ (phase = 2 \/ pc1 \in Served) => suspended
    /\ pc1 = "serve" /\ flash \in {"enter", "open"} => op # "resume"

\* The copies of the clock.
Clocks ==
    /\ staged.lo = staged.hi
    /\ pc1 # "copied" => wclock.lo = wclock.hi
    /\ pc1 = "copied" => wclock.lo = staged.lo

\* A call is pending: nothing restarts behind an ended stream, and a refused
\* schedule has left nothing behind.
Pending ==
    /\ phase # 0 /\ was \in Ended =>
         /\ sink \notin Executing /\ pc1 # "armed"
         /\ op = "schedule" => st # "idle" \/ ~plan
         /\ phase = 2 \/ pc1 = "publish" => report \notin Executing
    /\ pc0 = "wait" /\ was \notin Executing /\ op = "schedule" =>
         /\ pc1 \notin Served /\ phase = 1 => sink \notin Executing \/ pc1 = "armed"
         /\ (pc1 \in Served \/ phase = 2) /\ ~result => sink \notin Executing
         /\ (pc1 = "publish" \/ phase = 2) /\ ~result => st \notin Executing

\* The inductive invariant.
IInv == TypeOK /\ Rendezvous /\ Latching /\ EngineSink /\ Suspension /\ Clocks /\ Pending

USE DEF core0, mailbox, serving, driver, engine, Executing, Guarded, EngineStates, Steps, Ops,
        Halves, Serving, Polled, Served, Ended

\* Core 0: calls, their deadline and the emergency clamp, the local latch, the
\* clock and the flash operation.
LEMMA Core0Keeps ==
    ASSUME IInv, Core0
    PROVE  IInv'
  <1> USE DEF IInv, TypeOK, Core0Types, Core1Types, EngineTypes, Rendezvous, Latching, EngineSink,
              Suspension, Clocks, Pending
  <1>1. CASE \E o \in Ops : Stage(o)
    BY <1>1 DEF Stage, Copy
  <1>2. CASE Publish
    BY <1>2 DEF Publish
  <1>3. CASE Return
    BY <1>3 DEF Return, AfterCall
  <1>4. CASE Timeout
    BY <1>4 DEF Timeout
  <1>5. CASE ClampOut
    BY <1>5 DEF ClampOut
  <1>6. CASE ClampEnable
    BY <1>6 DEF ClampEnable
  <1>7. CASE Inhibit
    BY <1>7 DEF Inhibit
  <1>8. CASE Steer
    BY <1>8 DEF Steer
  <1>9. CASE FlashLock
    BY <1>9 DEF FlashLock
  <1>10. CASE FlashDone
    BY <1>10 DEF FlashDone
  <1> QED
    BY <1>1, <1>2, <1>3, <1>4, <1>5, <1>6, <1>7, <1>8, <1>9, <1>10 DEF Core0

\* The safety stop, at either of its places: after a confirmed one nothing is
\* armed, and an unconfirmed one ends core 1.
LEMMA HaltKeeps ==
    ASSUME IInv, NEW a, NEW go, Halt(a, go),
           \/ a = "halt" /\ go = "poll"
           \/ a = "rehalt" /\ go = "seal"
    PROVE  IInv'
  <1> USE DEF IInv, TypeOK, Core0Types, Core1Types, EngineTypes, Rendezvous, Latching, EngineSink,
              Suspension, Clocks, Pending
  <1>1. Core0Types'
    BY DEF Halt, DisableEngine, StopSink, At, Running1
  <1>2. Core1Types'
    <2>1. stopped' \in BOOLEAN /\ pc1' \in Steps
      BY DEF Halt
    <2> QED
      BY <2>1 DEF Halt
  <1>3. EngineTypes'
    BY ZenonT(30) DEF Halt, DisableEngine, StopSink, At, Running1
  <1>4. Rendezvous'
    BY DEF Halt, DisableEngine, StopSink, At, Running1
  <1>5. Latching'
    <2>1. CASE stopped /\ pc1' = go /\ UNCHANGED <<stopped, engine, driver>>
      BY <2>1 DEF Halt, At, Running1
    <2>2. CASE ~stopped /\ DisableEngine(TRUE) /\ stopped' = TRUE /\ pc1' = go
      <3>1. /\ ~sm' /\ st' = "idle" /\ sink' = "idle" /\ UNCHANGED <<latch, op, result, pc0, flash>>
            /\ irq = "none" /\ UNCHANGED <<irq, oeover>>
        BY <2>2 DEF Halt, DisableEngine, StopSink, At
      <3>2. latch
        BY DEF Halt, At
      <3> QED
        BY <2>2, <3>1, <3>2
    <2>3. CASE ~stopped /\ pc1' = "dead" /\ UNCHANGED stopped
      BY <2>3 DEF Halt, At, Running1
    <2> QED
      BY <2>1, <2>2, <2>3 DEF Halt
  <1>6. EngineSink'
    BY DEF Halt, DisableEngine, StopSink, At, Running1
  <1>7. Suspension'
    BY DEF Halt, DisableEngine, StopSink, At, Running1
  <1>8. Clocks'
    BY DEF Halt, DisableEngine, StopSink, At, Running1
  <1>9. Pending'
    BY DEF Halt, DisableEngine, StopSink, At, Running1
  <1> QED
    BY <1>1, <1>2, <1>3, <1>4, <1>5, <1>6, <1>7, <1>8, <1>9

\* engine_.poll before the look at the mailbox, and again for the report.
LEMMA PollKeeps ==
    ASSUME IInv, Poll \/ Report
    PROVE  IInv'
  <1> USE DEF IInv, TypeOK, Core0Types, Core1Types, EngineTypes, Rendezvous, Latching, EngineSink,
              Suspension, Clocks, Pending
  <1>1. Core0Types'
    BY DEF Poll, Report, PollEngine, StopSink, At, Running1
  <1>2. Core1Types'
    BY DEF Poll, Report, PollEngine, StopSink, At, Running1
  <1>3. EngineTypes'
    <2>1. st' \in EngineStates /\ UNCHANGED <<plan, oeover, was>>
      BY DEF Poll, Report, PollEngine
    <2>2. CASE UNCHANGED <<sink, driver>>
      BY <2>1, <2>2
    <2>3. CASE \E ok \in BOOLEAN : StopSink(ok)
      BY <2>1, <2>3 DEF StopSink
    <2> QED
      BY <2>2, <2>3 DEF Poll, Report, PollEngine
  <1>4. Rendezvous'
    BY DEF Poll, Report, PollEngine, StopSink, At, Running1
  <1>5. Latching'
    BY DEF Poll, Report, PollEngine, StopSink, At, Running1
  <1>6. EngineSink'
    BY DEF Poll, Report, PollEngine, StopSink, At, Running1
  <1>7. Suspension'
    BY DEF Poll, Report, PollEngine, StopSink, At, Running1
  <1>8. Clocks'
    BY DEF Poll, Report, PollEngine, StopSink, At, Running1
  <1>9. Pending'
    BY DEF Poll, Report, PollEngine, StopSink, At, Running1
  <1> QED
    BY <1>1, <1>2, <1>3, <1>4, <1>5, <1>6, <1>7, <1>8, <1>9

\* The operation of the call.
LEMMA ServeKeeps ==
    ASSUME IInv, Serve
    PROVE  IInv'
  <1> USE DEF IInv, TypeOK, Core0Types, Core1Types, EngineTypes, Rendezvous, Latching, EngineSink,
              Suspension, Clocks, Pending
  <1>1. CASE Prepare
    <2>1. Core0Types'
      BY <1>1 DEF Serve, Prepare, At, Running1
    <2>2. Core1Types'
      BY <1>1 DEF Serve, Prepare, At, Running1
    <2>3. EngineTypes'
      <3>1. CASE plan' = TRUE
        BY <1>1, <3>1 DEF Serve, Prepare
      <3>2. CASE UNCHANGED plan
        BY <1>1, <3>2 DEF Serve, Prepare
      <3> QED
        BY <1>1, <3>1, <3>2 DEF Prepare
    <2>4. Rendezvous'
      BY <1>1 DEF Serve, Prepare, At, Running1
    <2>5. Latching'
      BY <1>1 DEF Serve, Prepare, At, Running1
    <2>6. EngineSink'
      BY <1>1 DEF Serve, Prepare, At, Running1
    <2>7. Suspension'
      BY <1>1 DEF Serve, Prepare, At, Running1
    <2>8. Clocks'
      BY <1>1 DEF Serve, Prepare, At, Running1
    <2>9. Pending'
      BY <1>1 DEF Serve, Prepare, At, Running1
    <2> QED
      BY <2>1, <2>2, <2>3, <2>4, <2>5, <2>6, <2>7, <2>8, <2>9
  <1>2. CASE Correct
    <2>1. Core0Types'
      BY <1>2 DEF Serve, Correct, At, Running1
    <2>2. Core1Types'
      BY <1>2 DEF Serve, Correct, At, Running1
    <2>3. EngineTypes'
      BY <1>2 DEF Serve, Correct, At, Running1
    <2>4. Rendezvous'
      BY <1>2 DEF Serve, Correct, At, Running1
    <2>5. Latching'
      BY <1>2 DEF Serve, Correct, At, Running1
    <2>6. EngineSink'
      BY <1>2 DEF Serve, Correct, At, Running1
    <2>7. Suspension'
      BY <1>2 DEF Serve, Correct, At, Running1
    <2>8. Clocks'
      BY <1>2 DEF Serve, Correct, At, Running1
    <2>9. Pending'
      BY <1>2 DEF Serve, Correct, At, Running1
    <2> QED
      BY <2>1, <2>2, <2>3, <2>4, <2>5, <2>6, <2>7, <2>8, <2>9
  <1>3. CASE Schedule
    <2>1. Core0Types'
      BY <1>3 DEF Serve, Schedule, StopSink, At, Running1
    <2>2. Core1Types'
      BY <1>3, ZenonT(30) DEF Serve, Schedule, StopSink, At, Running1
    <2>3. EngineTypes'
      <3>1. CASE UNCHANGED <<engine, driver>>
        BY <1>3, <3>1 DEF Serve, Schedule
      <3>2. CASE \E ok \in BOOLEAN : StopSink(ok) /\ st' = "failed" /\ UNCHANGED <<plan, oeover>>
        BY <1>3, <3>2 DEF Serve, StopSink
      <3>3. CASE sink' = "armed" /\ sm' = FALSE /\ outover' = "low" /\ UNCHANGED <<st, plan, oeover>>
        BY <1>3, <3>3 DEF Serve
      <3> QED
        BY <1>3, <3>1, <3>2, <3>3 DEF Schedule
    <2>4. Rendezvous'
      BY <1>3 DEF Serve, Schedule, StopSink, At, Running1
    <2>5. Latching'
      BY <1>3 DEF Serve, Schedule, StopSink, At, Running1
    <2>6. EngineSink'
      BY <1>3 DEF Serve, Schedule, StopSink, At, Running1
    <2>7. Suspension'
      BY <1>3 DEF Serve, Schedule, StopSink, At, Running1
    <2>8. Clocks'
      BY <1>3 DEF Serve, Schedule, StopSink, At, Running1
    <2>9. Pending'
      BY <1>3 DEF Serve, Schedule, StopSink, At, Running1
    <2> QED
      BY <2>1, <2>2, <2>3, <2>4, <2>5, <2>6, <2>7, <2>8, <2>9
  <1>4. CASE DisableOp
    <2>1. Core0Types'
      BY <1>4 DEF Serve, DisableOp, DisableEngine, StopSink, At, Running1
    <2>2. Core1Types'
      BY <1>4 DEF Serve, DisableOp, DisableEngine, StopSink, At, Running1
    <2>3. EngineTypes'
      BY <1>4 DEF Serve, DisableOp, DisableEngine, StopSink, At, Running1
    <2>4. Rendezvous'
      BY <1>4 DEF Serve, DisableOp, DisableEngine, StopSink, At, Running1
    <2>5. Latching'
      BY <1>4 DEF Serve, DisableOp, DisableEngine, StopSink, At, Running1
    <2>6. EngineSink'
      BY <1>4 DEF Serve, DisableOp, DisableEngine, StopSink, At, Running1
    <2>7. Suspension'
      BY <1>4 DEF Serve, DisableOp, DisableEngine, StopSink, At, Running1
    <2>8. Clocks'
      BY <1>4 DEF Serve, DisableOp, DisableEngine, StopSink, At, Running1
    <2>9. Pending'
      BY <1>4 DEF Serve, DisableOp, DisableEngine, StopSink, At, Running1
    <2> QED
      BY <2>1, <2>2, <2>3, <2>4, <2>5, <2>6, <2>7, <2>8, <2>9
  <1>5. CASE Suspend
    <2>1. Core0Types'
      BY <1>5 DEF Serve, Suspend, At, Running1
    <2>2. Core1Types'
      BY <1>5 DEF Serve, Suspend, At, Running1
    <2>3. EngineTypes'
      BY <1>5 DEF Serve, Suspend, At, Running1
    <2>4. Rendezvous'
      BY <1>5 DEF Serve, Suspend, At, Running1
    <2>5. Latching'
      BY <1>5 DEF Serve, Suspend, At, Running1
    <2>6. EngineSink'
      BY <1>5 DEF Serve, Suspend, At, Running1
    <2>7. Suspension'
      BY <1>5 DEF Serve, Suspend, At, Running1
    <2>8. Clocks'
      BY <1>5 DEF Serve, Suspend, At, Running1
    <2>9. Pending'
      BY <1>5 DEF Serve, Suspend, At, Running1
    <2> QED
      BY <2>1, <2>2, <2>3, <2>4, <2>5, <2>6, <2>7, <2>8, <2>9
  <1>6. CASE Resume
    <2>1. Core0Types'
      BY <1>6 DEF Serve, Resume, At, Running1
    <2>2. Core1Types'
      BY <1>6 DEF Serve, Resume, At, Running1
    <2>3. EngineTypes'
      BY <1>6 DEF Serve, Resume, At, Running1
    <2>4. Rendezvous'
      BY <1>6 DEF Serve, Resume, At, Running1
    <2>5. Latching'
      BY <1>6 DEF Serve, Resume, At, Running1
    <2>6. EngineSink'
      BY <1>6 DEF Serve, Resume, At, Running1
    <2>7. Suspension'
      BY <1>6 DEF Serve, Resume, At, Running1
    <2>8. Clocks'
      BY <1>6 DEF Serve, Resume, At, Running1
    <2>9. Pending'
      BY <1>6 DEF Serve, Resume, At, Running1
    <2> QED
      BY <2>1, <2>2, <2>3, <2>4, <2>5, <2>6, <2>7, <2>8, <2>9
  <1>7. CASE Inspect
    <2>1. Core0Types'
      BY <1>7 DEF Serve, Inspect, At, Running1
    <2>2. Core1Types'
      BY <1>7 DEF Serve, Inspect, At, Running1
    <2>3. EngineTypes'
      BY <1>7 DEF Serve, Inspect, At, Running1
    <2>4. Rendezvous'
      BY <1>7 DEF Serve, Inspect, At, Running1
    <2>5. Latching'
      BY <1>7 DEF Serve, Inspect, At, Running1
    <2>6. EngineSink'
      BY <1>7 DEF Serve, Inspect, At, Running1
    <2>7. Suspension'
      BY <1>7 DEF Serve, Inspect, At, Running1
    <2>8. Clocks'
      BY <1>7 DEF Serve, Inspect, At, Running1
    <2>9. Pending'
      BY <1>7 DEF Serve, Inspect, At, Running1
    <2> QED
      BY <2>1, <2>2, <2>3, <2>4, <2>5, <2>6, <2>7, <2>8, <2>9
  <1> QED
    BY <1>1, <1>2, <1>3, <1>4, <1>5, <1>6, <1>7 DEF Serve

\* Core 1: one case for each place in step().
LEMMA Core1Keeps ==
    ASSUME IInv, Core1
    PROVE  IInv'
  <1>10. CASE Halt("halt", "poll")
    BY <1>10, HaltKeeps
  <1>13. CASE Halt("rehalt", "seal")
    BY <1>13, HaltKeeps
  <1> USE DEF IInv, TypeOK, Core0Types, Core1Types, EngineTypes, Rendezvous, Latching, EngineSink,
              Suspension, Clocks, Pending
  <1>1. CASE Probe("probe", "halt", "poll")
    BY <1>1 DEF Probe, At, Running1
  <1>2. CASE Look
    BY <1>2 DEF Look, At, Running1
  <1>3. CASE CopyLow
    BY <1>3 DEF CopyLow, At, Running1
  <1>4. CASE CopyHigh
    BY <1>4 DEF CopyHigh, At, Running1
  <1>5. CASE Admit
    BY <1>5 DEF Admit, At, Running1
  <1>6. CASE Armed
    BY <1>6 DEF Armed, At, Running1
  <1>7. CASE Probe("reprobe", "rehalt", "seal")
    BY <1>7 DEF Probe, At, Running1
  <1>8. CASE Seal
    BY <1>8 DEF Seal, At, Running1
  <1>9. CASE Answer
    BY <1>9 DEF Answer, At, Running1
  <1>11. CASE Poll \/ Report
    BY <1>11, PollKeeps
  <1>12. CASE Serve
    BY <1>12, ServeKeeps
  <1> QED
    BY <1>1, <1>2, <1>3, <1>4, <1>5, <1>6, <1>7, <1>8, <1>9,
       <1>10, <1>11, <1>12, <1>13 DEF Core1

\* The interrupts of the sink.
LEMMA InterruptKeeps ==
    ASSUME IInv, LaunchAlarm \/ LaunchEnable \/ LaunchCheck \/ StreamEnds
    PROVE  IInv'
  <1> USE DEF IInv, TypeOK, Core0Types, Core1Types, EngineTypes, Rendezvous, Latching, EngineSink,
              Suspension, Clocks, Pending
  <1>1. Core0Types'
    BY DEF LaunchAlarm, LaunchEnable, LaunchCheck, StreamEnds, HaltOutput, Interruptible,
           Running1
  <1>2. Core1Types'
    BY DEF LaunchAlarm, LaunchEnable, LaunchCheck, StreamEnds, HaltOutput, Interruptible,
           Running1
  <1>3. EngineTypes'
    <2>1. CASE LaunchAlarm
      BY <2>1, ZenonT(30) DEF LaunchAlarm, HaltOutput
    <2>2. CASE LaunchEnable
      BY <2>2 DEF LaunchEnable
    <2>3. CASE LaunchCheck
      BY <2>3, ZenonT(30) DEF LaunchCheck, HaltOutput
    <2>4. CASE StreamEnds
      BY <2>4, ZenonT(30) DEF StreamEnds, HaltOutput
    <2> QED
      BY <2>1, <2>2, <2>3, <2>4
  <1>4. Rendezvous'
    BY DEF LaunchAlarm, LaunchEnable, LaunchCheck, StreamEnds, HaltOutput, Interruptible,
           Running1
  <1>5. Latching'
    BY DEF LaunchAlarm, LaunchEnable, LaunchCheck, StreamEnds, HaltOutput, Interruptible,
           Running1
  <1>6. EngineSink'
    BY DEF LaunchAlarm, LaunchEnable, LaunchCheck, StreamEnds, HaltOutput, Interruptible,
           Running1
  <1>7. Suspension'
    BY DEF LaunchAlarm, LaunchEnable, LaunchCheck, StreamEnds, HaltOutput, Interruptible,
           Running1
  <1>8. Clocks'
    BY DEF LaunchAlarm, LaunchEnable, LaunchCheck, StreamEnds, HaltOutput, Interruptible,
           Running1
  <1>9. Pending'
    BY DEF LaunchAlarm, LaunchEnable, LaunchCheck, StreamEnds, HaltOutput, Interruptible,
           Running1
  <1> QED
    BY <1>1, <1>2, <1>3, <1>4, <1>5, <1>6, <1>7, <1>8, <1>9

\* The invariant holds in every state.
THEOREM WorkerInvariant == Spec => []IInv
  <1>1. Init => IInv
    <2> SUFFICES ASSUME Init
                 PROVE  IInv
      OBVIOUS
    <2>1. TypeOK
      <3>1. Core0Types
        <4>1. staged \in Halves /\ phase \in 0..2 /\ clock \in Nat
          BY DEF Init, Copy
        <4> QED
          BY <4>1 DEF Init, Core0Types
      <3>2. Core1Types
        BY DEF Init, Copy, Core1Types
      <3>3. EngineTypes
        BY DEF Init, EngineTypes
      <3> QED
        BY <3>1, <3>2, <3>3 DEF TypeOK
    <2>2. Rendezvous /\ Latching /\ EngineSink
      BY DEF Init, Rendezvous, Latching, EngineSink
    <2>3. Suspension /\ Clocks /\ Pending
      BY DEF Init, Copy, Suspension, Clocks, Pending
    <2> QED
      BY <2>1, <2>2, <2>3 DEF IInv
  <1>2. IInv /\ [Next]_vars => IInv'
    <2>1. IInv /\ Next => IInv'
      BY Core0Keeps, Core1Keeps, InterruptKeeps DEF Next
    <2>2. IInv /\ UNCHANGED vars => IInv'
      BY DEF vars, IInv, TypeOK, Core0Types, Core1Types, EngineTypes, Rendezvous, Latching,
             EngineSink, Suspension, Clocks, Pending
    <2> QED
      BY <2>1, <2>2
  <1> QED
    BY <1>1, <1>2, PTL DEF Spec

\* Every variable of the worker keeps its type.
THEOREM WorkerTypes == Spec => []TypeOK
  <1>1. IInv => TypeOK
    BY DEF TypeOK, IInv
  <1> QED
    BY <1>1, WorkerInvariant, PTL

\* check_safety disables the engine once (worker.cpp:40-47): after that nothing
\* is armed, started or on again.
THEOREM WorkerStopsForGood == Spec => []StoppedForGood
  <1>1. IInv => StoppedForGood
    BY DEF StoppedForGood, IInv, TypeOK, Core1Types, Latching
  <1> QED
    BY <1>1, WorkerInvariant, PTL

\* Once core 0 has clamped the pin (pico/worker.cpp:48-53) a launch in progress
\* on core 1 does not radiate.
THEOREM ClampSurvivesLaunch == Spec => []ClampHolds
  <1>1. IInv => ClampHolds
    BY DEF ClampHolds, IInv, Latching, Radiates
  <1> QED
    BY <1>1, WorkerInvariant, PTL

\* guarded_flash_execute (pico/worker.cpp:233-251) freezes a core 1 that has
\* nothing to serve.
THEOREM FlashMeetsQuietCore == Spec => []FlashQuiet
  <1>1. IInv => FlashQuiet
    BY DEF FlashQuiet, IInv, TypeOK, Core1Types, Latching, Suspension
  <1> QED
    BY <1>1, WorkerInvariant, PTL

\* A launch interrupt decides on a whole snapshot of the clock
\* (worker.cpp:67-70).
THEOREM LaunchSeesWholeClock == Spec => []WholeClock
  <1>1. IInv => WholeClock
    BY DEF WholeClock, IInv, Latching, Clocks
  <1> QED
    BY <1>1, WorkerInvariant, PTL

\* The answer to a call is about the engine after the call was published
\* (worker.cpp:111-116).
THEOREM ReportIsFresh == Spec => []FreshReport
  <1>1. IInv => FreshReport
    BY DEF FreshReport, IInv, Rendezvous, Pending
  <1> QED
    BY <1>1, WorkerInvariant, PTL

\* A refused schedule has left nothing behind that could transmit
\* (worker.cpp:79-83, stream_engine.cpp:14-47).
THEOREM RefusedScheduleIsOff == Spec => []RefusedIsOff
  <1>1. IInv => RefusedIsOff
    BY DEF RefusedIsOff, IInv, Pending, EngineSink, Rendezvous
  <1> QED
    BY <1>1, WorkerInvariant, PTL

\* No operation that prepares, schedules or corrects succeeds behind the safety
\* stop (worker.cpp:104-110).
THEOREM LatchedIsRefused == Spec => []LatchedRefused
  <1>1. IInv => LatchedRefused
    BY DEF LatchedRefused, IInv, Latching
  <1> QED
    BY <1>1, WorkerInvariant, PTL

\* After the safety stop, behind the clamp and under a flash operation nothing
\* transmits (worker.cpp:40-47, pico/worker.cpp:48-53, 233-251).
THEOREM StopsForAll == Spec => []StopIsFinal
  BY WorkerStopsForGood, ClampSurvivesLaunch, FlashMeetsQuietCore, PTL DEF StopIsFinal

\* What the cores tell each other is whole, fresh and true (worker.cpp:67-116).
THEOREM AnswersAreTrue == Spec => []AnswersTrue
  BY LaunchSeesWholeClock, ReportIsFresh, RefusedScheduleIsOff, LatchedIsRefused, PTL
     DEF AnswersTrue
===============================================================================
