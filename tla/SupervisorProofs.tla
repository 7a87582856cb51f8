--------------------------- MODULE SupervisorProofs ---------------------------
(***************************************************************************)
(* Theorems about Supervisor for any number of topics, any retry budget    *)
(* and any combination of fail_fast, DLQ and availableNow topics: what the *)
(* runner knows of its queries (IInv), what it tells of itself is true     *)
(* (HistoryInv: restarts touch one pipeline, an exhausted budget was used, *)
(* and a finished run left no query of its first launch behind), and       *)
(* together they make it an implementation of RunContract.                 *)
(***************************************************************************)
EXTENDS SupervisorRefinement, TLAPS

\* What _stop_everything collects are queries.
LEMMA HeldAreHandles == ASSUME DataOK PROVE AllHeld \subseteq Handle
BY DEF DataOK, AllHeld

\* start_topic creates queries of its own pipeline and generation.
LEMMA NewAreHandles ==
    ASSUME NEW p \in Pipelines, attempts[p] \in 0..MaxAttempts
    PROVE  NewQueries(p) \subseteq Handle
<1>1. \A r \in Roles : <<p, r, attempts[p]>> \in Handle
  BY DEF Handle
<1>2. "main" \in Roles
  BY DEF Roles
<1>3. ASSUME NEW q \in NewQueries(p)
      PROVE  \E r \in Roles : q = <<p, r, attempts[p]>>
  <2>1. CASE DlqEnabled
    BY <2>1, Zenon DEF NewQueries
  <2>2. CASE ~DlqEnabled
    BY <2>2, <1>2, Zenon DEF NewQueries
  <2>3. QED
    BY <2>1, <2>2
<1>4. QED
  BY <1>1, <1>3

\* The start of a main query runs it, may stop others, and touches no third one.
LEMMA MainStarts ==
    ASSUME TypeOK, StartMain
    PROVE  /\ cur \in Pipelines /\ attempts[cur] \in 0..MaxAttempts
           /\ <<cur, "main", attempts[cur]>> \in Handle
           /\ status' \in [Handle -> QueryState]
           /\ \A q \in Handle : status'[q] =
                IF q = <<cur, "main", attempts[cur]>> THEN "running"
                ELSE IF IsActive(q) /\ q \in SameCheckpoint(cur) THEN "stopped"
                ELSE status[q]
<1>1. cur \in Pipelines /\ attempts[cur] \in 0..MaxAttempts
  BY MaxAttemptsAssumption
     DEF StartMain, TypeOK, DataOK, LocationOK, Starting, Stopping, Over
<1>2. <<cur, "main", attempts[cur]>> \in Handle
  BY <1>1 DEF Handle, Roles
<1>3. status' = [q \in Handle |->
            IF q = <<cur, "main", attempts[cur]>> THEN "running"
            ELSE IF IsActive(q) /\ q \in SameCheckpoint(cur) THEN "stopped"
            ELSE status[q]]
  BY DEF StartMain
<1>4. status \in [Handle -> QueryState]
  BY DEF TypeOK, DataOK
<1>5. status' \in [Handle -> QueryState]
  BY <1>3, <1>4 DEF QueryState
<1> QED
  BY <1>1, <1>2, <1>3, <1>5

\* The switches stay switches.
LEMMA FlagsStep == ASSUME TypeOK, [Next]_vars PROVE FlagsOK'
<1> USE DEF TypeOK, FlagsOK, control, sweep, stops, signals, other
<1>1. CASE LaunchTopic
  BY <1>1 DEF LaunchTopic
<1>2. CASE LaunchDone
  BY <1>2 DEF LaunchDone
<1>3. CASE StartDlq
  BY <1>3 DEF StartDlq
<1>4. CASE StartMain
  BY <1>4 DEF StartMain
<1>27. CASE Store
  BY <1>27 DEF Store
<1>5. CASE StartRaises
  BY <1>5 DEF StartRaises
<1>6. CASE PollStop
  BY <1>6 DEF PollStop, SeeMarker, StopEverything
<1>7. CASE PollSweep
  BY <1>7 DEF PollSweep, SeeMarker
<1>8. CASE CheckHealthy
  BY <1>8 DEF CheckHealthy
<1>9. CASE FailFastStop
  BY <1>9 DEF FailFastStop, StopEverything
<1>10. CASE ExhaustedStop
  BY <1>10 DEF ExhaustedStop, StopEverything
<1>11. CASE BeginRestart
  BY <1>11 DEF BeginRestart, MayRestart, Exhausted, RestartStops
<1>12. CASE EndBackoff
  BY <1>12 DEF EndBackoff
<1>13. CASE ReadActive
  BY <1>13 DEF ReadActive
<1>14. CASE SweepFinished
  BY <1>14 DEF SweepFinished
<1>15. CASE SweepSleep
  BY <1>15 DEF SweepSleep
<1>16. CASE Wake
  BY <1>16 DEF Wake
<1>17. ASSUME NEW q \in Handle, StopQuery(q)
       PROVE  FlagsOK'
  BY <1>17 DEF StopQuery
<1>18. ASSUME NEW q \in Handle, StopQueryRaises(q)
       PROVE  FlagsOK'
  BY <1>18 DEF StopQueryRaises
<1>19. CASE RestartStopped
  BY <1>19 DEF RestartStopped
<1>20. CASE RunStopped
  BY <1>20 DEF RunStopped
<1>21. ASSUME NEW q \in Handle, QueryFails(q)
       PROVE  FlagsOK'
  BY <1>21 DEF QueryFails
<1>22. ASSUME NEW q \in Handle, QueryDrains(q)
       PROVE  FlagsOK'
  BY <1>22 DEF QueryDrains
<1>23. CASE CreateMarker
  BY <1>23 DEF CreateMarker
<1>24. CASE Interrupt
  BY <1>24 DEF Interrupt, StopEverything
<1>25. CASE UNCHANGED vars
  BY <1>25 DEF vars
<1>26. QED
  BY <1>1, <1>2, <1>3, <1>4, <1>5, <1>6, <1>7, <1>8, <1>9, <1>10, <1>11,
       <1>12, <1>13, <1>14, <1>15, <1>16, <1>17, <1>18, <1>19, <1>20, <1>21,
       <1>22, <1>23, <1>24, <1>25, <1>27 DEF Next, Runner, Environment, Terminated

\* The data keep their types and the runner stays where its loop variable
\* makes sense.
LEMMA DataStep == ASSUME TypeOK, [Next]_vars PROVE DataOK' /\ LocationOK'
<1> USE NumTopicsAssumption, MaxAttemptsAssumption
    DEF TypeOK, DataOK, LocationOK, Pipelines, QueryState, StopReason, Stopping,
        Restarting, Starting, Over, FirstStart, control, sweep, stops, signals, other
<1>1. CASE LaunchTopic
  BY <1>1 DEF LaunchTopic
<1>2. CASE LaunchDone
  BY <1>2 DEF LaunchDone
<1>3. CASE StartDlq
  BY <1>3 DEF StartDlq
<1>4. CASE StartMain
  BY <1>4, MainStarts DEF StartMain
<1>27. CASE Store
  <2>1. cur \in Pipelines /\ attempts[cur] \in 0..MaxAttempts
    BY <1>27 DEF Store
  <2>2. NewQueries(cur) \subseteq Handle
    BY <2>1, NewAreHandles
  <2>3. active' \in [Pipelines -> SUBSET Handle]
    BY <1>27, <2>1, <2>2 DEF Store
  <2>4. CASE phase = "startup"
    BY <1>27, <2>1, <2>3, <2>4 DEF Store
  <2>5. CASE phase = "supervise"
    BY <1>27, <2>1, <2>3, <2>5 DEF Store
  <2>6. QED
    BY <2>4, <2>5
<1>5. CASE StartRaises
  BY <1>5 DEF StartRaises
<1>6. CASE PollStop
  BY <1>6, HeldAreHandles DEF PollStop, SeeMarker, StopEverything
<1>7. CASE PollSweep
  BY <1>7 DEF PollSweep, SeeMarker
<1>8. CASE CheckHealthy
  BY <1>8 DEF CheckHealthy
<1>9. CASE FailFastStop
  BY <1>9, HeldAreHandles DEF FailFastStop, StopEverything
<1>10. CASE ExhaustedStop
  BY <1>10, HeldAreHandles DEF ExhaustedStop, StopEverything
<1>11. CASE BeginRestart
  BY <1>11 DEF BeginRestart, MayRestart, Exhausted, RestartStops
<1>12. CASE EndBackoff
  BY <1>12 DEF EndBackoff
<1>13. CASE ReadActive
  BY <1>13 DEF ReadActive
<1>14. CASE SweepFinished
  BY <1>14 DEF SweepFinished
<1>15. CASE SweepSleep
  BY <1>15 DEF SweepSleep
<1>16. CASE Wake
  BY <1>16 DEF Wake
<1>17. ASSUME NEW q \in Handle, StopQuery(q)
       PROVE  (DataOK' /\ LocationOK')
  BY <1>17 DEF StopQuery
<1>18. ASSUME NEW q \in Handle, StopQueryRaises(q)
       PROVE  (DataOK' /\ LocationOK')
  BY <1>18 DEF StopQueryRaises
<1>19. CASE RestartStopped
  BY <1>19 DEF RestartStopped
<1>20. CASE RunStopped
  BY <1>20 DEF RunStopped
<1>21. ASSUME NEW q \in Handle, QueryFails(q)
       PROVE  (DataOK' /\ LocationOK')
  BY <1>21 DEF QueryFails
<1>22. ASSUME NEW q \in Handle, QueryDrains(q)
       PROVE  (DataOK' /\ LocationOK')
  BY <1>22 DEF QueryDrains
<1>23. CASE CreateMarker
  BY <1>23 DEF CreateMarker
<1>24. CASE Interrupt
  BY <1>24, HeldAreHandles DEF Interrupt, StopEverything
<1>25. CASE UNCHANGED vars
  BY <1>25 DEF vars
<1>26. QED
  BY <1>1, <1>2, <1>3, <1>4, <1>5, <1>6, <1>7, <1>8, <1>9, <1>10, <1>11,
     <1>12, <1>13, <1>14, <1>15, <1>16, <1>17, <1>18, <1>19, <1>20, <1>21,
     <1>22, <1>23, <1>24, <1>25, <1>27 DEF Next, Runner, Environment, Terminated

\* The runner starts well typed.
LEMMA InitTypeOK == Init => TypeOK
<1> SUFFICES ASSUME Init PROVE TypeOK
  OBVIOUS
<1>1. FlagsOK
  BY FlagsAssumption, SharingAssumption DEF Init, FlagsOK
<1>2. DataOK
  BY NumTopicsAssumption, MaxAttemptsAssumption
     DEF Init, DataOK, QueryState, StopReason
<1>3. LocationOK
  BY MaxAttemptsAssumption DEF Init, LocationOK, Stopping, Restarting, Starting, Over
<1>4. QED
  BY <1>1, <1>2, <1>3 DEF TypeOK

\* Type correctness: the runner never indexes a query, a pipeline or an attempt
\* that does not exist, so the budget test of runner.py:137 really bounds the
\* restarts.
THEOREM TypeCorrect == Spec => []TypeOK
<1>1. Init => TypeOK
  BY InitTypeOK
<1>2. TypeOK /\ [Next]_vars => TypeOK'
  BY FlagsStep, DataStep DEF TypeOK
<1>3. QED
  BY <1>1, <1>2, PTL DEF Spec

-----------------------------------------------------------------------------
(* The inductive invariant *)

\* A query object is its pipeline, its role and its generation.
LEMMA HandleShape ==
    ASSUME NEW q \in Handle
    PROVE  /\ q = <<q[1], q[2], q[3]>>
           /\ q[1] \in Pipelines /\ q[2] \in Roles /\ q[3] \in 0..MaxAttempts
BY DEF Handle

\* What a start of p creates belongs to p and has the current generation.
LEMMA NewShape ==
    ASSUME NEW p \in Pipelines, NEW q \in NewQueries(p)
    PROVE  q[1] = p /\ q[3] = attempts[p]
<1>1. \E r \in Roles : q = <<p, r, attempts[p]>>
  <2>1. CASE DlqEnabled
    BY <2>1, Zenon DEF NewQueries
  <2>2. CASE ~DlqEnabled
    BY <2>2, Zenon DEF NewQueries, Roles
  <2>3. QED
    BY <2>1, <2>2
<1>2. QED
  BY <1>1

\* The sets of held queries keep their shape.
LEMMA HeldStep ==
    ASSUME TypeOK, HeldInv, [Next]_vars
    PROVE  HeldInv'
<1> USE DEF TypeOK, DataOK, LocationOK, HeldInv, Stopping, Restarting, Starting, Over,
        Pipelines, FirstStart, control, sweep, stops, signals, other
<1>1. CASE LaunchTopic
  BY <1>1 DEF LaunchTopic
<1>2. CASE LaunchDone
  BY <1>2 DEF LaunchDone
<1>3. CASE StartDlq
  BY <1>3 DEF StartDlq
<1>4. CASE StartMain
  BY <1>4 DEF StartMain
<1>27. CASE Store
  <2>1. \A q \in NewQueries(cur) : q[1] = cur /\ q[3] <= attempts[cur]
    BY <1>27, NewShape, NumTopicsAssumption DEF Store
  <2>2. \A p \in Pipelines :
           active'[p] = IF p = cur THEN NewQueries(cur) ELSE active[p]
    BY <1>27 DEF Store
  <2>3. \A p \in Pipelines : \A q \in active'[p] :
           q[1] = p /\ q[3] <= attempts'[p]
    BY <1>27, <2>1, <2>2 DEF Store
  <2>4. ~Restarting'
    BY <1>27 DEF Store
  <2>5. phase' = "startup" => \A p \in Pipelines : p >= cur' => active'[p] = {}
    BY <1>27, <2>2, NumTopicsAssumption DEF Store
  <2>6. QED
    BY <2>3, <2>4, <2>5
<1>5. CASE StartRaises
  BY <1>5 DEF StartRaises
<1>6. CASE PollStop
  BY <1>6 DEF PollStop, SeeMarker, StopEverything
<1>7. CASE PollSweep
  BY <1>7 DEF PollSweep, SeeMarker
<1>8. CASE CheckHealthy
  BY <1>8 DEF CheckHealthy
<1>9. CASE FailFastStop
  BY <1>9 DEF FailFastStop, StopEverything
<1>10. CASE ExhaustedStop
  <2>1. \A p \in Pipelines :
           /\ attempts[p] \in Nat
           /\ attempts'[p] = IF p = cur THEN attempts[p] + 1 ELSE attempts[p]
    BY <1>10, MaxAttemptsAssumption DEF ExhaustedStop
  <2>2. \A p \in Pipelines : \A q \in active[p] : q[3] \in Nat
    BY HandleShape
  <2>3. \A p \in Pipelines : \A q \in active'[p] :
           q[1] = p /\ q[3] <= attempts'[p]
    BY <1>10, <2>1, <2>2 DEF ExhaustedStop
  <2>4. ~Restarting'
    BY <1>10 DEF ExhaustedStop, StopEverything
  <2>5. phase # "startup" /\ UNCHANGED phase
    BY <1>10 DEF ExhaustedStop
  <2>6. QED
    BY <2>3, <2>4, <2>5
<1>11. CASE BeginRestart
  <2>1. \A p \in Pipelines :
           /\ attempts[p] \in Nat
           /\ attempts'[p] = IF p = cur THEN attempts[p] + 1 ELSE attempts[p]
    BY <1>11, MaxAttemptsAssumption DEF BeginRestart
  <2>2. \A p \in Pipelines : \A q \in active[p] : q[3] \in Nat
    BY HandleShape
  <2>3. \A p \in Pipelines : \A q \in active'[p] :
           q[1] = p /\ q[3] <= attempts'[p]
    BY <1>11, <2>1, <2>2 DEF BeginRestart
  <2>4. \A q \in active'[cur'] : q[3] < attempts'[cur']
    BY <1>11, <2>1, <2>2 DEF BeginRestart
  <2>5. phase # "startup" /\ UNCHANGED phase
    BY <1>11 DEF BeginRestart
  <2>6. QED
    BY <2>3, <2>4, <2>5
<1>12. CASE EndBackoff
  BY <1>12 DEF EndBackoff
<1>13. CASE ReadActive
  BY <1>13 DEF ReadActive
<1>14. CASE SweepFinished
  BY <1>14 DEF SweepFinished
<1>15. CASE SweepSleep
  BY <1>15 DEF SweepSleep
<1>16. CASE Wake
  BY <1>16 DEF Wake
<1>17. ASSUME NEW q \in Handle, StopQuery(q)
       PROVE  HeldInv'
  BY <1>17 DEF StopQuery
<1>18. ASSUME NEW q \in Handle, StopQueryRaises(q)
       PROVE  HeldInv'
  BY <1>18 DEF StopQueryRaises
<1>19. CASE RestartStopped
  BY <1>19 DEF RestartStopped
<1>20. CASE RunStopped
  BY <1>20 DEF RunStopped
<1>21. ASSUME NEW q \in Handle, QueryFails(q)
       PROVE  HeldInv'
  BY <1>21 DEF QueryFails
<1>22. ASSUME NEW q \in Handle, QueryDrains(q)
       PROVE  HeldInv'
  BY <1>22 DEF QueryDrains
<1>23. CASE CreateMarker
  BY <1>23 DEF CreateMarker
<1>24. CASE Interrupt
  BY <1>24 DEF Interrupt, StopEverything
<1>25. CASE UNCHANGED vars
  BY <1>25 DEF vars
<1>26. QED
  BY <1>1, <1>2, <1>3, <1>4, <1>5, <1>6, <1>7, <1>8, <1>9, <1>10, <1>11,
     <1>12, <1>13, <1>14, <1>15, <1>16, <1>17, <1>18, <1>19, <1>20, <1>21,
     <1>22, <1>23, <1>24, <1>25, <1>27 DEF Next, Runner, Environment, Terminated

\* What a start creates depends on the loop variable and the attempts only.
LEMMA NewUnchanged ==
    ASSUME UNCHANGED <<attempts, cur>> PROVE NewQueries(cur)' = NewQueries(cur)
BY DEF NewQueries

\* A running query stays known.
LEMMA RunningStep ==
    ASSUME TypeOK, HeldInv, RunningInv, StopInv, [Next]_vars
    PROVE  RunningInv'
<1> USE DEF TypeOK, DataOK, LocationOK, RunningInv, IsActive, Stopping,
        Restarting, Starting, Over, FirstStart, control, sweep, stops, signals, other
<1>1. CASE LaunchTopic
  BY <1>1, HandleShape, FlagsAssumption DEF LaunchTopic, Handle, Roles
<1>2. CASE LaunchDone
  BY <1>2 DEF LaunchDone
<1>3. CASE StartDlq
  <2> DEFINE new == <<cur, "dlq", attempts[cur]>>
  <2>1. new \in Handle
    BY <1>3 DEF StartDlq, Handle, Roles
  <2>2. \A q \in Handle : status'[q] = IF q = new THEN "running" ELSE status[q]
    BY <1>3, <2>1 DEF StartDlq
  <2>3. \A g \in 0..MaxAttempts : <<cur, "dlq", g>> \in Handle
    BY <1>3 DEF StartDlq, Handle, Roles
  <2>4. \A g \in 0..MaxAttempts : status[<<cur, "dlq", g>>] # "running"
    BY <1>3 DEF StartDlq, NameTaken
  <2>5. DlqEnabled /\ ~interrupted /\ ~interrupted'
    BY <1>3 DEF StartDlq
  <2>6. pc' = "startMain" /\ UNCHANGED <<active, attempts, cur>>
    BY <1>3 DEF StartDlq
  <2>7. \A q \in Handle : status'[q] = "running" =>
           q \in active'[q[1]] \/ q = <<cur', "dlq", attempts'[cur']>>
    BY <1>3, <2>2, <2>6, <2>5 DEF StartDlq
  <2>8. \A g \in 0..MaxAttempts :
           status'[<<cur', "dlq", g>>] = "running" => g = attempts'[cur']
    BY <2>2, <2>3, <2>4, <2>6
  <2>9. QED
    BY <2>5, <2>6, <2>7, <2>8
<1>4. CASE StartMain
  <2> DEFINE new == <<cur, "main", attempts[cur]>>
  <2>1. new \in Handle /\ cur \in Pipelines
    BY <1>4, MainStarts
  <2>2. \A q \in Handle : status'[q] = "running" => q = new \/ status[q] = "running"
    BY <1>4, MainStarts
  <2>3. ~interrupted /\ ~interrupted' /\ pc' = "store" /\ pc = "startMain"
        /\ UNCHANGED <<active, cur, attempts>>
    BY <1>4 DEF StartMain
  <2>4. ASSUME NEW q \in Handle, status'[q] = "running", q[1] # cur
        PROVE  q \in active[q[1]]
    BY <1>4, <2>1, <2>2, <2>3, <2>4, HandleShape
  <2>5. ASSUME NEW q \in Handle, status'[q] = "running", q[1] = cur
        PROVE  q \in NewQueries(cur)
    <3>1. CASE q[2] = "main"
      <4>1. status[q] # "running"
        <5>1. \A g \in 0..MaxAttempts : status[<<cur, "main", g>>] # "running"
          BY <1>4 DEF StartMain, NameTaken, IsActive
        <5>2. q = <<cur, "main", q[3]>> /\ q[3] \in 0..MaxAttempts
          BY <2>5, <3>1, HandleShape
        <5> QED
          BY <5>1, <5>2
      <4>2. q = new
        BY <2>2, <2>5, <4>1
      <4>3. new \in NewQueries(cur)
        BY Zenon DEF NewQueries, Roles
      <4>4. QED
        BY <4>2, <4>3
    <3>2. CASE q[2] = "dlq"
      <4>1. status[q] = "running"
        BY <2>2, <2>5, <3>2
      <4>2. DlqEnabled
        BY <3>2, <4>1, FlagsAssumption
      <4>3. q = <<cur, "dlq", attempts[cur]>>
        BY <2>3, <2>5, <3>2, <4>1, HandleShape
      <4>4. <<cur, "dlq", attempts[cur]>> \in NewQueries(cur)
        BY <4>2, Zenon DEF NewQueries, Roles
      <4>5. QED
        BY <4>3, <4>4
    <3>3. QED
      BY <3>1, <3>2, HandleShape DEF Roles
  <2>6. ~DlqEnabled => \A q \in Handle : q[2] = "dlq" => status'[q] # "running"
    BY <2>2
  <2>7. NewQueries(cur)' = NewQueries(cur)
    BY <2>3, NewUnchanged
  <2>8. QED
    BY <2>3, <2>4, <2>5, <2>6, <2>7
<1>27. CASE Store
  <2>1. cur \in Pipelines /\ ~interrupted /\ ~interrupted' /\ pc' # "startMain"
        /\ pc' # "store" /\ status' = status
    BY <1>27 DEF Store
  <2>2. \A p \in Pipelines :
           active'[p] = IF p = cur THEN NewQueries(cur) ELSE active[p]
    BY <1>27 DEF Store
  <2>3. ASSUME NEW q \in Handle, status[q] = "running"
        PROVE  q \in active'[q[1]]
    <3>1. CASE q[1] = cur
      BY <1>27, <2>1, <2>2, <2>3, <3>1 DEF Store
    <3>2. CASE q[1] # cur
      BY <1>27, <2>1, <2>2, <2>3, <3>2, HandleShape, NewShape DEF Store
    <3>3. QED
      BY <3>1, <3>2
  <2>4. QED
    BY <2>1, <2>3
<1>5. CASE StartRaises
  BY <1>5 DEF StartRaises, StopInv
<1>6. CASE PollStop
  BY <1>6 DEF PollStop, SeeMarker, StopEverything
<1>7. CASE PollSweep
  BY <1>7 DEF PollSweep, SeeMarker
<1>8. CASE CheckHealthy
  BY <1>8 DEF CheckHealthy
<1>9. CASE FailFastStop
  BY <1>9 DEF FailFastStop, StopEverything
<1>10. CASE ExhaustedStop
  BY <1>10 DEF ExhaustedStop, StopEverything
<1>11. CASE BeginRestart
  BY <1>11 DEF BeginRestart, MayRestart, Exhausted, RestartStops
<1>12. CASE EndBackoff
  BY <1>12, HandleShape, FlagsAssumption DEF EndBackoff, Handle, Roles
<1>13. CASE ReadActive
  BY <1>13 DEF ReadActive
<1>14. CASE SweepFinished
  BY <1>14 DEF SweepFinished
<1>15. CASE SweepSleep
  BY <1>15 DEF SweepSleep
<1>16. CASE Wake
  BY <1>16 DEF Wake
<1>17. ASSUME NEW q \in Handle, StopQuery(q)
       PROVE  RunningInv'
  BY <1>17 DEF StopQuery
<1>18. ASSUME NEW q \in Handle, StopQueryRaises(q)
       PROVE  RunningInv'
  BY <1>18 DEF StopQueryRaises
<1>19. CASE RestartStopped
  BY <1>19 DEF RestartStopped
<1>20. CASE RunStopped
  BY <1>20 DEF RunStopped
<1>21. ASSUME NEW q \in Handle, QueryFails(q)
       PROVE  RunningInv'
  BY <1>21, NewUnchanged DEF QueryFails
<1>22. ASSUME NEW q \in Handle, QueryDrains(q)
       PROVE  RunningInv'
  BY <1>22, NewUnchanged DEF QueryDrains
<1>23. CASE CreateMarker
  BY <1>23, NewUnchanged DEF CreateMarker
<1>24. CASE Interrupt
  <2>1. ASSUME NEW q \in Handle, IsActive(q)
        PROVE  q \in active[q[1]] \/ (q[1] = cur /\ q[3] = attempts[cur])
    BY <1>24, <2>1, NewShape DEF Interrupt, StopInv
  <2>2. QED
    BY <1>24, <2>1 DEF Interrupt, StopEverything
<1>25. CASE UNCHANGED vars
  BY <1>25, NewUnchanged DEF vars
<1>26. QED
  BY <1>1, <1>2, <1>3, <1>4, <1>5, <1>6, <1>7, <1>8, <1>9, <1>10, <1>11,
     <1>12, <1>13, <1>14, <1>15, <1>16, <1>17, <1>18, <1>19, <1>20, <1>21,
     <1>22, <1>23, <1>24, <1>25, <1>27 DEF Next, Runner, Environment, Terminated

\* A stop makes progress, and its result stays.
LEMMA StopStep ==
    ASSUME TypeOK, HeldInv, StopInv, [Next]_vars
    PROVE  StopInv'
<1> USE DEF TypeOK, DataOK, LocationOK, StopInv, IsActive, AllHeld, Stopping,
        Restarting, Starting, Over, FirstStart, StopReason, control, sweep, stops,
        signals, other
<1>1. CASE LaunchTopic
  BY <1>1 DEF LaunchTopic
<1>2. CASE LaunchDone
  BY <1>2 DEF LaunchDone
<1>3. CASE StartDlq
  <2> DEFINE new == <<cur, "dlq", attempts[cur]>>
  <2>1. cur \in Pipelines /\ attempts[cur] \in 0..MaxAttempts
    BY <1>3 DEF StartDlq
  <2>2. \A q \in Handle : q # new => status'[q] = status[q]
    BY <1>3 DEF StartDlq
  <2>3. Restarting => new \notin active[cur]
    BY <1>3, <2>1 DEF StartDlq, HeldInv
  <2>4. Restarting' => Restarting
    BY <1>3 DEF StartDlq
  <2>5. QED
    BY <1>3, <2>1, <2>2, <2>3, <2>4 DEF StartDlq
<1>4. CASE StartMain
  <2> DEFINE new == <<cur, "main", attempts[cur]>>
  <2>1. \A q \in Handle : status'[q] = "running" => q = new \/ status[q] = "running"
    BY <1>4, MainStarts
  <2>2. Restarting => new \notin active[cur]
    BY <1>4, MainStarts DEF HeldInv
  <2>3. Restarting' => Restarting
    BY <1>4 DEF StartMain
  <2>4. cur \in Pipelines
    BY <1>4, MainStarts
  <2>5. QED
    BY <1>4, <2>1, <2>2, <2>3, <2>4 DEF StartMain
<1>27. CASE Store
  BY <1>27 DEF Store
<1>5. CASE StartRaises
  BY <1>5 DEF StartRaises
<1>6. CASE PollStop
  BY <1>6 DEF PollStop, SeeMarker, StopEverything
<1>7. CASE PollSweep
  BY <1>7 DEF PollSweep, SeeMarker
<1>8. CASE CheckHealthy
  BY <1>8 DEF CheckHealthy
<1>9. CASE FailFastStop
  BY <1>9 DEF FailFastStop, StopEverything
<1>10. CASE ExhaustedStop
  BY <1>10 DEF ExhaustedStop, StopEverything
<1>11. CASE BeginRestart
  BY <1>11 DEF BeginRestart, MayRestart, Exhausted, RestartStops
<1>12. CASE EndBackoff
  BY <1>12 DEF EndBackoff
<1>13. CASE ReadActive
  BY <1>13 DEF ReadActive
<1>14. CASE SweepFinished
  BY <1>14 DEF SweepFinished
<1>15. CASE SweepSleep
  BY <1>15 DEF SweepSleep
<1>16. CASE Wake
  BY <1>16 DEF Wake
<1>17. ASSUME NEW q \in Handle, StopQuery(q)
       PROVE  StopInv'
  BY <1>17 DEF StopQuery
<1>18. ASSUME NEW q \in Handle, StopQueryRaises(q)
       PROVE  StopInv'
  BY <1>18 DEF StopQueryRaises
<1>19. CASE RestartStopped
  BY <1>19 DEF RestartStopped
<1>20. CASE RunStopped
  BY <1>20 DEF RunStopped
<1>21. ASSUME NEW q \in Handle, QueryFails(q)
       PROVE  StopInv'
  BY <1>21 DEF QueryFails
<1>22. ASSUME NEW q \in Handle, QueryDrains(q)
       PROVE  StopInv'
  BY <1>22 DEF QueryDrains
<1>23. CASE CreateMarker
  BY <1>23 DEF CreateMarker
<1>24. CASE Interrupt
  BY <1>24 DEF Interrupt, StopEverything
<1>25. CASE UNCHANGED vars
  BY <1>25 DEF vars
<1>26. QED
  BY <1>1, <1>2, <1>3, <1>4, <1>5, <1>6, <1>7, <1>8, <1>9, <1>10, <1>11,
     <1>12, <1>13, <1>14, <1>15, <1>16, <1>17, <1>18, <1>19, <1>20, <1>21,
     <1>22, <1>23, <1>24, <1>25, <1>27 DEF Next, Runner, Environment, Terminated

\* Where every query is known and how far every stop has come, at any time.
THEOREM QueriesAccounted == Spec => []IInv
<1>1. Init => IInv
  <2> SUFFICES ASSUME Init PROVE IInv
    OBVIOUS
  <2>1. TypeOK
    BY InitTypeOK
  <2>2. AllHeld = {}
    BY DEF Init, AllHeld
  <2>3. \A q \in Handle : ~IsActive(q)
    BY DEF Init, IsActive
  <2>4. HeldInv
    BY DEF Init, HeldInv, Restarting, Starting, Over
  <2>5. RunningInv
    BY <2>3 DEF Init, RunningInv
  <2>6. StopInv
    BY <2>2 DEF Init, StopInv, Stopping, Restarting, Starting, StopReason
  <2>7. QED
    BY <2>1, <2>4, <2>5, <2>6 DEF IInv
<1>2. IInv /\ [Next]_vars => IInv'
  BY FlagsStep, DataStep, HeldStep, RunningStep, StopStep DEF IInv, TypeOK
<1>3. QED
  BY <1>1, <1>2, PTL DEF Spec

\* A restart starts from a clean slate: the earlier query of the name runs only
\* if its stop() raised (runner.py:149-151; shutdown.py:44-53).
THEOREM RestartsAreClean == Spec => []RestartOnCleanSlate
<1>1. IInv => RestartOnCleanSlate
  <2> SUFFICES ASSUME IInv, ~stopFailed, pc \in {"startDlq", "startMain"},
                      NEW r \in Roles, r = IF pc = "startDlq" THEN "dlq" ELSE "main",
                      NEW g \in 0..MaxAttempts, IsActive(<<cur, r, g>>)
               PROVE  FALSE
    BY DEF RestartOnCleanSlate, NameTaken, Roles
  <2> DEFINE q == <<cur, r, g>>
  <2>1. cur \in Pipelines /\ q \in Handle
    BY DEF IInv, TypeOK, LocationOK, Starting, Handle
  <2>2. q \in active[cur]
    BY <2>1 DEF IInv, RunningInv, Stopping
  <2>3. CASE phase = "startup"
    BY <2>1, <2>2, <2>3 DEF IInv, HeldInv, Over, Pipelines
  <2>4. CASE phase = "supervise"
    BY <2>2, <2>4 DEF IInv, StopInv, Restarting, Starting
  <2>5. QED
    BY <2>3, <2>4 DEF IInv, TypeOK, DataOK
<1>2. QED
  BY <1>1, QueriesAccounted, PTL

\* A run that audits a stop leaves nothing running unless a stop() raised, apart
\* from the queries that an interrupted restart had started and not yet stored
\* (runner.py:92-93, 160-164; shutdown.py:44-53).
THEOREM StopIsClean == Spec => []StopLeavesNothing
<1>1. IInv => StopLeavesNothing
  <2> SUFFICES ASSUME IInv, audit \in StopReason, ~stopFailed,
                      NEW q \in Handle, IsActive(q)
               PROVE  /\ audit = "keyboard_interrupt" /\ q \notin AllHeld
                      /\ q[1] = cur /\ q[3] = attempts[cur]
    BY DEF StopLeavesNothing
  <2>1. q \notin AllHeld
    BY DEF IInv, StopInv
  <2>2. q \notin active[q[1]]
    BY <2>1, HandleShape DEF AllHeld
  <2>3. interrupted /\ q[1] = cur /\ q[3] = attempts[cur]
    BY <2>2 DEF IInv, RunningInv, StopInv, StopReason, Over
  <2>4. QED
    BY <2>1, <2>3 DEF IInv, RunningInv, StopInv
<1>2. QED
  BY <1>1, QueriesAccounted, PTL

-----------------------------------------------------------------------------
(* What the history of a run proves *)

LEMMA RestartStep ==
    ASSUME IInv, RestartInv, [Next]_vars
    PROVE  RestartInv'
<1> USE DEF IInv, TypeOK, DataOK, LocationOK, RestartInv, FailedQueries, Stopping, Restarting, Starting, Over,
        FirstStart, Pipelines, control, sweep, stops, signals, other
<1>1. CASE LaunchTopic
  BY <1>1 DEF LaunchTopic
<1>2. CASE LaunchDone
  BY <1>2 DEF LaunchDone
<1>3. CASE StartDlq
  BY <1>3 DEF StartDlq
<1>4. CASE StartMain
  BY <1>4 DEF StartMain
<1>27. CASE Store
  BY <1>27 DEF Store
<1>5. CASE StartRaises
  BY <1>5 DEF StartRaises
<1>6. CASE PollStop
  BY <1>6 DEF PollStop, SeeMarker, StopEverything
<1>7. CASE PollSweep
  BY <1>7 DEF PollSweep, SeeMarker
<1>8. CASE CheckHealthy
  BY <1>8 DEF CheckHealthy
<1>9. CASE FailFastStop
  BY <1>9 DEF FailFastStop, StopEverything
<1>10. CASE ExhaustedStop
  BY <1>10 DEF ExhaustedStop, StopEverything, Exhausted
<1>11. CASE BeginRestart
  BY <1>11 DEF BeginRestart, MayRestart, Exhausted, RestartStops
<1>12. CASE EndBackoff
  BY <1>12 DEF EndBackoff
<1>13. CASE ReadActive
  BY <1>13 DEF ReadActive
<1>14. CASE SweepFinished
  BY <1>14 DEF SweepFinished
<1>15. CASE SweepSleep
  BY <1>15 DEF SweepSleep
<1>16. CASE Wake
  BY <1>16 DEF Wake
<1>17. ASSUME NEW q \in Handle, StopQuery(q)
       PROVE  RestartInv'
  BY <1>17 DEF StopQuery
<1>18. ASSUME NEW q \in Handle, StopQueryRaises(q)
       PROVE  RestartInv'
  BY <1>18 DEF StopQueryRaises
<1>19. CASE RestartStopped
  BY <1>19 DEF RestartStopped
<1>20. CASE RunStopped
  BY <1>20 DEF RunStopped
<1>21. ASSUME NEW q \in Handle, QueryFails(q)
       PROVE  RestartInv'
  BY <1>21 DEF QueryFails
<1>22. ASSUME NEW q \in Handle, QueryDrains(q)
       PROVE  RestartInv'
  BY <1>22 DEF QueryDrains, IsActive
<1>23. CASE CreateMarker
  BY <1>23 DEF CreateMarker
<1>24. CASE Interrupt
  BY <1>24 DEF Interrupt, StopEverything
<1>25. CASE UNCHANGED vars
  BY <1>25 DEF vars
<1>26. QED
  BY <1>1, <1>2, <1>3, <1>4, <1>5, <1>6, <1>7, <1>8, <1>9, <1>10, <1>11,
     <1>12, <1>13, <1>14, <1>15, <1>16, <1>17, <1>18, <1>19, <1>20, <1>21,
     <1>22, <1>23, <1>24, <1>25, <1>27 DEF Next, Runner, Environment, Terminated

LEMMA GenerationStep ==
    ASSUME IInv, RestartInv, GenerationInv, [Next]_vars
    PROVE  GenerationInv'
<1> USE DEF IInv, TypeOK, DataOK, LocationOK, GenerationInv, Started, Stopping, Restarting, Starting, Over,
        FirstStart, Pipelines, control, sweep, stops, signals, other
<1>1. CASE LaunchTopic
  BY <1>1 DEF LaunchTopic
<1>2. CASE LaunchDone
  BY <1>2 DEF LaunchDone
<1>3. CASE StartDlq
  BY <1>3 DEF StartDlq
<1>4. CASE StartMain
  <2> DEFINE new == <<cur, "main", attempts[cur]>>
  <2>1. cur \in Pipelines /\ attempts[cur] \in 0..MaxAttempts /\ new \in Handle
    BY <1>4, MainStarts
  <2>2. \A q \in Handle : /\ status[q] # "none" => status'[q] # "none"
                          /\ q = new => status'[q] # "none"
    BY <1>4, MainStarts
  <2>3. \A p \in Pipelines, g \in 0..MaxAttempts :
          /\ Started(p, g) => Started(p, g)'
          /\ p = cur /\ g = attempts[cur] => Started(p, g)'
    <3> TAKE p \in Pipelines, g \in 0..MaxAttempts
    <3>1. <<p, "main", g>> \in Handle
      BY DEF Handle, Roles
    <3> QED
      BY <2>2, <3>1
  <2>4. /\ UNCHANGED <<attempts, active, cur, reason>> /\ ~Over /\ ~Stopping
        /\ (Restarting' <=> Restarting)
    BY <1>4 DEF StartMain
  <2>5. \A p \in Pipelines : attempts[p] \in 0..MaxAttempts
    BY <2>4, MaxAttemptsAssumption
  <2>6. \A p \in Pipelines :
           active[p] # {} /\ ~(Restarting /\ cur = p) => Started(p, attempts[p])'
    BY <2>3, <2>4, <2>5
  <2> QED
    BY <2>1, <2>3, <2>4, <2>6
<1>27. CASE Store
  <2>1. cur \in Pipelines /\ Started(cur, attempts[cur]) /\ ~Stopping /\ ~Over
    BY <1>27 DEF Store
  <2>2. UNCHANGED <<status, attempts, reason>> /\ pc' # "store"
    BY <1>27 DEF Store
  <2>3. \A p \in Pipelines : p # cur => active'[p] = active[p]
    BY <1>27 DEF Store
  <2>4. ASSUME NEW p \in Pipelines, active'[p] # {}
        PROVE  Started(p, attempts[p])
    BY <2>1, <2>3, <2>4
  <2> QED
    BY <2>1, <2>2, <2>4
<1>5. CASE StartRaises
  BY <1>5 DEF StartRaises
<1>6. CASE PollStop
  BY <1>6 DEF PollStop, SeeMarker, StopEverything
<1>7. CASE PollSweep
  BY <1>7 DEF PollSweep, SeeMarker
<1>8. CASE CheckHealthy
  BY <1>8 DEF CheckHealthy
<1>9. CASE FailFastStop
  BY <1>9 DEF FailFastStop, StopEverything
<1>10. CASE ExhaustedStop
  <2>1. cur \in Pipelines /\ active[cur] # {} /\ attempts[cur] = MaxAttempts
    BY <1>10, MaxAttemptsAssumption DEF ExhaustedStop, Exhausted, FailedQueries
  <2>2. Started(cur, attempts[cur])
    BY <1>10, <2>1 DEF ExhaustedStop
  <2> QED
    BY <1>10, <2>1, <2>2, MaxAttemptsAssumption DEF ExhaustedStop, StopEverything
<1>11. CASE BeginRestart
  <2>1. cur \in Pipelines /\ active[cur] # {} /\ attempts[cur] < MaxAttempts
    BY <1>11, MaxAttemptsAssumption DEF BeginRestart, MayRestart, Exhausted, FailedQueries
  <2>2. Started(cur, attempts[cur])
    BY <1>11, <2>1 DEF BeginRestart
  <2> QED
    BY <1>11, <2>1, <2>2, MaxAttemptsAssumption DEF BeginRestart
<1>12. CASE EndBackoff
  BY <1>12 DEF EndBackoff
<1>13. CASE ReadActive
  BY <1>13 DEF ReadActive
<1>14. CASE SweepFinished
  BY <1>14 DEF SweepFinished
<1>15. CASE SweepSleep
  BY <1>15 DEF SweepSleep
<1>16. CASE Wake
  BY <1>16 DEF Wake
<1>17. ASSUME NEW q \in Handle, StopQuery(q)
       PROVE  GenerationInv'
  BY <1>17 DEF StopQuery
<1>18. ASSUME NEW q \in Handle, StopQueryRaises(q)
       PROVE  GenerationInv'
  BY <1>18 DEF StopQueryRaises
<1>19. CASE RestartStopped
  BY <1>19 DEF RestartStopped
<1>20. CASE RunStopped
  BY <1>20 DEF RunStopped
<1>21. ASSUME NEW q \in Handle, QueryFails(q)
       PROVE  GenerationInv'
  BY <1>21 DEF QueryFails
<1>22. ASSUME NEW q \in Handle, QueryDrains(q)
       PROVE  GenerationInv'
  BY <1>22 DEF QueryDrains
<1>23. CASE CreateMarker
  BY <1>23 DEF CreateMarker
<1>24. CASE Interrupt
  BY <1>24 DEF Interrupt, StopEverything
<1>25. CASE UNCHANGED vars
  BY <1>25 DEF vars
<1>26. QED
  BY <1>1, <1>2, <1>3, <1>4, <1>5, <1>6, <1>7, <1>8, <1>9, <1>10, <1>11,
     <1>12, <1>13, <1>14, <1>15, <1>16, <1>17, <1>18, <1>19, <1>20, <1>21,
     <1>22, <1>23, <1>24, <1>25, <1>27 DEF Next, Runner, Environment, Terminated

LEMMA SweepStep ==
    ASSUME IInv, RestartInv, SweepInv, [Next]_vars
    PROVE  SweepInv'
<1> USE DEF IInv, TypeOK, DataOK, LocationOK, SweepInv, FirstLaunchIn, IsActive, Stopping, Restarting, Starting, Over,
        FirstStart, Pipelines, control, sweep, stops, signals, other
<1>1. CASE LaunchTopic
  BY <1>1 DEF LaunchTopic
<1>2. CASE LaunchDone
  BY <1>2 DEF LaunchDone
<1>3. CASE StartDlq
  <2> DEFINE new == <<cur, "dlq", attempts[cur]>>
  <2>1. cur \in Pipelines /\ new[1] = cur
    BY <1>3 DEF StartDlq
  <2>2. \A q \in Handle : q # new => status'[q] = status[q]
    BY <1>3 DEF StartDlq
  <2>3. audit' # "all_queries_finished" /\ pc' # "readActive"
    BY <1>3 DEF StartDlq, StopInv
  <2>4. \A p \in Pipelines : p < cur /\ FirstLaunchIn(p, {}) => FirstLaunchIn(p, {})'
    BY <2>1, <2>2
  <2> QED
    BY <1>3, <2>3, <2>4 DEF StartDlq
<1>4. CASE StartMain
  <2>1. cur \in Pipelines /\ pc' = "store" /\ UNCHANGED <<cur, anyActive, phase, audit>>
        /\ audit # "all_queries_finished"
    BY <1>4, MainStarts DEF StartMain, StopInv
  <2>2. \A q \in Handle : status'[q] = "running" => q[1] = cur \/ status[q] = "running"
    BY <1>4, MainStarts
  <2>3. \A p \in Pipelines : p < cur /\ FirstLaunchIn(p, {}) => FirstLaunchIn(p, {})'
    BY <2>1, <2>2
  <2> QED
    BY <1>4, <2>1, <2>3 DEF StartMain
<1>27. CASE Store
  <2>1. cur \in Pipelines /\ status' = status /\ audit' = audit
        /\ audit # "all_queries_finished"
    BY <1>27 DEF Store, StopInv
  <2>2. CASE phase = "startup"
    BY <1>27, <2>1, <2>2 DEF Store
  <2>3. CASE phase = "supervise"
    <3>1. attempts[cur] >= 1
      BY <1>27, <2>3 DEF Store, RestartInv
    <3>2. ASSUME NEW q \in Handle, q[1] = cur, q[3] = 0, status[q] = "running"
          PROVE  FALSE
      <4>1. q \in NewQueries(cur)
        BY <1>27, <3>2 DEF Store, RunningInv
      <4> QED
        BY <2>1, <3>1, <3>2, <4>1, NewShape
    <3> QED
      BY <1>27, <2>1, <2>3, <3>2 DEF Store
  <2> QED
    BY <2>2, <2>3
<1>5. CASE StartRaises
  BY <1>5 DEF StartRaises
<1>6. CASE PollStop
  BY <1>6 DEF PollStop, SeeMarker, StopEverything
<1>7. CASE PollSweep
  BY <1>7 DEF PollSweep, SeeMarker
<1>8. CASE CheckHealthy
  <2>1. ~interrupted /\ audit = "none"
    BY <1>8 DEF CheckHealthy, RunningInv, StopInv
  <2>2. \A q \in Handle : status[q] = "running" => q \in active[q[1]]
    BY <1>8, <2>1 DEF CheckHealthy, RunningInv
  <2>3. FirstLaunchIn(cur, queries)'
    BY <1>8, <2>2 DEF CheckHealthy
  <2> QED
    BY <1>8, <2>1, <2>3 DEF CheckHealthy
<1>9. CASE FailFastStop
  BY <1>9 DEF FailFastStop, StopEverything
<1>10. CASE ExhaustedStop
  BY <1>10 DEF ExhaustedStop, StopEverything, Exhausted
<1>11. CASE BeginRestart
  BY <1>11 DEF BeginRestart, MayRestart, Exhausted, RestartStops
<1>12. CASE EndBackoff
  BY <1>12 DEF EndBackoff
<1>13. CASE ReadActive
  <2>1. cur \in Pipelines /\ ~Stopping /\ phase = "supervise" /\ audit = "none"
    BY <1>13 DEF ReadActive, StopInv
  <2>2. ~anyActive' => ~anyActive /\ FirstLaunchIn(cur, {})
    BY <1>13 DEF ReadActive
  <2>3. \A p \in Pipelines : p < cur + 1 => p < cur \/ p = cur
    BY <2>1
  <2>4. ~anyActive' => \A p \in Pipelines : p < cur' => FirstLaunchIn(p, {})
    BY <1>13, <2>1, <2>2, <2>3 DEF ReadActive
  <2> QED
    BY <1>13, <2>1, <2>4 DEF ReadActive
<1>14. CASE SweepFinished
  <2>1. phase = "supervise" /\ ~Stopping /\ ~anyActive
    BY <1>14 DEF SweepFinished
  <2>2. \A p \in Pipelines : p < cur
    BY <1>14, NumTopicsAssumption DEF SweepFinished
  <2>3. \A p \in Pipelines : FirstLaunchIn(p, {})
    BY <1>14, <2>1, <2>2 DEF SweepFinished
  <2> QED
    BY <1>14, <2>3 DEF SweepFinished
<1>15. CASE SweepSleep
  BY <1>15 DEF SweepSleep
<1>16. CASE Wake
  BY <1>16 DEF Wake
<1>17. ASSUME NEW q \in Handle, StopQuery(q)
       PROVE  SweepInv'
  BY <1>17 DEF StopQuery
<1>18. ASSUME NEW q \in Handle, StopQueryRaises(q)
       PROVE  SweepInv'
  BY <1>18 DEF StopQueryRaises
<1>19. CASE RestartStopped
  BY <1>19 DEF RestartStopped
<1>20. CASE RunStopped
  BY <1>20 DEF RunStopped, StopReason
<1>21. ASSUME NEW q \in Handle, QueryFails(q)
       PROVE  SweepInv'
  BY <1>21 DEF QueryFails
<1>22. ASSUME NEW q \in Handle, QueryDrains(q)
       PROVE  SweepInv'
  BY <1>22 DEF QueryDrains
<1>23. CASE CreateMarker
  BY <1>23 DEF CreateMarker
<1>24. CASE Interrupt
  BY <1>24 DEF Interrupt, StopEverything
<1>25. CASE UNCHANGED vars
  BY <1>25 DEF vars
<1>26. QED
  BY <1>1, <1>2, <1>3, <1>4, <1>5, <1>6, <1>7, <1>8, <1>9, <1>10, <1>11,
     <1>12, <1>13, <1>14, <1>15, <1>16, <1>17, <1>18, <1>19, <1>20, <1>21,
     <1>22, <1>23, <1>24, <1>25, <1>27 DEF Next, Runner, Environment, Terminated

\* start_topic creates at least the main query.
LEMMA NewNotEmpty == ASSUME NEW p \in Pipelines PROVE NewQueries(p) # {}
<1>1. <<p, "main", attempts[p]>> \in NewQueries(p)
  <2>1. CASE DlqEnabled
    BY <2>1 DEF NewQueries, Roles
  <2>2. CASE ~DlqEnabled
    BY <2>2 DEF NewQueries
  <2> QED
    BY <2>1, <2>2
<1> QED
  BY <1>1

LEMMA LaunchStep ==
    ASSUME IInv, LaunchInv, [Next]_vars
    PROVE  LaunchInv'
<1> USE NewNotEmpty, NumTopicsAssumption
    DEF IInv, TypeOK, DataOK, LocationOK, LaunchInv, Stopping, Restarting, Starting, Over,
        FirstStart, Pipelines, control, sweep, stops, signals, other
<1>1. CASE LaunchTopic
  BY <1>1 DEF LaunchTopic
<1>2. CASE LaunchDone
  <2>1. phase = "startup" /\ ~Over /\ cur = NumTopics + 1
    BY <1>2 DEF LaunchDone
  <2>2. \A p \in Pipelines : p < cur
    BY <2>1
  <2> QED
    BY <1>2, <2>1, <2>2 DEF LaunchDone
<1>3. CASE StartDlq
  BY <1>3 DEF StartDlq
<1>4. CASE StartMain
  BY <1>4 DEF StartMain
<1>27. CASE Store
  BY <1>27 DEF Store
<1>5. CASE StartRaises
  BY <1>5 DEF StartRaises
<1>6. CASE PollStop
  BY <1>6 DEF PollStop, SeeMarker, StopEverything
<1>7. CASE PollSweep
  BY <1>7 DEF PollSweep, SeeMarker
<1>8. CASE CheckHealthy
  BY <1>8 DEF CheckHealthy
<1>9. CASE FailFastStop
  BY <1>9 DEF FailFastStop, StopEverything
<1>10. CASE ExhaustedStop
  BY <1>10 DEF ExhaustedStop, StopEverything, Exhausted
<1>11. CASE BeginRestart
  BY <1>11 DEF BeginRestart, MayRestart, Exhausted, RestartStops
<1>12. CASE EndBackoff
  BY <1>12 DEF EndBackoff
<1>13. CASE ReadActive
  BY <1>13 DEF ReadActive
<1>14. CASE SweepFinished
  BY <1>14 DEF SweepFinished
<1>15. CASE SweepSleep
  BY <1>15 DEF SweepSleep
<1>16. CASE Wake
  BY <1>16 DEF Wake
<1>17. ASSUME NEW q \in Handle, StopQuery(q)
       PROVE  LaunchInv'
  BY <1>17 DEF StopQuery
<1>18. ASSUME NEW q \in Handle, StopQueryRaises(q)
       PROVE  LaunchInv'
  BY <1>18 DEF StopQueryRaises
<1>19. CASE RestartStopped
  BY <1>19 DEF RestartStopped
<1>20. CASE RunStopped
  BY <1>20 DEF RunStopped
<1>21. ASSUME NEW q \in Handle, QueryFails(q)
       PROVE  LaunchInv'
  BY <1>21 DEF QueryFails
<1>22. ASSUME NEW q \in Handle, QueryDrains(q)
       PROVE  LaunchInv'
  BY <1>22 DEF QueryDrains
<1>23. CASE CreateMarker
  BY <1>23 DEF CreateMarker
<1>24. CASE Interrupt
  BY <1>24 DEF Interrupt, StopEverything
<1>25. CASE UNCHANGED vars
  BY <1>25 DEF vars
<1>26. QED
  BY <1>1, <1>2, <1>3, <1>4, <1>5, <1>6, <1>7, <1>8, <1>9, <1>10, <1>11,
     <1>12, <1>13, <1>14, <1>15, <1>16, <1>17, <1>18, <1>19, <1>20, <1>21,
     <1>22, <1>23, <1>24, <1>25, <1>27 DEF Next, Runner, Environment, Terminated

-----------------------------------------------------------------------------
LEMMA InitHistory == Init => HistoryInv
<1> SUFFICES ASSUME Init PROVE HistoryInv
  OBVIOUS
<1>1. RestartInv
  BY DEF Init, RestartInv, Restarting
<1>2. GenerationInv
  BY DEF Init, GenerationInv
<1>3. SweepInv
  BY DEF Init, SweepInv, FirstLaunchIn, IsActive
<1>4. LaunchInv
  BY DEF Init, LaunchInv, Pipelines
<1> QED
  BY <1>1, <1>2, <1>3, <1>4 DEF HistoryInv

\* The history of restarts and sweeps agrees with the queries, at any time.
THEOREM HistoryKept == Spec => [](IInv /\ HistoryInv)
<1>1. IInv /\ HistoryInv /\ [Next]_vars => HistoryInv'
  BY RestartStep, GenerationStep, SweepStep, LaunchStep DEF HistoryInv
<1> QED
  BY <1>1, InitHistory, QueriesAccounted, PTL DEF Spec

\* A run that audits all_queries_finished left no query of its first launch
\* running: what it may abandon was restarted (runner.py:109-118).
THEOREM FinishedLeavesOnlyRestarts == Spec => []FinishedAbandonsOnlyRestarts
<1>1. HistoryInv => FinishedAbandonsOnlyRestarts
  <2> SUFFICES ASSUME HistoryInv, audit = "all_queries_finished",
                      NEW q \in Handle, IsActive(q), q[3] = 0
               PROVE  FALSE
    BY HandleShape DEF FinishedAbandonsOnlyRestarts
  <2> QED
    BY HandleShape DEF HistoryInv, SweepInv, FirstLaunchIn
<1> QED
  BY <1>1, HistoryKept, PTL

\* A run that audits retry_exhausted started some pipeline once and restarted it
\* max_attempts times, whatever failed while it was being restarted
\* (runner.py:135-152).
THEOREM BudgetReallyUsed == Spec => []ExhaustedMeansAllRestarts
<1>1. IInv /\ HistoryInv => ExhaustedMeansAllRestarts
  <2> SUFFICES ASSUME IInv, HistoryInv, audit = "retry_exhausted"
               PROVE  \E p \in Pipelines :
                          /\ attempts[p] = MaxAttempts + 1
                          /\ \A g \in 0..MaxAttempts : Started(p, g)
    BY DEF ExhaustedMeansAllRestarts, Started
  <2>1. reason = "retry_exhausted"
    BY DEF IInv, StopInv, StopReason
  <2>2. PICK p \in Pipelines : attempts[p] = MaxAttempts + 1
    BY <2>1 DEF HistoryInv, GenerationInv
  <2> QED
    BY <2>2, MaxAttemptsAssumption DEF HistoryInv, GenerationInv
<1> QED
  BY <1>1, HistoryKept, PTL

\* Until the run is stopped as a whole, a query is only ever stopped because a
\* query of its own pipeline failed (runner.py:156), or a main query by Spark,
\* for the main query of another topic that starts on the same checkpoint.
THEOREM OthersKeepRunning == Spec => RestartIsIsolated
<1> DEFINE Isolated ==
        \A q \in Handle : IsActive(q) /\ status'[q] = "stopped" =>
            \/ reason # "none"
            \/ FailedQueries(active[q[1]]) # {}
            \/ /\ pc = "startMain" /\ q[2] = "main"
               /\ q[1] # cur /\ {q[1], cur} \subseteq sharing
<1>1. IInv /\ HistoryInv /\ [Next]_vars => Isolated
  <2> SUFFICES ASSUME IInv, HistoryInv, [Next]_vars, NEW q \in Handle,
                      IsActive(q), status'[q] = "stopped", reason = "none"
               PROVE  \/ FailedQueries(active[q[1]]) # {}
                      \/ /\ pc = "startMain" /\ q[2] = "main"
                         /\ q[1] # cur /\ {q[1], cur} \subseteq sharing
    OBVIOUS
  <2> USE DEF IInv, TypeOK, DataOK, LocationOK, IsActive
  <2>1. ASSUME NEW r \in Handle, StopQuery(r)
        PROVE  FailedQueries(active[q[1]]) # {}
    <3>1. r = q
      BY <2>1 DEF StopQuery
    <3>2. q \in active[cur] /\ FailedQueries(active[cur]) # {}
      BY <2>1, <3>1 DEF StopQuery, HistoryInv, RestartInv
    <3>3. q[1] = cur
      BY <2>1, <3>2 DEF StopQuery, HeldInv, Restarting
    <3> QED
      BY <3>2, <3>3
  <2>2. ASSUME status' = status PROVE FALSE
    BY <2>2
  <2>3. StartDlq => FALSE
    BY DEF StartDlq
  <2>6. StartMain => /\ pc = "startMain" /\ q[2] = "main"
                     /\ q[1] # cur /\ {q[1], cur} \subseteq sharing
    BY MainStarts DEF StartMain, SameCheckpoint
  <2>4. ASSUME NEW r \in Handle, QueryFails(r) \/ QueryDrains(r) PROVE FALSE
    BY <2>4 DEF QueryFails, QueryDrains
  <2>5. \/ StartDlq \/ StartMain
        \/ \E r \in Handle : StopQuery(r) \/ QueryFails(r) \/ QueryDrains(r)
        \/ status' = status
    BY DEF Next, Runner, Environment, Terminated, vars, LaunchTopic,
       LaunchDone, Store, StartRaises, PollStop, PollSweep, CheckHealthy, FailFastStop,
       ExhaustedStop, BeginRestart, EndBackoff, ReadActive, SweepFinished,
       SweepSleep, Wake, StopQueryRaises, RestartStopped, RunStopped,
       CreateMarker, Interrupt
  <2> QED
    BY <2>1, <2>2, <2>3, <2>4, <2>5, <2>6
<1> QED
  BY <1>1, HistoryKept, PTL DEF RestartIsIsolated, Spec

-----------------------------------------------------------------------------
(* The runner implements its contract *)

LEMMA ContractInit == Init => Contract!Init
BY FlagsAssumption, MaxAttemptsAssumption
   DEF Init, Contract!Init, Launched, Restarts, Outcome, Over

LEMMA ContractStep ==
    ASSUME IInv, HistoryInv, [Next]_vars
    PROVE  Contract!Next \/ UNCHANGED Contract!cvars
<1> USE DEF IInv, TypeOK, DataOK, LocationOK, Launched, Restarts, Outcome,
        Contract!cvars, Stopping, Restarting, Starting, Over, FirstStart, control, sweep,
        stops, signals, other
<1>1. CASE LaunchTopic
  BY <1>1 DEF LaunchTopic
<1>2. CASE LaunchDone
  <2>1. phase = "startup" /\ ~Over /\ cur = NumTopics + 1
    BY <1>2, NumTopicsAssumption DEF LaunchDone, Pipelines
  <2>2. Launched = Pipelines
    BY <2>1, NumTopicsAssumption DEF HistoryInv, LaunchInv, Pipelines
  <2>3. Contract!Supervise
    BY <1>2, <2>1, <2>2 DEF LaunchDone, Contract!Supervise
  <2> QED
    BY <2>3 DEF Contract!Next
<1>3. CASE StartDlq
  BY <1>3 DEF StartDlq
<1>4. CASE StartMain
  BY <1>4 DEF StartMain
<1>27. CASE Store
  <2>1. cur \in Pipelines /\ active' = [active EXCEPT ![cur] = NewQueries(cur)]
    BY <1>27 DEF Store
  <2>2. active'[cur] # {} /\ \A p \in Pipelines : p # cur => active'[p] = active[p]
    BY <2>1, NewNotEmpty
  <2>3. UNCHANGED <<failFast, attempts, phase, reason, audit>> /\ ~Over /\ ~Over'
    BY <1>27 DEF Store
  <2>4. Launched' = Launched \cup {cur}
    BY <2>1, <2>2
  <2>5. CASE phase = "startup"
    <3>1. active[cur] = {}
      BY <1>27, <2>1, <2>5 DEF Store, HeldInv, Pipelines
    <3>2. \E p \in Pipelines : Contract!Launch(p)
      BY <2>1, <2>3, <2>4, <2>5, <3>1 DEF Contract!Launch
    <3> QED
      BY <2>1, <3>2 DEF Contract!Next
  <2>6. CASE phase = "supervise"
    BY <2>1, <2>3, <2>4, <2>6 DEF HistoryInv, LaunchInv
  <2> QED
    BY <2>5, <2>6
<1>5. CASE StartRaises
  <2>1. reason = "none" /\ audit = "none" /\ ~Over
    BY <1>5 DEF StartRaises, StopInv
  <2>2. /\ UNCHANGED <<failFast, Launched, phase, Restarts, reason>>
        /\ Outcome' = "crashed"
    BY <1>5, <2>1 DEF StartRaises
  <2>3. phase = "supervise" => cur \in Pipelines /\ Restarts[cur] > 0
    BY <1>5, <2>1, MaxAttemptsAssumption DEF StartRaises, HistoryInv, RestartInv
  <2>4. phase = "startup" \/ \E p \in Pipelines : Restarts[p] > 0
    BY <2>3
  <2> QED
    BY <2>1, <2>2, <2>4 DEF Contract!Crash, Contract!Next
<1>6. CASE PollStop
  <2>1. Contract!Supervised /\ reason = "none"
    BY <1>6 DEF PollStop, Contract!Supervised, HistoryInv, LaunchInv
  <2>2. Contract!Decide("graceful_shutdown")
    BY <1>6, <2>1 DEF PollStop, StopEverything, Contract!Decide
  <2> QED
    BY <2>2 DEF Contract!Next, Contract!Decisions
<1>7. CASE PollSweep
  BY <1>7 DEF PollSweep, SeeMarker
<1>8. CASE CheckHealthy
  BY <1>8 DEF CheckHealthy
<1>9. CASE FailFastStop
  <2>1. Contract!Supervised /\ reason = "none"
    BY <1>9 DEF FailFastStop, Contract!Supervised, HistoryInv, LaunchInv
  <2>2. Contract!Decide("fail_fast")
    BY <1>9, <2>1 DEF FailFastStop, StopEverything, Contract!Decide
  <2> QED
    BY <2>2 DEF Contract!Next, Contract!Decisions
<1>10. CASE ExhaustedStop
  <2>1. Contract!Supervised /\ reason = "none"
    BY <1>10 DEF ExhaustedStop, Contract!Supervised, HistoryInv, LaunchInv
  <2>2. cur \in Pipelines /\ attempts[cur] = MaxAttempts
    BY <1>10, MaxAttemptsAssumption DEF ExhaustedStop, Exhausted
  <2>3. Restarts' = Restarts /\ Restarts[cur] = MaxAttempts
    BY <1>10, <2>2, MaxAttemptsAssumption DEF ExhaustedStop
  <2>4. Contract!Decide("retry_exhausted")
    BY <1>10, <2>1, <2>2, <2>3 DEF ExhaustedStop, StopEverything, Contract!Decide
  <2> QED
    BY <2>4 DEF Contract!Next, Contract!Decisions
<1>11. CASE BeginRestart
  <2>1. Contract!Supervised /\ reason = "none"
    BY <1>11 DEF BeginRestart, Contract!Supervised, HistoryInv, LaunchInv
  <2>2. cur \in Pipelines /\ attempts[cur] < MaxAttempts /\ ~failFast
    BY <1>11, MaxAttemptsAssumption DEF BeginRestart, MayRestart, Exhausted
  <2>3. /\ Restarts' = [Restarts EXCEPT ![cur] = @ + 1]
        /\ Restarts[cur] < MaxAttempts
    <3>1. /\ attempts' = [attempts EXCEPT ![cur] = attempts[cur] + 1]
          /\ attempts[cur] \in 0..MaxAttempts
      BY <1>11, <2>2, MaxAttemptsAssumption DEF BeginRestart
    <3>2. Restarts[cur] = attempts[cur] /\ Restarts'[cur] = attempts[cur] + 1
      BY <2>2, <3>1, MaxAttemptsAssumption
    <3>3. \A p \in Pipelines : p # cur => Restarts'[p] = Restarts[p]
      BY <3>1
    <3> QED
      BY <2>2, <3>2, <3>3
  <2>4. \E p \in Pipelines : Contract!Restart(p)
    BY <1>11, <2>1, <2>2, <2>3 DEF BeginRestart, Contract!Restart
  <2> QED
    BY <2>2, <2>4 DEF Contract!Next
<1>12. CASE EndBackoff
  BY <1>12 DEF EndBackoff
<1>13. CASE ReadActive
  BY <1>13 DEF ReadActive
<1>14. CASE SweepFinished
  <2>1. Contract!Supervised /\ reason = "none"
    BY <1>14 DEF SweepFinished, Contract!Supervised, HistoryInv, LaunchInv
  <2> QED
    BY <1>14, <2>1 DEF SweepFinished, Contract!Finish, Contract!Next
<1>15. CASE SweepSleep
  BY <1>15 DEF SweepSleep
<1>16. CASE Wake
  BY <1>16 DEF Wake
<1>17. ASSUME NEW q \in Handle, StopQuery(q)
       PROVE  Contract!Next \/ UNCHANGED Contract!cvars
  BY <1>17 DEF StopQuery
<1>18. ASSUME NEW q \in Handle, StopQueryRaises(q)
       PROVE  Contract!Next \/ UNCHANGED Contract!cvars
  BY <1>18 DEF StopQueryRaises
<1>19. CASE RestartStopped
  BY <1>19 DEF RestartStopped
<1>20. CASE RunStopped
  <2>1. Contract!Supervised
    BY <1>20 DEF RunStopped, Contract!Supervised, HistoryInv, LaunchInv
  <2> QED
    BY <1>20, <2>1 DEF RunStopped, Contract!Conclude, Contract!Next
<1>21. ASSUME NEW q \in Handle, QueryFails(q)
       PROVE  Contract!Next \/ UNCHANGED Contract!cvars
  BY <1>21 DEF QueryFails
<1>22. ASSUME NEW q \in Handle, QueryDrains(q)
       PROVE  Contract!Next \/ UNCHANGED Contract!cvars
  BY <1>22 DEF QueryDrains
<1>23. CASE CreateMarker
  BY <1>23 DEF CreateMarker
<1>24. CASE Interrupt
  <2>1. Contract!Supervised
    BY <1>24 DEF Interrupt, Contract!Supervised, HistoryInv, LaunchInv
  <2>2. Contract!Decide("keyboard_interrupt")
    BY <1>24, <2>1 DEF Interrupt, StopEverything, Contract!Decide
  <2> QED
    BY <2>2 DEF Contract!Next, Contract!Decisions
<1>25. CASE UNCHANGED vars
  BY <1>25 DEF vars
<1>26. QED
  BY <1>1, <1>2, <1>3, <1>4, <1>5, <1>6, <1>7, <1>8, <1>9, <1>10, <1>11,
     <1>12, <1>13, <1>14, <1>15, <1>16, <1>17, <1>18, <1>19, <1>20, <1>21,
     <1>22, <1>23, <1>24, <1>25, <1>27 DEF Next, Runner, Environment, Terminated

\* The runner with its queries, sweeps and markers keeps the contract of a run:
\* every pipeline launched before supervision, restarts within the budget and
\* never after a decision, one outcome, and an unhandled exception only out of
\* a start (runner.py:43-166).
THEOREM RunKeepsContract == Spec => ContractSpec
<1>1. IInv /\ HistoryInv /\ [Next]_vars => [Contract!Next]_Contract!cvars
  BY ContractStep
<1> QED
  BY <1>1, ContractInit, HistoryKept, PTL DEF Spec, ContractSpec, Contract!Spec

=============================================================================
