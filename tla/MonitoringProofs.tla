--------------------------- MODULE MonitoringProofs ---------------------------
(***************************************************************************)
(* Proofs about the two parts that tell an operator how a pipeline is      *)
(* doing, Observability and StatsCheck, for any values of their constants. *)
(*                                                                         *)
(* Observability: every event the listener is called with is handed to     *)
(* every publisher, each delivers in posting order and at most once,       *)
(* closed publishers see one event at most, and a backlog is published as  *)
(* a number above 0.                                                       *)
(*                                                                         *)
(* StatsCheck: what the verdict of the diagnostic notebook says of a table *)
(* of any length with one damaged row at most.                             *)
(*                                                                         *)
(* Both add up numbers by recursion.  A claim about every step of it that  *)
(* had an exception would have a least one (LeastNumber).                  *)
(***************************************************************************)
EXTENDS Observability, StatsCheck, FiniteSetTheorems, SequenceTheorems,
        WellFoundedInduction, TLAPS

LEMMA PublisherFacts ==
    /\ Len(Publishers) \in Nat
    /\ Publisher = 1..Len(Publishers)
    /\ Publishers = <<>> => Publisher = {}
BY ObservabilityAssumption DEF Publisher

LEMMA InitInv == Init => IInv
<1> SUFFICES ASSUME Init PROVE IInv
  OBVIOUS
<1> USE DEF Init
<1>1. TypeOK
  <2>1. /\ log \in Seq(EventRecord) /\ Len(log) = 0
        /\ waiting \subseteq (taken + 1)..Len(log)
        /\ taken \in 0..Len(log) /\ heard \subseteq 1..taken
    OBVIOUS
  <2>2. stored \in [Publisher -> Seq(Nat)] /\ lost \in [Publisher -> SUBSET Nat]
    OBVIOUS
  <2>3. closed \in 0..Len(Publishers) /\ turn \in 0..Len(Publishers)
    BY PublisherFacts
  <2> QED
    BY <2>1, <2>2, <2>3 DEF TypeOK
<1>2. StoredBehind /\ InPostingOrder
  BY DEF StoredBehind, InPostingOrder
<1>3. ClosedDetached
  BY DEF ClosedDetached
<1>4. FanOutComplete /\ ClosedSeesOneEvent
  BY DEF FanOutComplete, ClosedSeesOneEvent
<1> QED
  BY <1>1, <1>2, <1>3, <1>4 DEF IInv

-----------------------------------------------------------------------------
(* Steps that touch neither the events nor the listener thread *)

\* What is said of the events and publishers stays true when they stay.
LEMMA FanoutStays ==
    ASSUME IInv, UNCHANGED <<posted, fanout>>
    PROVE  /\ StoredBehind' /\ FanOutComplete' /\ InPostingOrder'
           /\ ClosedSeesOneEvent'
<1> USE DEF IInv, posted, fanout
<1>1. StoredBehind'
  BY DEF StoredBehind
<1>2. FanOutComplete'
  BY DEF FanOutComplete, Served, Delivered
<1>3. InPostingOrder'
  BY DEF InPostingOrder
<1>4. ClosedSeesOneEvent'
  BY DEF ClosedSeesOneEvent
<1> QED
  BY <1>1, <1>2, <1>3, <1>4

\* The steps of the runner that post no event.
QuietRunner ==
    \/ Attach \/ Build \/ StartupRaises \/ LaunchDone \/ NextSweep
    \/ RestartRaises \/ BeginStop \/ RunStopped \/ AuditHangs
    \/ Detach \/ Close \/ CloseRaises \/ CloseDone
    \/ \E q \in Query : Launch(q) \/ Restart(q) \/ StopPasses(q) \/ StopRaises(q)

LEMMA QuietTypeOK == TypeOK /\ QuietRunner => TypeOK'
<1> SUFFICES ASSUME TypeOK, QuietRunner PROVE TypeOK'
  OBVIOUS
<1>1. UNCHANGED <<log, taken, waiting, heard, turn, stored, lost>>
  BY DEF QuietRunner, Attach, Build, StartupRaises, LaunchDone,
         NextSweep, AuditHangs, work, ending, RestartRaises, BeginStop, RunStopped,
         Detach, Close, CloseRaises, CloseDone, Launch,
         Restart, StopPasses, StopRaises, posted, fanout
<1>2. /\ pc' \in {"attach", "build", "launch", "supervise", "stopping",
                  "detach", "close", "over", "blocked"}
      /\ listening' \in BOOLEAN
  BY DEF TypeOK, QuietRunner, Attach, Build, StartupRaises, LaunchDone,
         NextSweep, AuditHangs, work, ending,
         RestartRaises, BeginStop, RunStopped, Detach, Close, CloseRaises,
         CloseDone, Launch, Restart, StopPasses, StopRaises
<1>3. closed' \in 0..Len(Publishers)
  <2>1. CASE Close
    BY <2>1, PublisherFacts DEF TypeOK, Close
  <2>2. CASE ~Close
    <3>1. closed' = closed
      BY <2>2 DEF QuietRunner, Attach, Build, StartupRaises, LaunchDone,
             NextSweep, AuditHangs, work, ending,
             RestartRaises, BeginStop, RunStopped, Detach, CloseRaises,
             CloseDone, Launch, Restart, StopPasses, StopRaises
    <3> QED
      BY <3>1 DEF TypeOK
  <2> QED
    BY <2>1, <2>2
<1> QED
  BY <1>1, <1>2, <1>3 DEF TypeOK

LEMMA QuietClosed == TypeOK /\ ClosedDetached /\ QuietRunner => ClosedDetached'
<1> SUFFICES ASSUME TypeOK, ClosedDetached, QuietRunner PROVE ClosedDetached'
  OBVIOUS
<1>1. UNCHANGED <<taken, turn, late>>
  BY DEF QuietRunner, Attach, Build, StartupRaises, LaunchDone,
         NextSweep, AuditHangs, work, ending, RestartRaises, BeginStop, RunStopped,
         Detach, Close, CloseRaises, CloseDone, Launch,
         Restart, StopPasses, StopRaises, fanout
<1>2. pc' = "close" => ~listening'
  BY DEF ClosedDetached, QuietRunner, Attach, Build, StartupRaises, LaunchDone,
         NextSweep, AuditHangs, work, ending,
         RestartRaises, BeginStop, RunStopped, Detach, Close, CloseRaises,
         CloseDone, Launch, Restart, StopPasses, StopRaises
<1>3. closed' > 0 => ~listening' /\ pc' \in {"close", "over"}
  BY DEF ClosedDetached, QuietRunner, Attach, Build, StartupRaises, LaunchDone,
         NextSweep, AuditHangs, work, ending,
         RestartRaises, BeginStop, RunStopped, Detach, Close, CloseRaises,
         CloseDone, Launch, Restart, StopPasses, StopRaises
<1>4. closed' = closed \/ closed' = closed + 1
  BY DEF QuietRunner, Attach, Build, StartupRaises, LaunchDone,
         NextSweep, AuditHangs, work, ending,
         RestartRaises, BeginStop, RunStopped, Detach, Close, CloseRaises,
         CloseDone, Launch, Restart, StopPasses, StopRaises
<1>5. late' # {} => closed' > 0
  BY <1>1, <1>4, PublisherFacts DEF ClosedDetached, TypeOK
<1> QED
  BY <1>1, <1>2, <1>3, <1>5 DEF ClosedDetached

LEMMA QuietInv == IInv /\ QuietRunner => IInv'
<1> SUFFICES ASSUME IInv, QuietRunner PROVE IInv'
  OBVIOUS
<1>1. UNCHANGED <<posted, fanout>>
  BY DEF QuietRunner, Attach, Build, StartupRaises, LaunchDone,
         NextSweep, AuditHangs, work, ending, RestartRaises, BeginStop, RunStopped,
         Detach, Close, CloseRaises, CloseDone, Launch,
         Restart, StopPasses, StopRaises
<1> QED
  BY <1>1, QuietTypeOK, QuietClosed, FanoutStays DEF IInv

-----------------------------------------------------------------------------
(* Steps that post an event *)

\* A query or stop_all posts an event; the listener thread does not move.
LEMMA PostInv ==
    ASSUME IInv, NEW event \in EventRecord, Post(event), UNCHANGED fanout,
           UNCHANGED <<pc, listening, closed>>
    PROVE  IInv'
<1> USE DEF fanout
<1>1. TypeOK'
  <2>1. log' \in Seq(EventRecord) /\ Len(log') = Len(log) + 1
    BY DEF IInv, TypeOK, Post
  <2>2. waiting' \subseteq waiting \cup {Len(log) + 1}
    BY <2>1 DEF Post
  <2>3. waiting' \subseteq (taken' + 1)..Len(log') /\ taken' \in 0..Len(log')
    BY <2>1, <2>2 DEF IInv, TypeOK
  <2> QED
    BY <2>1, <2>3 DEF IInv, TypeOK
<1>2. StoredBehind' /\ InPostingOrder'
  BY DEF IInv, StoredBehind, InPostingOrder
<1>3. ClosedDetached' /\ ClosedSeesOneEvent'
  BY DEF IInv, ClosedDetached, ClosedSeesOneEvent
<1>4. FanOutComplete'
  <2>1. \A e \in heard : log'[e] = log[e]
    BY DEF IInv, TypeOK, Post
  <2> QED
    BY <2>1 DEF IInv, FanOutComplete, Served, Delivered
<1> QED
  BY <1>1, <1>2, <1>3, <1>4 DEF IInv

LEMMA PostingInv ==
    ASSUME IInv, NEW q \in Query,
           \/ Stop(q) \/ Fails(q)
           \/ \E payload \in Payloads : Progresses(q, payload)
    PROVE  IInv'
<1>0. /\ TerminationEvent(q, TRUE) \in EventRecord
      /\ TerminationEvent(q, FALSE) \in EventRecord
  <2>1. <<>> \in Seq(Source) /\ <<>> \in Seq(Measured)
    OBVIOUS
  <2> QED
    BY <2>1 DEF TerminationEvent, EventRecord, Payload
<1>1. CASE Stop(q)
  BY <1>0, <1>1, PostInv DEF Stop, ending
<1>2. CASE Fails(q)
  BY <1>0, <1>2, PostInv DEF Fails, ending
<1>3. ASSUME NEW payload \in Payloads, Progresses(q, payload) PROVE IInv'
  BY <1>3, PostInv, ObservabilityAssumption
     DEF Progresses, ProgressEvent, EventRecord, run
<1> QED
  BY <1>1, <1>2, <1>3

-----------------------------------------------------------------------------
(* Steps of the listener thread *)

LEMMA TakeInv == IInv /\ TakeEvent => IInv'
<1> SUFFICES ASSUME IInv, TakeEvent PROVE IInv'
  OBVIOUS
<1> PICK e \in waiting : /\ taken' = e
                         /\ waiting' = waiting \ {e}
                         /\ \A f \in waiting : e <= f
                         /\ heard' = IF listening THEN heard \cup {e} ELSE heard
                         /\ Convert(e)
  BY DEF TakeEvent
<1>0. /\ turn = 0 /\ taken < e /\ e \in 1..Len(log) /\ taken \in Nat
      /\ UNCHANGED <<pc, listening, closed, log, stored, lost, late>>
  BY DEF IInv, TypeOK, TakeEvent, run
<1>1. TypeOK'
  <2>1. turn' \in 0..Len(Publishers)
    BY PublisherFacts, ObservabilityAssumption DEF Convert
  <2>2. waiting' \subseteq (taken' + 1)..Len(log')
    BY <1>0 DEF IInv, TypeOK
  <2>3. heard' \subseteq 1..taken'
    BY <1>0 DEF IInv, TypeOK
  <2> QED
    BY <1>0, <2>1, <2>2, <2>3 DEF IInv, TypeOK
<1>2. StoredBehind'
  <2> SUFFICES ASSUME NEW p \in Publisher, NEW i \in DOMAIN stored[p]
               PROVE  stored[p][i] \in Nat /\ stored[p][i] < e
    BY <1>0 DEF StoredBehind
  <2>1. stored[p][i] \in Nat /\ stored[p][i] <= taken
    BY DEF IInv, TypeOK, StoredBehind
  <2> QED
    BY <2>1, <1>0
<1>3. InPostingOrder' /\ ClosedSeesOneEvent'
  BY <1>0 DEF IInv, InPostingOrder, ClosedSeesOneEvent
<1>4. ClosedDetached'
  BY <1>0 DEF IInv, ClosedDetached, Convert
<1>5. FanOutComplete'
  <2> SUFFICES ASSUME NEW f \in heard', Convertible(log[f].payload),
                      NEW p \in Publisher, Served(p, f)'
               PROVE  f \in lost[p] \/ Delivered(p, f)
    BY <1>0 DEF FanOutComplete, Delivered
  <2>1. CASE f = e
    <3>1. listening
      BY <2>1, <1>0 DEF IInv, TypeOK
    <3>2. turn' = 1
      BY <2>1, <3>1, PublisherFacts DEF Convert
    <3> QED
      BY <2>1, <3>2, PublisherFacts DEF Served
  <2>2. CASE f # e
    BY <2>2, <1>0 DEF IInv, FanOutComplete, Served
  <2> QED
    BY <2>1, <2>2
<1> QED
  BY <1>1, <1>2, <1>3, <1>4, <1>5 DEF IInv

\* What NextTurn does to the turn.
LEMMA TurnMoves ==
    ASSUME TypeOK, turn # 0, NextTurn
    PROVE  /\ turn \in Publisher /\ turn' \in 0..Len(Publishers)
           /\ \A p \in Publisher : turn' # 0 /\ turn' <= p => turn < p
           /\ \A p \in Publisher : turn' = 0 \/ p < turn' => p = turn \/ p < turn
BY PublisherFacts DEF TypeOK, NextTurn

\* A call is late only for the event at hand.
LEMMA CallLate ==
    ASSUME IInv, Call, UNCHANGED <<run, taken>>
    PROVE  ClosedDetached' /\ ClosedSeesOneEvent'
<1>1. \A x \in late' : x[2] = taken
  BY DEF IInv, ClosedDetached, Call
<1>2. late' # {} => closed > 0
  <2>1. CASE turn <= closed
    BY <2>1, PublisherFacts DEF IInv, TypeOK, Call
  <2>2. CASE ~(turn <= closed)
    BY <2>2 DEF IInv, ClosedDetached, Call
  <2> QED
    BY <2>1, <2>2
<1> QED
  BY <1>1, <1>2 DEF IInv, ClosedDetached, ClosedSeesOneEvent, run

LEMMA StoresInv == IInv /\ PublisherStores => IInv'
<1> SUFFICES ASSUME IInv, PublisherStores PROVE IInv'
  OBVIOUS
<1>0. /\ turn # 0 /\ Call /\ NextTurn
      /\ UNCHANGED <<pc, listening, closed, log, waiting, taken, heard, lost>>
  BY DEF PublisherStores, Call, run, posted
<1>1. /\ turn \in Publisher /\ taken \in Nat
      /\ stored[turn] \in Seq(Nat)
      /\ stored' = [stored EXCEPT ![turn] = Append(stored[turn], taken)]
  BY <1>0, TurnMoves DEF IInv, TypeOK, PublisherStores
<1>2. /\ \A p \in Publisher : p # turn => stored'[p] = stored[p]
      /\ stored'[turn] = Append(stored[turn], taken)
  BY <1>1 DEF IInv, TypeOK
<1>3. /\ DOMAIN stored'[turn] = 1..(Len(stored[turn]) + 1)
      /\ DOMAIN stored[turn] = 1..Len(stored[turn])
      /\ Len(stored[turn]) \in Nat
      /\ stored'[turn][Len(stored[turn]) + 1] = taken
      /\ \A i \in DOMAIN stored[turn] : stored'[turn][i] = stored[turn][i]
  BY <1>1, <1>2
<1>4. TypeOK'
  BY <1>0, <1>1, TurnMoves DEF IInv, TypeOK
<1>5. StoredBehind'
  <2> SUFFICES ASSUME NEW p \in Publisher, NEW i \in DOMAIN stored'[p]
               PROVE  /\ stored'[p][i] <= taken
                      /\ turn' # 0 /\ turn' <= p => stored'[p][i] < taken
    BY <1>0 DEF StoredBehind
  <2>1. CASE p = turn
    <3>1. stored'[p][i] <= taken
      BY <2>1, <1>1, <1>3 DEF IInv, StoredBehind
    <3>2. ~(turn' # 0 /\ turn' <= p)
      BY <2>1, <1>0, TurnMoves, PublisherFacts DEF IInv
    <3> QED
      BY <3>1, <3>2
  <2>2. CASE p # turn
    <3>1. turn' # 0 /\ turn' <= p => turn <= p
      BY <1>0, TurnMoves, PublisherFacts DEF IInv, TypeOK
    <3> QED
      BY <2>2, <3>1, <1>0, <1>2 DEF IInv, StoredBehind
  <2> QED
    BY <2>1, <2>2
<1>6. InPostingOrder'
  <2> SUFFICES ASSUME NEW p \in Publisher, NEW i \in DOMAIN stored'[p],
                      NEW j \in DOMAIN stored'[p], i < j
               PROVE  stored'[p][i] < stored'[p][j]
    BY DEF InPostingOrder
  <2>1. CASE p = turn
    <3>1. i \in DOMAIN stored[turn]
      BY <2>1, <1>3
    <3>2. CASE j \in DOMAIN stored[turn]
      BY <2>1, <3>1, <3>2, <1>1, <1>3 DEF IInv, InPostingOrder
    <3>3. CASE j \notin DOMAIN stored[turn]
      <4>1. j = Len(stored[turn]) + 1
        BY <2>1, <3>3, <1>3
      <4>2. stored[turn][i] < taken
        BY <3>1, <1>0, <1>1, PublisherFacts DEF IInv, StoredBehind
      <4> QED
        BY <2>1, <3>1, <4>1, <4>2, <1>3
    <3> QED
      BY <3>2, <3>3
  <2>2. CASE p # turn
    BY <2>2, <1>2 DEF IInv, InPostingOrder
  <2> QED
    BY <2>1, <2>2
<1>7. ClosedDetached' /\ ClosedSeesOneEvent'
  BY <1>0, CallLate DEF PublisherStores
<1>8. FanOutComplete'
  <2>1. \A p \in Publisher, e \in heard : Delivered(p, e) => Delivered(p, e)'
    <3> SUFFICES ASSUME NEW p \in Publisher, NEW e \in heard, Delivered(p, e)
                 PROVE  \E i \in DOMAIN stored'[p] : stored'[p][i] = e
      BY DEF Delivered
    <3> PICK i \in DOMAIN stored[p] : stored[p][i] = e
      BY DEF Delivered
    <3>1. i \in DOMAIN stored'[p] /\ stored'[p][i] = e
      BY <1>2, <1>3
    <3> QED
      BY <3>1
  <2>2. \E i \in DOMAIN stored'[turn] : stored'[turn][i] = taken
    <3>1. Len(stored[turn]) + 1 \in DOMAIN stored'[turn]
      BY <1>3
    <3> QED
      BY <3>1, <1>3
  <2> SUFFICES ASSUME NEW e \in heard, Convertible(log[e].payload),
                      NEW p \in Publisher, Served(p, e)'
               PROVE  e \in lost[p] \/ Delivered(p, e)'
    BY <1>0 DEF FanOutComplete
  <2>3. CASE Served(p, e)
    BY <2>1, <2>3 DEF IInv, FanOutComplete
  <2>4. CASE ~Served(p, e)
    <3>1. e = taken /\ p = turn
      BY <2>4, <1>0, TurnMoves DEF IInv, Served
    <3> QED
      BY <2>2, <3>1 DEF Delivered
  <2> QED
    BY <2>3, <2>4
<1> QED
  BY <1>4, <1>5, <1>6, <1>7, <1>8 DEF IInv

LEMMA LosesInv == IInv /\ PublisherLoses => IInv'
<1> SUFFICES ASSUME IInv, PublisherLoses PROVE IInv'
  OBVIOUS
<1>0. /\ turn # 0 /\ Call /\ NextTurn
      /\ UNCHANGED <<pc, listening, closed, log, waiting, taken, heard, stored>>
  BY DEF PublisherLoses, Call, run, posted
<1>1. /\ turn \in Publisher /\ taken \in Nat
      /\ \A p \in Publisher :
            /\ lost[p] \subseteq lost'[p]
            /\ p = turn => taken \in lost'[p]
  BY <1>0, TurnMoves DEF IInv, TypeOK, PublisherLoses
<1>2. TypeOK'
  <2>1. lost' \in [Publisher -> SUBSET Nat]
    BY <1>1 DEF IInv, TypeOK, PublisherLoses
  <2> QED
    BY <1>0, <2>1, TurnMoves DEF IInv, TypeOK
<1>3. StoredBehind'
  <2>1. \A p \in Publisher : turn' # 0 /\ turn' <= p => turn <= p
    BY <1>0, TurnMoves, PublisherFacts DEF IInv, TypeOK
  <2> QED
    BY <2>1, <1>0 DEF IInv, StoredBehind
<1>4. InPostingOrder'
  BY <1>0 DEF IInv, InPostingOrder
<1>5. ClosedDetached' /\ ClosedSeesOneEvent'
  BY <1>0, CallLate DEF PublisherLoses
<1>6. FanOutComplete'
  <2> SUFFICES ASSUME NEW e \in heard, Convertible(log[e].payload),
                      NEW p \in Publisher, Served(p, e)'
               PROVE  e \in lost'[p] \/ Delivered(p, e)
    BY <1>0 DEF FanOutComplete, Delivered
  <2>1. CASE Served(p, e)
    BY <2>1, <1>1 DEF IInv, FanOutComplete
  <2>2. CASE ~Served(p, e)
    BY <2>2, <1>0, <1>1, TurnMoves DEF IInv, Served
  <2> QED
    BY <2>1, <2>2
<1> QED
  BY <1>2, <1>3, <1>4, <1>5, <1>6 DEF IInv

LEMMA HangsInv == IInv /\ PublisherHangs => IInv'
<1> SUFFICES ASSUME IInv, PublisherHangs PROVE IInv'
  OBVIOUS
<1>0. /\ Call
      /\ UNCHANGED <<run, log, waiting, taken, heard, turn, stored, lost>>
  BY DEF PublisherHangs, posted
<1>1. TypeOK' /\ StoredBehind' /\ InPostingOrder'
  BY <1>0 DEF IInv, TypeOK, StoredBehind, InPostingOrder, run
<1>2. FanOutComplete'
  BY <1>0 DEF IInv, FanOutComplete, Served, Delivered
<1>3. ClosedDetached' /\ ClosedSeesOneEvent'
  BY <1>0, CallLate
<1> QED
  BY <1>1, <1>2, <1>3 DEF IInv

LEMMA StutterInv == IInv /\ UNCHANGED vars => IInv'
<1> SUFFICES ASSUME IInv, UNCHANGED vars PROVE IInv'
  OBVIOUS
<1>1. TypeOK' /\ ClosedDetached'
  BY DEF IInv, TypeOK, ClosedDetached, vars, run, posted, fanout
<1> QED
  BY <1>1, FanoutStays DEF IInv, vars

-----------------------------------------------------------------------------
LEMMA NextInv == IInv /\ [Next]_vars => IInv'
<1> SUFFICES ASSUME IInv, [Next]_vars PROVE IInv'
  OBVIOUS
<1>1. CASE Runner
  <2>1. QuietRunner \/ \E q \in Query : Stop(q)
    BY <1>1 DEF Runner, QuietRunner
  <2> QED
    BY <2>1, QuietInv, PostingInv
<1>2. CASE Queries
  BY <1>2, PostingInv DEF Queries
<1>3. CASE Listener
  BY <1>3, TakeInv, StoresInv, LosesInv, HangsInv DEF Listener
<1>4. CASE UNCHANGED vars
  BY <1>4, StutterInv
<1> QED
  BY <1>1, <1>2, <1>3, <1>4 DEF Next

\* In every run the publishers are as IInv says, for all values of the
\* constants.
THEOREM PublishersServed == Spec => []IInv
BY InitInv, NextInv, PTL DEF Spec

\* What one publisher raises, loses or swallows is never missing from
\* another one (listener.py:77-84).
THEOREM NoPublisherStarves == Spec => []FanOutComplete
<1>1. IInv => FanOutComplete
  BY DEF IInv
<1> QED
  BY <1>1, PublishersServed, PTL

\* Each publisher delivers in posting order, and nothing twice (listener.py:27-34).
THEOREM DeliveredInOrder == Spec => []InPostingOrder
<1>1. IInv => InPostingOrder
  BY DEF IInv
<1> QED
  BY <1>1, PublishersServed, PTL

\* A publisher that the runner has closed is called for one event at most, the
\* one the listener thread was at (runner.py:83-85).
THEOREM CloseIsAlmostFinal == Spec => []ClosedSeesOneEvent
<1>1. IInv => ClosedSeesOneEvent
  BY DEF IInv
<1> QED
  BY <1>1, PublishersServed, PTL
-----------------------------------------------------------------------------
(* Sums over the sources of a report                                       *)

\* The relation < is well-founded on Nat.

LEMMA LeastNumber ==
    ASSUME NEW numbers, numbers \subseteq Nat, numbers # {}
    PROVE  \E n \in numbers : \A k \in numbers : n <= k
<1> DEFINE less == OpToRel(<, Nat)
<1>1. \E n \in numbers : \A k \in numbers : <<k, n>> \notin less
  <2>1. IsWellFoundedOn(less, Nat)
    BY NatLessThanWellFounded
  <2> HIDE DEF less
  <2> QED
    BY <2>1, WFMin
<1>2. \A n, k \in Nat : k < n => <<k, n>> \in less
  BY DEF OpToRel
<1> HIDE DEF less
<1>3. PICK n \in numbers : \A k \in numbers : <<k, n>> \notin less
  BY <1>1
<1>4. \A k \in numbers : ~(k < n)
  BY <1>2, <1>3
<1> QED
  BY <1>4

Metric == {Null} \cup Nat

\* What _sum_source_metric has summed up after one more source
Plus(sum, value) ==
    IF value = Null THEN sum ELSE IF sum = Null THEN value ELSE sum + value

\* The sums over the first 0, ..., m sources
Sums(values, m, total) ==
    total = [n \in 0..m |-> IF n = 0 THEN Null ELSE Plus(total[n - 1], values[n])]

\* The recursion of SumSourceMetric has a solution.
LEMMA SumsExist ==
    ASSUME NEW values, NEW m \in Nat
    PROVE  \E total : Sums(values, m, total)
<1> DEFINE Missing == {k \in Nat : ~ \E total : Sums(values, k, total)}
<1> SUFFICES ASSUME Missing # {} PROVE FALSE
  OBVIOUS
<1>1. PICK k \in Missing : \A j \in Missing : k <= j
  BY LeastNumber
<1>2. k # 0
  <2> DEFINE total == [n \in 0..0 |-> Null]
  <2>1. Sums(values, 0, total)
    BY DEF Sums
  <2> QED
    BY <2>1
<1>3. k \in Nat /\ k - 1 \in Nat /\ ~(k <= k - 1)
  BY <1>2
<1>4. PICK short : Sums(values, k - 1, short)
  BY <1>1, <1>3
<1> DEFINE total == [n \in 0..k |-> IF n = k THEN Plus(short[k - 1], values[k])
                                              ELSE short[n]]
<1>5. \A n \in 0..k : n # 0 =>
          n - 1 \in 0..k /\ n - 1 # k /\ total[n - 1] = short[n - 1]
  BY <1>3
<1>6. \A n \in 0..(k - 1) :
          short[n] = IF n = 0 THEN Null ELSE Plus(short[n - 1], values[n])
  BY <1>4 DEF Sums
<1>7. \A n \in 0..k :
          total[n] = IF n = 0 THEN Null ELSE Plus(total[n - 1], values[n])
  <2> SUFFICES ASSUME NEW n \in 0..k
               PROVE  total[n] = IF n = 0 THEN Null ELSE Plus(total[n - 1], values[n])
    OBVIOUS
  <2>1. CASE n = k
    <3>1. total[n] = Plus(short[k - 1], values[k])
      BY <2>1
    <3> QED
      BY <2>1, <3>1, <1>2, <1>5
  <2>2. CASE n # k
    <3>1. total[n] = short[n] /\ n \in 0..(k - 1)
      BY <2>2, <1>3
    <3>2. n # 0 => total[n - 1] = short[n - 1]
      BY <1>5
    <3> QED
      BY <3>1, <3>2, <1>6
  <2> QED
    BY <2>1, <2>2
<1>8. DOMAIN total = 0..k /\ total = [n \in 0..k |-> total[n]]
  OBVIOUS
<1> HIDE DEF total
<1>9. Sums(values, k, total)
  BY <1>7, <1>8 DEF Sums
<1> QED
  BY <1>1, <1>9

\* A sum is null or a number, and no less than any of the metrics summed up.
LEMMA SumsBound ==
    ASSUME NEW m \in Nat, NEW values, NEW total,
           \A i \in 1..m : values[i] \in Metric,
           Sums(values, m, total)
    PROVE  /\ total[m] \in Metric
           /\ \A i \in 1..m : values[i] <= total[m]
<1> DEFINE Right(n) == /\ total[n] \in Metric
                       /\ \A i \in 1..n : values[i] <= total[n]
           Wrong == {n \in 0..m : ~Right(n)}
<1> SUFFICES ASSUME Wrong # {} PROVE FALSE
  OBVIOUS
<1>1. PICK n \in Wrong : \A j \in Wrong : n <= j
  <2>1. Wrong \subseteq Nat
    OBVIOUS
  <2> HIDE DEF Wrong
  <2> QED
    BY <2>1, LeastNumber
<1>2. total[0] = Null
  BY DEF Sums
<1>3. n # 0
  BY <1>1, <1>2 DEF Metric
<1>4. n - 1 \in 0..m /\ ~(n <= n - 1) /\ n \in 1..m
  BY <1>3
<1>5. Right(n - 1)
  BY <1>1, <1>4
<1>6. total[n] = Plus(total[n - 1], values[n])
  BY <1>4 DEF Sums
<1>7. total[n] \in Metric /\ values[n] <= total[n] /\ total[n - 1] <= total[n]
  BY <1>4, <1>5, <1>6 DEF Plus, Metric, Null
<1>8. \A i \in 1..n : i = n \/ i \in 1..(n - 1)
  BY <1>4
<1>9. \A i \in 1..n : values[i] <= total[n]
  <2> SUFFICES ASSUME NEW i \in 1..(n - 1) PROVE values[i] <= total[n]
    BY <1>7, <1>8
  <2>1. values[i] <= total[n - 1] /\ i \in 1..m
    BY <1>4, <1>5
  <2> QED
    BY <2>1, <1>5, <1>7 DEF Metric, Null
<1> QED
  BY <1>1, <1>7, <1>9

LEMMA SumBound ==
    ASSUME NEW m \in Nat, NEW values, DOMAIN values = 1..m, Len(values) = m,
           \A i \in 1..m : values[i] \in Metric
    PROVE  /\ SumSourceMetric(values) \in Metric
           /\ \A i \in 1..m : values[i] <= SumSourceMetric(values)
<1> DEFINE total == CHOOSE f : Sums(values, m, f)
<1>1. SumSourceMetric(values) = total[m]
  BY DEF SumSourceMetric, Sums, Plus
<1>2. Sums(values, m, total)
  BY SumsExist
<1> HIDE DEF total
<1> QED
  BY <1>1, <1>2, SumsBound

\* A source that is behind shows in the lag of a report that can be converted.
LEMMA LagShown ==
    ASSUME NEW payload \in Payload, Convertible(payload), Behind(payload)
    PROVE  ConsumerLag(payload) > 0
<1> DEFINE sources == payload.sources
           m == Len(sources)
           bytes == [i \in DOMAIN sources |-> sources[i].bytes]
           offsets == [i \in DOMAIN sources |-> sources[i].offsets]
<1>1. sources \in Seq(Source) /\ m \in Nat /\ DOMAIN sources = 1..m
  BY DEF Payload
<1>2. \A i \in 1..m : sources[i].bytes \in Metric /\ sources[i].offsets \in Metric
  <2> SUFFICES ASSUME NEW i \in 1..m
               PROVE  sources[i].bytes \in Metric /\ sources[i].offsets \in Metric
    OBVIOUS
  <2>1. sources[i] \in Source
    BY <1>1
  <2>2. sources[i].bytes \in Measured /\ sources[i].offsets \in Measured
    BY <2>1 DEF Source
  <2>3. sources[i].bytes # DecimalText /\ sources[i].offsets # DecimalText
    BY <1>1 DEF Convertible
  <2> QED
    BY <2>2, <2>3 DEF Measured, Metric
<1>3. /\ DOMAIN bytes = 1..m /\ Len(bytes) = m
      /\ DOMAIN offsets = 1..m /\ Len(offsets) = m
  <2>1. bytes \in Seq(Metric) /\ offsets \in Seq(Metric)
    BY <1>1, <1>2
  <2> QED
    BY <1>1, <2>1
<1>4. /\ BytesBehind(payload) \in Metric
      /\ \A i \in 1..m : sources[i].bytes <= BytesBehind(payload)
  BY <1>1, <1>2, <1>3, SumBound DEF BytesBehind
<1>5. /\ OffsetsBehind(payload) \in Metric
      /\ \A i \in 1..m : sources[i].offsets <= OffsetsBehind(payload)
  BY <1>1, <1>2, <1>3, SumBound DEF OffsetsBehind
<1>6. PICK i \in 1..m : sources[i].bytes > 0 \/ sources[i].offsets > 0
  BY <1>1 DEF Behind
<1> HIDE DEF m, sources, bytes, offsets
<1> QED
  BY <1>2, <1>4, <1>5, <1>6 DEF ConsumerLag, Metric, Null
-----------------------------------------------------------------------------
LEMMA InitConverted == Init => Converted
BY DEF Init, Converted

\* The events so far stay as they are, posted to or not.
LEMMA LogKeepsEvents ==
    ASSUME IInv, IInv', [Next]_vars
    PROVE  \A e \in 1..Len(log) : log'[e] = log[e]
<1>1. ASSUME NEW event, Post(event) PROVE \A e \in 1..Len(log) : log'[e] = log[e]
  BY <1>1 DEF IInv, TypeOK, Post
<1>2. CASE \E event : Post(event)
  BY <1>1, <1>2
<1>3. CASE log' = log
  BY <1>3
<1>4. (\E event : Post(event)) \/ log' = log
  BY DEF Next, Runner, Queries, Listener, Attach, Build, StartupRaises, LaunchDone,
         NextSweep, AuditHangs, work, ending,
         RestartRaises, BeginStop, RunStopped, Detach, Close, CloseRaises,
         CloseDone, Launch, Restart, StopPasses, StopRaises, Stop, Fails,
         Progresses, TakeEvent, PublisherStores, PublisherLoses, PublisherHangs,
         vars, posted
<1> QED
  BY <1>2, <1>3, <1>4

\* When the listener thread does not move, only the log may have grown.
LEMMA ConvertedStays ==
    ASSUME IInv, Converted, UNCHANGED <<taken, turn, stored>>,
           \A e \in 1..Len(log) : log'[e] = log[e]
    PROVE  Converted'
<1>1. taken # 0 => log'[taken] = log[taken]
  BY DEF IInv, TypeOK
<1>2. \A p \in Publisher : \A i \in DOMAIN stored[p] :
          log'[stored[p][i]] = log[stored[p][i]]
  <2> SUFFICES ASSUME NEW p \in Publisher, NEW i \in DOMAIN stored[p]
               PROVE  stored[p][i] \in 1..Len(log)
    OBVIOUS
  <2>1. stored[p][i] \in Nat /\ stored[p][i] <= taken /\ stored[p][i] # 0
    BY DEF IInv, TypeOK, StoredBehind, Converted
  <2> QED
    BY <2>1 DEF IInv, TypeOK
<1> QED
  BY <1>1, <1>2 DEF Converted

LEMMA ConvertedStep ==
    ASSUME IInv, IInv', Converted, [Next]_vars
    PROVE  Converted'
<1>0. \A e \in 1..Len(log) : log'[e] = log[e]
  BY LogKeepsEvents
<1>1. CASE TakeEvent
  <2> PICK e \in waiting : taken' = e /\ Convert(e)
    BY <1>1 DEF TakeEvent
  <2>1. log' = log /\ stored' = stored /\ e # 0
    BY <1>1 DEF TakeEvent, IInv, TypeOK
  <2>2. turn' # 0 => Convertible(log[e].payload)
    BY DEF Convert
  <2> QED
    BY <2>1, <2>2 DEF Converted
<1>2. CASE PublisherStores
  <2>1. /\ turn # 0 /\ turn \in Publisher /\ taken # 0
        /\ Convertible(log[taken].payload)
        /\ log' = log /\ taken' = taken
        /\ stored' = [stored EXCEPT ![turn] = Append(stored[turn], taken)]
    BY <1>2, PublisherFacts DEF PublisherStores, Call, posted, IInv, TypeOK, Converted
  <2>2. stored[turn] \in Seq(Nat) /\ taken \in Nat
    BY <2>1 DEF IInv, TypeOK
  <2>3. \A p \in Publisher : p # turn => stored'[p] = stored[p]
    BY <2>1 DEF IInv, TypeOK
  <2>4. stored'[turn] = Append(stored[turn], taken)
    BY <2>1 DEF IInv, TypeOK
  <2>5. \A i \in DOMAIN stored'[turn] :
            \/ i \in DOMAIN stored[turn] /\ stored'[turn][i] = stored[turn][i]
            \/ stored'[turn][i] = taken
    BY <2>2, <2>4
  <2> QED
    BY <2>1, <2>3, <2>5 DEF Converted
<1>3. CASE PublisherLoses \/ PublisherHangs
  <2>1. turn # 0 /\ UNCHANGED <<log, taken, stored>>
    BY <1>3 DEF PublisherLoses, PublisherHangs, Call, posted
  <2> QED
    BY <2>1 DEF Converted
<1>4. CASE Runner \/ Queries \/ UNCHANGED vars
  <2>1. UNCHANGED <<taken, turn, stored>>
    BY <1>4 DEF Runner, Queries, Attach, Build, StartupRaises, LaunchDone,
           NextSweep, AuditHangs, work, ending,
           RestartRaises, BeginStop, RunStopped, Detach, Close, CloseRaises,
           CloseDone, Launch, Restart, StopPasses, StopRaises, Stop, Fails,
           Progresses, vars, fanout
  <2> QED
    BY <1>0, <2>1, ConvertedStays
<1> QED
  BY <1>1, <1>2, <1>3, <1>4 DEF Next, Listener

\* No publisher ever stores a report of a source that is behind with a lag of
\* none or nothing, however many sources the report has, whichever of them is
\* behind and whichever metric says so (metrics.py:14-22, 59-62).
THEOREM BacklogReachesPublishers == Spec => []BacklogShown
<1>1. IInv /\ Converted => BacklogShown
  <2> SUFFICES ASSUME IInv, Converted, NEW p \in Publisher,
                      NEW i \in DOMAIN stored[p],
                      Behind(log[stored[p][i]].payload)
               PROVE  ConsumerLag(log[stored[p][i]].payload) > 0
    BY DEF BacklogShown
  <2>1. stored[p][i] \in Nat /\ stored[p][i] <= taken /\ stored[p][i] # 0
    BY DEF IInv, TypeOK, StoredBehind, Converted
  <2>2. log[stored[p][i]] \in EventRecord
    BY <2>1 DEF IInv, TypeOK
  <2>3. log[stored[p][i]].payload \in Payload
    BY <2>2 DEF EventRecord
  <2> QED
    BY <2>3, LagShown DEF Converted
<1>2. IInv /\ Converted /\ [Next]_vars => Converted'
  BY NextInv, ConvertedStep
<1> QED
  BY <1>1, <1>2, InitConverted, PublishersServed, PTL DEF Spec
-----------------------------------------------------------------------------
(* Sums over a finite set, one element after the other in the order that   *)
(* Sum takes them.                                                         *)

\* The element that a sum takes first.
First(s) == CHOOSE x \in s : TRUE

\* The sums over the subsets of S
SetSums(f, S, total) ==
    total = [s \in SUBSET S |->
                IF s = {} THEN 0 ELSE f[First(s)] + total[s \ {First(s)}]]

\* What holds of no elements, and of elements if it holds without the first one.
LEMMA SubsetInduction ==
    ASSUME NEW S, IsFiniteSet(S), NEW good, {} \in good,
           \A s \in SUBSET S : s # {} /\ s \ {First(s)} \in good => s \in good
    PROVE  SUBSET S \subseteq good
<1> DEFINE bad == {Cardinality(s) : s \in {u \in SUBSET S : u \notin good}}
<1> SUFFICES ASSUME NEW s0 \in SUBSET S, s0 \notin good PROVE FALSE
  OBVIOUS
<1>1. \A s \in SUBSET S : IsFiniteSet(s) /\ Cardinality(s) \in Nat
  BY FS_Subset, FS_CardinalityType
<1>2. bad \subseteq Nat /\ bad # {}
  BY <1>1
<1>3. PICK n \in bad : \A k \in bad : n <= k
  <2> HIDE DEF bad
  <2> QED
    BY <1>2, LeastNumber
<1>4. PICK s \in SUBSET S : s \notin good /\ Cardinality(s) = n
  OBVIOUS
<1>5. s # {} /\ First(s) \in s
  BY <1>4 DEF First
<1>6. s \ {First(s)} \in SUBSET S
      /\ Cardinality(s \ {First(s)}) = Cardinality(s) - 1
  BY <1>1, <1>5, FS_RemoveElement
<1>7. s \ {First(s)} \in good
  <2> SUFFICES ASSUME s \ {First(s)} \notin good PROVE FALSE
    OBVIOUS
  <2>1. Cardinality(s) - 1 \in bad
    BY <1>6
  <2>2. n <= n - 1 /\ n \in Nat
    BY <1>1, <1>3, <1>4, <2>1
  <2> QED
    BY <2>2
<1> QED
  BY <1>4, <1>5, <1>7

\* The recursion of Sum has a solution.
LEMMA SetSumsExist ==
    ASSUME NEW S, IsFiniteSet(S), NEW f
    PROVE  \E total : SetSums(f, S, total)
<1> DEFINE upto(n) == {s \in SUBSET S : Cardinality(s) <= n}
           Partial(n, total) ==
               total = [s \in upto(n) |->
                  IF s = {} THEN 0 ELSE f[First(s)] + total[s \ {First(s)}]]
           missing == {n \in Nat : ~ \E total : Partial(n, total)}
<1>1. \A s \in SUBSET S : IsFiniteSet(s) /\ Cardinality(s) \in Nat
  BY FS_Subset, FS_CardinalityType
<1>2. \A s \in SUBSET S : s # {} =>
        /\ First(s) \in s /\ s \ {First(s)} \in SUBSET S
        /\ Cardinality(s \ {First(s)}) = Cardinality(s) - 1
  BY <1>1, FS_RemoveElement DEF First
<1>3. missing = {}
  <2> SUFFICES ASSUME missing # {} PROVE FALSE
    OBVIOUS
  <2>1. PICK k \in missing : \A j \in missing : k <= j
    <3>1. missing \subseteq Nat
      OBVIOUS
    <3> HIDE DEF missing
    <3> QED
      BY <3>1, LeastNumber
  <2>2. k # 0
    <3> DEFINE total == [s \in upto(0) |-> 0]
    <3>1. \A s \in upto(0) : s = {}
      BY <1>1, FS_EmptySet
    <3>2. Partial(0, total)
      BY <3>1
    <3> QED
      BY <3>2
  <2>3. k - 1 \in Nat /\ ~(k <= k - 1) /\ k \in Nat
    BY <2>2
  <2>4. PICK short : Partial(k - 1, short)
    BY <2>1, <2>3
  <2> DEFINE total == [s \in upto(k) |->
                  IF s = {} THEN 0 ELSE f[First(s)] + short[s \ {First(s)}]]
  <2>5. \A s \in upto(k - 1) : s \in upto(k) /\ short[s] = total[s]
    <3>1. \A s \in upto(k - 1) : s \in upto(k)
      BY <1>1, <2>3
    <3>2. \A s \in upto(k - 1) : short[s] =
              IF s = {} THEN 0 ELSE f[First(s)] + short[s \ {First(s)}]
      <4> HIDE DEF upto
      <4> QED
        BY <2>4
    <3> HIDE DEF upto
    <3> QED
      BY <3>1, <3>2
  <2>6. \A s \in upto(k) : s # {} => s \ {First(s)} \in upto(k - 1)
    <3> SUFFICES ASSUME NEW s \in SUBSET S, Cardinality(s) <= k, s # {}
                 PROVE  Cardinality(s \ {First(s)}) <= k - 1
      BY <1>2
    <3>1. Cardinality(s \ {First(s)}) = Cardinality(s) - 1 /\ Cardinality(s) \in Nat
      BY <1>1, <1>2
    <3> QED
      BY <2>3, <3>1
  <2>7. \A s \in upto(k) : total[s] =
            IF s = {} THEN 0 ELSE f[First(s)] + total[s \ {First(s)}]
    BY <2>5, <2>6
  <2>8. DOMAIN total = upto(k) /\ total = [s \in upto(k) |-> total[s]]
    OBVIOUS
  <2> HIDE DEF total, upto
  <2>9. Partial(k, total)
    BY <2>7, <2>8
  <2> QED
    BY <2>1, <2>9
<1>4. PICK total : Partial(Cardinality(S), total)
  BY <1>1, <1>3
<1>5. upto(Cardinality(S)) = SUBSET S
  BY <1>1, FS_Subset
<1> QED
  BY <1>4, <1>5 DEF SetSums

LEMMA SumIsTotal ==
    ASSUME NEW f, IsFiniteSet(DOMAIN f)
    PROVE  \E total : SetSums(f, DOMAIN f, total) /\ Sum(f) = total[DOMAIN f]
<1> DEFINE total == CHOOSE t : SetSums(f, DOMAIN f, t)
<1>1. Sum(f) = total[DOMAIN f]
  BY DEF Sum, MapThenSumSet, MapThenFoldSet, SetSums, First
<1>2. SetSums(f, DOMAIN f, total)
  BY SetSumsExist
<1> QED
  BY <1>1, <1>2

\* A sum of numbers is a number, and 0 only when nothing was to be summed up.
LEMMA SumOfNumbers ==
    ASSUME NEW f, IsFiniteSet(DOMAIN f), \A x \in DOMAIN f : f[x] \in Nat
    PROVE  /\ Sum(f) \in Nat
           /\ Sum(f) = 0 <=> \A x \in DOMAIN f : f[x] = 0
<1> DEFINE S == DOMAIN f
<1>1. PICK total : SetSums(f, S, total) /\ Sum(f) = total[S]
  BY SumIsTotal
<1>2. \A s \in SUBSET S :
        total[s] = IF s = {} THEN 0 ELSE f[First(s)] + total[s \ {First(s)}]
  BY <1>1 DEF SetSums
<1> DEFINE good == {s \in SUBSET S : /\ total[s] \in Nat
                                     /\ total[s] = 0 <=> \A x \in s : f[x] = 0}
<1>3. {} \in good
  <2>1. {} \in SUBSET S /\ total[{}] = 0
    BY <1>2
  <2> QED
    BY <2>1
<1>4. ASSUME NEW s \in SUBSET S, s # {}, s \ {First(s)} \in good PROVE s \in good
  <2>1. First(s) \in s
    BY <1>4 DEF First
  <2>2. total[s] = f[First(s)] + total[s \ {First(s)}]
    BY <1>2, <1>4
  <2>3. f[First(s)] \in Nat /\ total[s \ {First(s)}] \in Nat
    BY <2>1, <1>4
  <2>4. (\A x \in s : f[x] = 0) <=>
            f[First(s)] = 0 /\ \A x \in s \ {First(s)} : f[x] = 0
    BY <2>1
  <2> QED
    BY <1>4, <2>2, <2>3, <2>4
<1>5. SUBSET S \subseteq good
  <2> HIDE DEF good
  <2> QED
    BY <1>3, <1>4, SubsetInduction
<1> QED
  BY <1>1, <1>5

\* Sizes of disjoint sets add up to that of their union.
LEMMA SumOfSizes ==
    ASSUME NEW f, IsFiniteSet(DOMAIN f), NEW part,
           \A x \in DOMAIN f : IsFiniteSet(part[x]) /\ f[x] = Cardinality(part[x]),
           \A x, y \in DOMAIN f : x # y => part[x] \cap part[y] = {}
    PROVE  Sum(f) = Cardinality(UNION {part[x] : x \in DOMAIN f})
<1> DEFINE S == DOMAIN f
           all(s) == UNION {part[x] : x \in s}
<1>1. PICK total : SetSums(f, S, total) /\ Sum(f) = total[S]
  BY SumIsTotal
<1>2. \A s \in SUBSET S :
        total[s] = IF s = {} THEN 0 ELSE f[First(s)] + total[s \ {First(s)}]
  BY <1>1 DEF SetSums
<1> DEFINE good == {s \in SUBSET S : /\ IsFiniteSet(all(s))
                                     /\ total[s] = Cardinality(all(s))}
<1>3. {} \in good
  <2>1. all({}) = {}
    OBVIOUS
  <2> QED
    BY <1>2, <2>1, FS_EmptySet
<1>4. ASSUME NEW s \in SUBSET S, s # {}, s \ {First(s)} \in good PROVE s \in good
  <2> DEFINE x == First(s)
             rest == s \ {x}
  <2>1. x \in s
    BY <1>4 DEF First
  <2>2. total[s] = f[x] + total[rest]
    BY <1>2, <1>4
  <2>3. all(s) = part[x] \cup all(rest) /\ part[x] \cap all(rest) = {}
    BY <2>1
  <2>4. /\ IsFiniteSet(part[x]) /\ f[x] = Cardinality(part[x])
        /\ IsFiniteSet(all(rest)) /\ total[rest] = Cardinality(all(rest))
    BY <2>1, <1>4
  <2> HIDE DEF all, x, rest
  <2>5. /\ IsFiniteSet(part[x] \cup all(rest))
        /\ Cardinality(part[x] \cup all(rest))
               = Cardinality(part[x]) + Cardinality(all(rest))
    <3>1. Cardinality(part[x]) \in Nat /\ Cardinality(all(rest)) \in Nat
      BY <2>4, FS_CardinalityType
    <3>2. Cardinality(part[x] \cap all(rest)) = 0
      BY <2>3, FS_EmptySet
    <3>3. /\ IsFiniteSet(part[x] \cup all(rest))
          /\ Cardinality(part[x] \cup all(rest))
                 = Cardinality(part[x]) + Cardinality(all(rest))
                       - Cardinality(part[x] \cap all(rest))
      BY <2>4, FS_Union
    <3> QED
      BY <3>1, <3>2, <3>3
  <2> QED
    BY <2>2, <2>3, <2>4, <2>5
<1>5. SUBSET S \subseteq good
  <2> HIDE DEF good
  <2> QED
    BY <1>3, <1>4, SubsetInduction
<1> QED
  BY <1>1, <1>5

\* A sum differs by as much as the one value that differs.
LEMMA SumDiffers ==
    ASSUME NEW f, NEW g, DOMAIN f = DOMAIN g, IsFiniteSet(DOMAIN f),
           \A x \in DOMAIN f : f[x] \in Nat /\ g[x] \in Nat,
           NEW t \in DOMAIN f,
           \A x \in DOMAIN f : x # t => f[x] = g[x]
    PROVE  Sum(f) + g[t] = Sum(g) + f[t]
<1> DEFINE S == DOMAIN f
<1>1. PICK tf : SetSums(f, S, tf) /\ Sum(f) = tf[S]
  BY SumIsTotal
<1>2. PICK tg : SetSums(g, S, tg) /\ Sum(g) = tg[S]
  BY SumIsTotal
<1>3. \A s \in SUBSET S :
        /\ tf[s] = IF s = {} THEN 0 ELSE f[First(s)] + tf[s \ {First(s)}]
        /\ tg[s] = IF s = {} THEN 0 ELSE g[First(s)] + tg[s \ {First(s)}]
  BY <1>1, <1>2 DEF SetSums
<1> DEFINE good == {s \in SUBSET S : /\ tf[s] \in Nat /\ tg[s] \in Nat
                                     /\ t \in s => tf[s] + g[t] = tg[s] + f[t]
                                     /\ t \notin s => tf[s] = tg[s]}
<1>4. {} \in good
  <2>1. {} \in SUBSET S /\ tf[{}] = 0 /\ tg[{}] = 0
    BY <1>3
  <2> QED
    BY <2>1
<1>5. ASSUME NEW s \in SUBSET S, s # {}, s \ {First(s)} \in good PROVE s \in good
  <2>1. First(s) \in s
    BY <1>5 DEF First
  <2>2. /\ tf[s] = f[First(s)] + tf[s \ {First(s)}]
        /\ tg[s] = g[First(s)] + tg[s \ {First(s)}]
    BY <1>3, <1>5
  <2>3. /\ f[First(s)] \in Nat /\ g[First(s)] \in Nat /\ f[t] \in Nat /\ g[t] \in Nat
        /\ tf[s \ {First(s)}] \in Nat /\ tg[s \ {First(s)}] \in Nat
    BY <2>1, <1>5
  <2>4. CASE First(s) = t
    <3>1. tf[s \ {First(s)}] = tg[s \ {First(s)}]
      BY <1>5, <2>4
    <3> QED
      BY <2>1, <2>2, <2>3, <2>4, <3>1
  <2>5. CASE First(s) # t
    <3>1. f[First(s)] = g[First(s)]
      BY <2>1, <2>5
    <3>2. t \in s \ {First(s)} <=> t \in s
      BY <2>5
    <3> QED
      BY <1>5, <2>2, <2>3, <3>1, <3>2
  <2> QED
    BY <2>4, <2>5
<1>6. SUBSET S \subseteq good
  <2> HIDE DEF good
  <2> QED
    BY <1>4, <1>5, SubsetInduction
<1> QED
  BY <1>1, <1>2, <1>6

\* No value is above the sum.
LEMMA SumBoundsEach ==
    ASSUME NEW f, IsFiniteSet(DOMAIN f), \A x \in DOMAIN f : f[x] \in Nat,
           NEW t \in DOMAIN f
    PROVE  f[t] <= Sum(f)
<1> DEFINE g == [x \in DOMAIN f |-> IF x = t THEN 0 ELSE f[x]]
<1>1. /\ DOMAIN g = DOMAIN f /\ g[t] = 0
      /\ \A x \in DOMAIN f : g[x] \in Nat /\ (x # t => f[x] = g[x])
  OBVIOUS
<1> HIDE DEF g
<1>2. Sum(f) + g[t] = Sum(g) + f[t]
  BY <1>1, SumDiffers
<1>3. Sum(f) \in Nat /\ Sum(g) \in Nat
  BY <1>1, SumOfNumbers
<1> QED
  BY <1>1, <1>2, <1>3

-----------------------------------------------------------------------------
(* The sums the check compares *)

\* The records of the first table in some slices, as the writer counts.
In(slices) == {r \in 1..NumRecords :
                  records[r].table = 1 /\ records[r][bucketing] \in slices}

LEMMA InFinite ==
    ASSUME NEW slices
    PROVE  IsFiniteSet(In(slices)) /\ Cardinality(In(slices)) \in Nat
<1>1. NumRecords \in Int
  BY StatsCheckAssumption
<1>2. IsFiniteSet(1..NumRecords)
  BY <1>1, FS_Interval
<1>3. In(slices) \in SUBSET (1..NumRecords)
  BY DEF In
<1> QED
  BY <1>2, <1>3, FS_Subset, FS_CardinalityType

LEMMA SliceFacts ==
    /\ NumSlices \in Nat /\ Slice = 1..NumSlices
    /\ \A slices \in SUBSET Slice : IsFiniteSet(slices)
<1>1. NumSlices \in Nat /\ 1 \in Int /\ NumSlices \in Int
  BY StatsCheckAssumption
<1>2. IsFiniteSet(Slice)
  BY <1>1, FS_Interval DEF Slice
<1> QED
  BY <1>1, <1>2, FS_Subset DEF Slice

LEMMA CountIsNumber == ASSUME NEW w, NEW s, NEW i PROVE Count(w, s, i) \in Nat
<1> DEFINE counted == {r \in 1..NumRecords :
               records[r].table = i /\ records[r][bucketing] \in Covers(w, s)}
<1>1. NumRecords \in Int /\ IsFiniteSet(1..NumRecords)
  BY FS_Interval, StatsCheckAssumption
<1>2. counted \in SUBSET (1..NumRecords)
  OBVIOUS
<1>3. Cardinality(counted) \in Nat
  BY <1>1, <1>2, FS_Subset, FS_CardinalityType
<1> QED
  BY <1>3 DEF Count

LEMMA CountIs ==
    ASSUME NEW s
    PROVE  /\ \A w : Count(w, s, 1) = Cardinality(In(Covers(w, s))) /\ Count(w, s, 1) \in Nat
           /\ Count("FIVE_MINUTES", s, 1) = Cardinality(In({s}))
<1>1. \A w : Count(w, s, 1) = Cardinality(In(Covers(w, s)))
  BY DEF Count, In
<1>2. Covers("FIVE_MINUTES", s) = {s}
  BY DEF Covers
<1> QED
  BY <1>1, <1>2, InFinite

\* The counts of slices add up to that of the records in any of them.
LEMMA CountsAddUp ==
    ASSUME NEW slices \in SUBSET Slice
    PROVE  Sum([t \in slices |-> Count("FIVE_MINUTES", t, 1)]) = Cardinality(In(slices))
<1> DEFINE f == [t \in slices |-> Count("FIVE_MINUTES", t, 1)]
           part == [t \in slices |-> In({t})]
<1>1. DOMAIN f = slices /\ IsFiniteSet(slices)
  BY SliceFacts
<1>2. \A t \in slices : IsFiniteSet(part[t]) /\ f[t] = Cardinality(part[t])
  BY InFinite, CountIs
<1>3. \A t, u \in slices : t # u => part[t] \cap part[u] = {}
  BY DEF In
<1>4. UNION {part[t] : t \in slices} = In(slices)
  BY DEF In
<1> HIDE DEF f, part
<1>5. Sum(f) = Cardinality(UNION {part[t] : t \in DOMAIN f})
  BY <1>1, <1>2, <1>3, SumOfSizes
<1> QED
  BY <1>1, <1>4, <1>5 DEF f

\* The sum of no row, one row and two rows
LEMMA SumOfRows ==
    ASSUME NEW c \in Nat
    PROVE  Sum(<<>>) = 0 /\ Sum(<<c>>) = c /\ Sum(<<c, c>>) = c + c
<1>1. \A S : IsFiniteSet(S) => \A f, total : SetSums(f, S, total) =>
          total[S] = IF S = {} THEN 0 ELSE f[First(S)] + total[S \ {First(S)}]
  BY DEF SetSums
<1>2. Sum(<<>>) = 0
  <2>1. DOMAIN <<>> = {} /\ IsFiniteSet({})
    BY FS_EmptySet
  <2>2. PICK total : SetSums(<<>>, {}, total) /\ Sum(<<>>) = total[{}]
    BY <2>1, SumIsTotal
  <2> QED
    BY <2>1, <2>2, <1>1
<1>3. Sum(<<c>>) = c
  <2>1. DOMAIN <<c>> = {1} /\ IsFiniteSet({1})
    BY FS_Singleton
  <2>2. PICK total : SetSums(<<c>>, {1}, total) /\ Sum(<<c>>) = total[{1}]
    BY <2>1, SumIsTotal
  <2>3. total[{}] = 0 /\ total[{1}] = <<c>>[First({1})] + total[{1} \ {First({1})}]
    BY <2>2 DEF SetSums
  <2>4. First({1}) = 1 /\ {1} \ {1} = {}
    BY DEF First
  <2> QED
    BY <2>2, <2>3, <2>4
<1>4. Sum(<<c, c>>) = c + c
  <2>1. DOMAIN <<c, c>> = {1, 2} /\ IsFiniteSet({1, 2})
    <3>1. DOMAIN <<c, c>> = {1, 2} /\ {1, 2} = {1} \cup {2}
      OBVIOUS
    <3>2. IsFiniteSet({1} \cup {2})
      BY FS_Singleton, FS_AddElement
    <3> QED
      BY <3>1, <3>2
  <2>2. PICK total : SetSums(<<c, c>>, {1, 2}, total) /\ Sum(<<c, c>>) = total[{1, 2}]
    BY <2>1, SumIsTotal
  <2>3. First({1, 2}) \in {1, 2} /\ First({1}) = 1 /\ First({2}) = 2
    BY DEF First
  <2>4. /\ total[{}] = 0
        /\ total[{1}] = c + total[{}]
        /\ total[{2}] = c + total[{}]
        /\ total[{1, 2}] = c + total[{1, 2} \ {First({1, 2})}]
    <3>1. /\ {} \in SUBSET {1, 2} /\ {1} \in SUBSET {1, 2} /\ {2} \in SUBSET {1, 2}
          /\ {1} \ {1} = {} /\ {2} \ {2} = {}
      OBVIOUS
    <3>2. \A s \in SUBSET {1, 2} : total[s] = IF s = {} THEN 0
              ELSE <<c, c>>[First(s)] + total[s \ {First(s)}]
      BY <2>2 DEF SetSums
    <3>3. <<c, c>>[1] = c /\ <<c, c>>[2] = c
      OBVIOUS
    <3> QED
      BY <2>3, <3>1, <3>2, <3>3
  <2>5. {1, 2} \ {First({1, 2})} \in {{1}, {2}}
    BY <2>3
  <2> QED
    BY <2>2, <2>4, <2>5
<1> QED
  BY <1>2, <1>3, <1>4

-----------------------------------------------------------------------------
(* A table as its writer filled it, but for one row *)

LEMMA RowFacts ==
    ASSUME StatsTypeOK, NEW t \in Slice
    PROVE  /\ Five(t) \in Seq(Nat)
           /\ Sum(Five(t)) \in Nat
<1>1. Five(t) \in Seq(Nat)
  BY DEF StatsTypeOK, Five, WindowType
<1>2. DOMAIN Five(t) = 1..Len(Five(t)) /\ Len(Five(t)) \in Nat
      /\ \A i \in DOMAIN Five(t) : Five(t)[i] \in Nat
  BY <1>1
<1>3. IsFiniteSet(DOMAIN Five(t))
  BY <1>2, FS_Interval
<1> QED
  BY <1>1, <1>2, <1>3, SumOfNumbers

LEMMA TotalIsNumber ==
    ASSUME StatsTypeOK, NEW slices \in SUBSET Slice
    PROVE  FiveTotal(slices) \in Nat
<1> DEFINE f == [t \in slices |-> Sum(Five(t))]
<1>1. IsFiniteSet(DOMAIN f) /\ \A t \in DOMAIN f : f[t] \in Nat
  BY SliceFacts, RowFacts
<1> HIDE DEF f
<1>2. Sum(f) \in Nat
  BY <1>1, SumOfNumbers
<1> QED
  BY <1>2 DEF FiveTotal, f

\* Where no five-minute row is damaged, the rows add up to the writer's counts.
LEMMA CleanTotal ==
    ASSUME NEW slices \in SUBSET Slice,
           \A t \in slices : Five(t) = <<Count("FIVE_MINUTES", t, 1)>>
    PROVE  FiveTotal(slices) = Cardinality(In(slices))
<1>1. \A t \in slices : Sum(Five(t)) = Count("FIVE_MINUTES", t, 1)
  BY CountIs, SumOfRows
<1>2. [t \in slices |-> Sum(Five(t))] = [t \in slices |-> Count("FIVE_MINUTES", t, 1)]
  BY <1>1
<1> QED
  BY <1>2, CountsAddUp DEF FiveTotal

\* A damaged one makes the difference.
LEMMA DamagedTotal ==
    ASSUME StatsTypeOK, NEW slices \in SUBSET Slice, NEW u \in slices,
           \A t \in slices \ {u} : Five(t) = <<Count("FIVE_MINUTES", t, 1)>>
    PROVE  FiveTotal(slices) + Count("FIVE_MINUTES", u, 1)
               = Cardinality(In(slices)) + Sum(Five(u))
<1> DEFINE f == [t \in slices |-> Count("FIVE_MINUTES", t, 1)]
           g == [t \in slices |-> Sum(Five(t))]
<1>1. \A t \in slices \ {u} : Sum(Five(t)) = Count("FIVE_MINUTES", t, 1)
  BY CountIs, SumOfRows
<1>2. /\ DOMAIN f = slices /\ DOMAIN g = slices /\ IsFiniteSet(slices)
      /\ \A t \in slices : f[t] \in Nat /\ g[t] \in Nat
      /\ \A t \in slices : t # u => f[t] = g[t]
  BY <1>1, CountIs, RowFacts, SliceFacts
<1>3. f[u] = Count("FIVE_MINUTES", u, 1) /\ g[u] = Sum(Five(u))
  OBVIOUS
<1>4. Sum(f) = Cardinality(In(slices))
  BY CountsAddUp
<1>5. Sum(g) = FiveTotal(slices)
  BY DEF FiveTotal
<1>6. Sum(f) + g[u] = Sum(g) + f[u]
  <2> HIDE DEF f, g
  <2> QED
    BY <1>2, SumDiffers
<1> QED
  BY <1>3, <1>4, <1>5, <1>6

\* What a derived row is expected to count where the slice has one row.
LEMMA ExpectedIs ==
    ASSUME StatsTypeOK, NEW w \in Derived, NEW s \in Slice,
           NEW c \in Nat, Five(s) = <<c>>
    PROVE  Expected(w, s) =
               IF w = "FIFTEEN_MINUTES"
               THEN <<FiveTotal(Covers(w, s))>>
               ELSE <<FiveTotal({t \in Slice : Hour(t) = Hour(s) /\ t < s}) + c>>
<1>1. CASE w = "FIFTEEN_MINUTES"
  <2>1. Covers(w, s) = {t \in Slice : s - 3 < t /\ t <= s}
    BY <1>1 DEF Covers
  <2>2. Expected(w, s) = <<Len(Five(s)) * FiveTotal(Covers(w, s))>>
    BY <1>1, <2>1 DEF Expected, ExpectedFifteen
  <2>3. Len(Five(s)) = 1
    OBVIOUS
  <2>4. FiveTotal(Covers(w, s)) \in Nat
    BY <2>1, TotalIsNumber
  <2> QED
    BY <1>1, <2>2, <2>3, <2>4
<1>2. CASE w # "FIFTEEN_MINUTES"
  <2> DEFINE before == FiveTotal({t \in Slice : Hour(t) = Hour(s) /\ t < s})
  <2>1. Expected(w, s) = [i \in DOMAIN <<c>> |-> before + Sum([j \in 1..i |-> <<c>>[j]])]
    BY <1>2 DEF Expected, ExpectedSixty
  <2>2. DOMAIN <<c>> = {1}
    OBVIOUS
  <2>3. [j \in 1..1 |-> <<c>>[j]] = <<c>>
    OBVIOUS
  <2>4. Sum(<<c>>) = c
    BY SumOfRows
  <2>5. [i \in {1} |-> before + Sum([j \in 1..i |-> <<c>>[j]])] = [i \in {1} |-> before + c]
    BY <2>3, <2>4
  <2>6. [i \in {1} |-> before + c] = <<before + c>>
    OBVIOUS
  <2> QED
    BY <1>2, <2>1, <2>2, <2>5, <2>6
<1> QED
  BY <1>1, <1>2

\* The check fails where one derived row differs from what is expected.
LEMMA TotalIsZero ==
    ASSUME StatsTypeOK
    PROVE  TotalMismatches = 0 <=>
               \A w \in Derived, s \in Slice : Mismatches(w, s) = {}
<1> DEFINE f == [x \in Derived \X Slice |-> Cardinality(Mismatches(x[1], x[2]))]
<1>1. ASSUME NEW w \in Derived, NEW s \in Slice
      PROVE  IsFiniteSet(Mismatches(w, s))
  <2>1. IsFiniteSet(DOMAIN Expected(w, s))
    <3>1. Five(s) \in Seq(Nat)
      BY RowFacts
    <3>2. DOMAIN Five(s) = 1..Len(Five(s)) /\ Len(Five(s)) \in Nat
      BY <3>1
    <3>3. IsFiniteSet(DOMAIN Five(s))
      BY <3>2, FS_Interval
    <3>4. DOMAIN ExpectedSixty(s) = DOMAIN Five(s)
      BY DEF ExpectedSixty
    <3>5. DOMAIN ExpectedFifteen(s) \in {{}, {1}}
      BY DEF ExpectedFifteen
    <3>6. IsFiniteSet({}) /\ IsFiniteSet({1})
      BY FS_EmptySet, FS_Singleton
    <3>7. Expected(w, s) \in {ExpectedFifteen(s), ExpectedSixty(s)}
      BY DEF Expected
    <3> QED
      BY <3>3, <3>4, <3>5, <3>6, <3>7
  <2>2. IsFiniteSet(DOMAIN table[w][s])
    <3>1. table[w][s] \in Seq(Nat)
      BY DEF StatsTypeOK, WindowType
    <3>2. DOMAIN table[w][s] = 1..Len(table[w][s]) /\ Len(table[w][s]) \in Nat
      BY <3>1
    <3> QED
      BY <3>2, FS_Interval
  <2>3. IsFiniteSet((DOMAIN Expected(w, s)) \X (DOMAIN table[w][s]))
    BY <2>1, <2>2, FS_Product
  <2>4. Mismatches(w, s) \in SUBSET ((DOMAIN Expected(w, s)) \X (DOMAIN table[w][s]))
    BY DEF Mismatches
  <2> QED
    BY <2>3, <2>4, FS_Subset
<1>2. \A w \in Derived, s \in Slice :
        /\ Cardinality(Mismatches(w, s)) \in Nat
        /\ Cardinality(Mismatches(w, s)) = 0 <=> Mismatches(w, s) = {}
  BY <1>1, FS_CardinalityType, FS_EmptySet
<1>3. IsFiniteSet(Derived \X Slice)
  <2>1. Derived = {"FIFTEEN_MINUTES"} \cup {"SIXTY_MINUTES"}
    BY DEF Derived
  <2>2. IsFiniteSet(Derived)
    BY <2>1, FS_Singleton, FS_AddElement
  <2> QED
    BY <2>2, SliceFacts, FS_Product
<1>4. DOMAIN f = Derived \X Slice /\ \A x \in DOMAIN f : f[x] \in Nat
  BY <1>2
<1>5. Sum(f) = 0 <=> \A x \in DOMAIN f : f[x] = 0
  <2> HIDE DEF f
  <2> QED
    BY <1>3, <1>4, SumOfNumbers
<1>6. (\A x \in DOMAIN f : f[x] = 0) <=>
          \A w \in Derived, s \in Slice : Cardinality(Mismatches(w, s)) = 0
  <2>1. \A w \in Derived, s \in Slice :
            <<w, s>> \in DOMAIN f /\ f[<<w, s>>] = Cardinality(Mismatches(w, s))
    OBVIOUS
  <2>2. \A x \in DOMAIN f : \E w \in Derived, s \in Slice : x = <<w, s>>
    OBVIOUS
  <2> HIDE DEF f
  <2> QED
    BY <2>1, <2>2
<1> QED
  BY <1>2, <1>5, <1>6 DEF TotalMismatches

LEMMA OneRowMismatch ==
    ASSUME NEW w \in Derived, NEW s \in Slice, NEW c, NEW d,
           Expected(w, s) = <<c>>, table[w][s] = <<d>>
    PROVE  Mismatches(w, s) = {} <=> c = d
<1>1. DOMAIN <<c>> = {1} /\ DOMAIN <<d>> = {1} /\ <<c>>[1] = c /\ <<d>>[1] = d
  OBVIOUS
<1>2. Mismatches(w, s) = {pair \in {1} \X {1} : <<c>>[pair[1]] # <<d>>[pair[2]]}
  BY <1>1 DEF Mismatches
<1>3. \A pair \in {1} \X {1} : pair[1] = 1 /\ pair[2] = 1
  OBVIOUS
<1>4. <<1, 1>> \in {1} \X {1}
  OBVIOUS
<1> QED
  BY <1>1, <1>2, <1>3, <1>4

\* Where no five-minute row is damaged, what is expected is what the writer
\* counts, at every slice.
LEMMA CleanExpected ==
    ASSUME StatsTypeOK, \A t \in Slice : Five(t) = <<Count("FIVE_MINUTES", t, 1)>>,
           NEW w \in Derived, NEW s \in Slice
    PROVE  Expected(w, s) = <<Count(w, s, 1)>>
<1>1. Five(s) = <<Count("FIVE_MINUTES", s, 1)>> /\ Count("FIVE_MINUTES", s, 1) \in Nat
  BY CountIs
<1>2. CASE w = "FIFTEEN_MINUTES"
  <2>1. Covers(w, s) \in SUBSET Slice
    BY <1>2 DEF Covers
  <2>2. FiveTotal(Covers(w, s)) = Count(w, s, 1)
    BY <2>1, CleanTotal, CountIs
  <2> QED
    BY <1>1, <1>2, <2>2, ExpectedIs
<1>3. CASE w = "SIXTY_MINUTES"
  <2> DEFINE before == {t \in Slice : Hour(t) = Hour(s) /\ t < s}
  <2>1. FiveTotal(before) = Cardinality(In(before))
    BY CleanTotal
  <2>2. Covers(w, s) = before \cup {s}
    BY <1>3, SliceFacts DEF Covers, Hour
  <2>3. In(before \cup {s}) = In(before) \cup In({s}) /\ In(before) \cap In({s}) = {}
    BY SliceFacts DEF In
  <2> HIDE DEF before
  <2>4. Cardinality(In(before \cup {s})) = Cardinality(In(before)) + Cardinality(In({s}))
    <3>1. Cardinality(In(before) \cap In({s})) = 0
      BY <2>3, FS_EmptySet
    <3>2. /\ IsFiniteSet(In(before)) /\ IsFiniteSet(In({s}))
          /\ Cardinality(In(before)) \in Nat /\ Cardinality(In({s})) \in Nat
      BY InFinite
    <3>3. Cardinality(In(before) \cup In({s})) =
              Cardinality(In(before)) + Cardinality(In({s}))
                  - Cardinality(In(before) \cap In({s}))
      BY <3>2, FS_Union
    <3>4. Cardinality(In(before \cup {s})) = Cardinality(In(before) \cup In({s}))
      BY <2>3
    <3> QED
      BY <3>1, <3>2, <3>3, <3>4
  <2>5. Count(w, s, 1) = FiveTotal(before) + Count("FIVE_MINUTES", s, 1)
    BY <2>1, <2>2, <2>4, CountIs
  <2>6. w # "FIFTEEN_MINUTES"
    BY <1>3
  <2> QED
    BY <1>1, <2>5, <2>6, ExpectedIs DEF before
<1> QED
  BY <1>2, <1>3 DEF Derived

-----------------------------------------------------------------------------
(* The verdict *)

LEMMA DamagedOne ==
    ASSUME NEW c \in Nat
    PROVE  /\ Damaged("missing", <<c>>) = <<>>
           /\ Damaged("doubled", <<c>>) = <<c, c>>
           /\ Damaged("wrong", <<c>>) = <<c + 1>>
<1>1. Tail(<<c>>) = <<>> /\ <<c>>[1] = c /\ Append(<<c>>, c) = <<c, c>>
  <2>1. <<c>> \in Seq(Nat) /\ Len(<<c>>) = 1 /\ <<c>>[1] = c
    OBVIOUS
  <2>2. Tail(<<c>>) \in Seq(Nat) /\ Len(Tail(<<c>>)) = 0
    BY <2>1
  <2>3. Tail(<<c>>) = <<>>
    BY <2>2
  <2>4. Append(<<c>>, c) = <<c, c>>
    <3>1. /\ Append(<<c>>, c) \in Seq(Nat) /\ Len(Append(<<c>>, c)) = 2
          /\ Append(<<c>>, c)[1] = c /\ Append(<<c>>, c)[2] = c
      BY <2>1, AppendProperties
    <3>2. /\ <<c, c>> \in Seq(Nat) /\ Len(<<c, c>>) = 2
          /\ <<c, c>>[1] = c /\ <<c, c>>[2] = c
      OBVIOUS
    <3>3. \A i \in 1..2 : i = 1 \/ i = 2
      OBVIOUS
    <3> QED
      BY <3>1, <3>2, <3>3, SeqEqual
  <2> QED
    BY <2>1, <2>3, <2>4
<1>2. [<<c>> EXCEPT ![1] = c + 1] = <<c + 1>>
  OBVIOUS
<1>3. Damaged("missing", <<c>>) = <<>>
  BY <1>1 DEF Damaged
<1>4. Damaged("doubled", <<c>>) = <<c, c>>
  BY <1>1 DEF Damaged
<1>5. Damaged("wrong", <<c>>) = <<c + 1>>
  BY <1>1, <1>2 DEF Damaged
<1> QED
  BY <1>3, <1>4, <1>5

\* What a writer with one table to monitor writes
LEMMA WrittenOne ==
    ASSUME tables = 1, NEW w, NEW s
    PROVE  Written(w, s) = <<Count(w, s, 1)>>
BY DEF Written

\* A writer writes one row for each table it monitors.
LEMMA WrittenRows ==
    ASSUME tables \in 1..MaxTables, NEW w, NEW s
    PROVE  /\ Written(w, s) \in Seq(Nat) /\ Len(Written(w, s)) = tables
           /\ \A i \in 1..tables : Written(w, s)[i] = Count(w, s, i)
<1>1. tables \in Nat /\ \A i : Count(w, s, i) \in Nat
  BY CountIsNumber, StatsCheckAssumption
<1> QED
  BY <1>1 DEF Written

\* A row of the table that no fault concerns, and the one that a fault does.
LEMMA RowIs ==
    ASSUME StatsInv, tables = 1, NEW w \in WindowType, NEW s \in Slice
    PROVE  /\ fault.kind = "none" \/ fault.type # w \/ fault.slice # s
                  => table[w][s] = <<Count(w, s, 1)>>
           /\ fault.kind # "none" /\ fault.type = w /\ fault.slice = s
                  => table[w][s] = Damaged(fault.kind, <<Count(w, s, 1)>>)
BY WrittenOne DEF StatsInv, WrittenButOne

\* A table as its writer filled it is not alarmed.
LEMMA CleanPasses == ASSUME StatsInv, tables = 1, fault.kind = "none" PROVE TotalMismatches = 0
<1>1. \A t \in Slice : Five(t) = <<Count("FIVE_MINUTES", t, 1)>>
  BY RowIs DEF Five, WindowType
<1>2. ASSUME NEW w \in Derived, NEW s \in Slice PROVE Mismatches(w, s) = {}
  <2>1. Expected(w, s) = <<Count(w, s, 1)>>
    BY <1>1, CleanExpected DEF StatsInv
  <2>2. table[w][s] = <<Count(w, s, 1)>>
    BY RowIs DEF WindowType
  <2> QED
    BY <2>1, <2>2, OneRowMismatch
<1> QED
  BY <1>2, TotalIsZero DEF StatsInv

\* A derived row with another count differs from what is expected.
LEMMA WrongDerivedFails ==
    ASSUME StatsInv, tables = 1, fault.kind = "wrong", fault.type \in Derived
    PROVE  TotalMismatches # 0
<1> DEFINE w == fault.type
           s == fault.slice
<1>1. w \in Derived /\ w \in WindowType /\ s \in Slice /\ w # "FIVE_MINUTES"
  BY DEF StatsInv, StatsTypeOK, WindowType, Derived
<1>2. \A t \in Slice : Five(t) = <<Count("FIVE_MINUTES", t, 1)>>
  BY <1>1, RowIs DEF Five, WindowType
<1>3. Expected(w, s) = <<Count(w, s, 1)>>
  BY <1>1, <1>2, CleanExpected DEF StatsInv
<1>4. table[w][s] = Damaged("wrong", <<Count(w, s, 1)>>)
  BY <1>1, RowIs
<1>5. table[w][s] = <<Count(w, s, 1) + 1>>
  BY <1>4, CountIs, DamagedOne
<1>6. Count(w, s, 1) # Count(w, s, 1) + 1
  <2>1. Count(w, s, 1) \in Nat
    BY CountIs
  <2> QED
    BY <2>1
<1>7. Mismatches(w, s) # {}
  BY <1>1, <1>3, <1>5, <1>6, OneRowMismatch
<1> QED
  BY <1>1, <1>7, TotalIsZero DEF StatsInv

\* What the fifteen minutes up to s are expected to count when slice u among
\* them is damaged.
LEMMA DamagedExpected ==
    ASSUME StatsInv, tables = 1, fault.kind # "none", fault.type = "FIVE_MINUTES",
           NEW s \in Slice, fault.slice \in Covers("FIFTEEN_MINUTES", s)
    PROVE  LET u == fault.slice
               total == FiveTotal(Covers("FIFTEEN_MINUTES", s))
           IN  /\ total \in Nat
               /\ total + Count("FIVE_MINUTES", u, 1)
                      = Count("FIFTEEN_MINUTES", s, 1) + Sum(Five(u))
               /\ Five(u) = Damaged(fault.kind, <<Count("FIVE_MINUTES", u, 1)>>)
               /\ Five(s) # <<>> =>
                      Expected("FIFTEEN_MINUTES", s) = <<Len(Five(s)) * total>>
               /\ table["FIFTEEN_MINUTES"][s] = <<Count("FIFTEEN_MINUTES", s, 1)>>
<1> DEFINE u == fault.slice
           covered == Covers("FIFTEEN_MINUTES", s)
<1>1. covered = {t \in Slice : s - 3 < t /\ t <= s} /\ covered \in SUBSET Slice
      /\ u \in covered /\ u \in Slice
  BY DEF Covers
<1>2. \A t \in covered \ {u} : Five(t) = <<Count("FIVE_MINUTES", t, 1)>>
  BY <1>1, RowIs DEF Five, WindowType
<1>3. Five(u) = Damaged(fault.kind, <<Count("FIVE_MINUTES", u, 1)>>)
  BY <1>1, RowIs DEF Five, WindowType
<1>4. table["FIFTEEN_MINUTES"][s] = <<Count("FIFTEEN_MINUTES", s, 1)>>
  BY RowIs DEF WindowType, Derived
<1>5. FiveTotal(covered) \in Nat
  BY <1>1, TotalIsNumber DEF StatsInv
<1>6. FiveTotal(covered) + Count("FIVE_MINUTES", u, 1)
          = Count("FIFTEEN_MINUTES", s, 1) + Sum(Five(u))
  <2>1. Cardinality(In(covered)) = Count("FIFTEEN_MINUTES", s, 1)
    BY CountIs
  <2> HIDE DEF covered
  <2> QED
    BY <2>1, <1>1, <1>2, DamagedTotal DEF StatsInv
<1>7. Five(s) # <<>> =>
          Expected("FIFTEEN_MINUTES", s) = <<Len(Five(s)) * FiveTotal(covered)>>
  BY <1>1 DEF Expected, ExpectedFifteen
<1> QED
  BY <1>3, <1>4, <1>5, <1>6, <1>7

\* One count that is wrong makes the fifteen minutes differ that end with it.
LEMMA WrongFiveFails ==
    ASSUME StatsInv, tables = 1, fault.kind = "wrong", fault.type = "FIVE_MINUTES"
    PROVE  TotalMismatches # 0
<1> DEFINE u == fault.slice
           c == Count("FIVE_MINUTES", u, 1)
           total == FiveTotal(Covers("FIFTEEN_MINUTES", u))
           d == Count("FIFTEEN_MINUTES", u, 1)
<1>1. u \in Slice
  BY DEF StatsInv, StatsTypeOK
<1>2. u \in Covers("FIFTEEN_MINUTES", u)
  BY <1>1, SliceFacts DEF Covers
<1>3. c \in Nat /\ d \in Nat
  BY CountIs
<1>4. /\ total \in Nat
      /\ total + c = d + Sum(Five(u))
      /\ Five(u) = Damaged("wrong", <<c>>)
      /\ Five(u) # <<>> => Expected("FIFTEEN_MINUTES", u) = <<Len(Five(u)) * total>>
      /\ table["FIFTEEN_MINUTES"][u] = <<d>>
  BY <1>1, <1>2, DamagedExpected
<1>5. Five(u) = <<c + 1>> /\ c + 1 \in Nat
  BY <1>3, <1>4, DamagedOne
<1>6. Sum(Five(u)) = c + 1
  BY <1>5, SumOfRows
<1>7. Len(Five(u)) = 1 /\ Five(u) # <<>>
  BY <1>5
<1> HIDE DEF c, d, total, u
<1>8. Expected("FIFTEEN_MINUTES", u) = <<total>> /\ total # d
  <2>1. total # d
    BY <1>3, <1>4, <1>6
  <2>2. total \in Nat
    BY <1>4
  <2>3. Len(Five(u)) * total = total
    BY <1>7, <2>2
  <2> QED
    BY <1>4, <1>7, <2>1, <2>3
<1>9. Mismatches("FIFTEEN_MINUTES", u) # {}
  BY <1>1, <1>4, <1>8, OneRowMismatch DEF Derived
<1> QED
  BY <1>1, <1>9, TotalIsZero DEF StatsInv, Derived

\* A missing row with records is missed by the fifteen minutes after it.
LEMMA MissingFiveFails ==
    ASSUME StatsInv, tables = 1, fault.kind = "missing", fault.type = "FIVE_MINUTES",
           fault.slice # NumSlices, Count("FIVE_MINUTES", fault.slice, 1) # 0
    PROVE  TotalMismatches # 0
<1> DEFINE u == fault.slice
           s == u + 1
           c == Count("FIVE_MINUTES", u, 1)
           total == FiveTotal(Covers("FIFTEEN_MINUTES", s))
           d == Count("FIFTEEN_MINUTES", s, 1)
<1>1. u \in Slice /\ s \in Slice /\ u # s
  BY SliceFacts DEF StatsInv, StatsTypeOK
<1>2. u \in Covers("FIFTEEN_MINUTES", s)
  BY <1>1, SliceFacts DEF Covers
<1>3. c \in Nat /\ d \in Nat /\ c # 0
  BY CountIs
<1>4. /\ total \in Nat
      /\ total + c = d + Sum(Five(u))
      /\ Five(u) = Damaged("missing", <<c>>)
      /\ Five(s) # <<>> => Expected("FIFTEEN_MINUTES", s) = <<Len(Five(s)) * total>>
      /\ table["FIFTEEN_MINUTES"][s] = <<d>>
  BY <1>1, <1>2, DamagedExpected
<1>5. Sum(Five(u)) = 0
  BY <1>3, <1>4, SumOfRows, DamagedOne
<1>6. Five(s) = <<Count("FIVE_MINUTES", s, 1)>>
  BY <1>1, RowIs DEF Five, WindowType
<1>7. Len(Five(s)) = 1 /\ Five(s) # <<>>
  <2>1. \A x : Len(<<x>>) = 1 /\ <<x>> # <<>>
    OBVIOUS
  <2> QED
    BY <1>6, <2>1
<1> HIDE DEF c, d, total, s, u
<1>8. Expected("FIFTEEN_MINUTES", s) = <<total>> /\ total # d
  <2>1. Len(Five(s)) * total = total /\ total # d
    BY <1>3, <1>4, <1>5, <1>7
  <2> QED
    BY <1>4, <1>7, <2>1
<1>9. Mismatches("FIFTEEN_MINUTES", s) # {}
  BY <1>1, <1>4, <1>8, OneRowMismatch DEF Derived
<1> QED
  BY <1>1, <1>9, TotalIsZero DEF StatsInv, Derived

\* A doubled row joins twice, with all the rows of its fifteen minutes.
LEMMA DoubledFiveFails ==
    ASSUME StatsInv, tables = 1, fault.kind = "doubled", fault.type = "FIVE_MINUTES",
           Count("FIFTEEN_MINUTES", fault.slice, 1) # 0
    PROVE  TotalMismatches # 0
<1> DEFINE u == fault.slice
           c == Count("FIVE_MINUTES", u, 1)
           total == FiveTotal(Covers("FIFTEEN_MINUTES", u))
           d == Count("FIFTEEN_MINUTES", u, 1)
<1>1. u \in Slice
  BY DEF StatsInv, StatsTypeOK
<1>2. u \in Covers("FIFTEEN_MINUTES", u)
  BY <1>1, SliceFacts DEF Covers
<1>3. c \in Nat /\ d \in Nat /\ d # 0
  BY CountIs
<1>4. /\ total \in Nat
      /\ total + c = d + Sum(Five(u))
      /\ Five(u) = Damaged("doubled", <<c>>)
      /\ Five(u) # <<>> => Expected("FIFTEEN_MINUTES", u) = <<Len(Five(u)) * total>>
      /\ table["FIFTEEN_MINUTES"][u] = <<d>>
  BY <1>1, <1>2, DamagedExpected
<1>5. Five(u) = <<c, c>>
  BY <1>3, <1>4, DamagedOne
<1>6. Sum(Five(u)) = c + c
  BY <1>3, <1>5, SumOfRows
<1>7. Len(Five(u)) = 2 /\ Five(u) # <<>>
  BY <1>5
<1> HIDE DEF c, d, total, u
<1>8. Expected("FIFTEEN_MINUTES", u) = <<2 * total>> /\ 2 * total # d
  <2>1. Len(Five(u)) * total = 2 * total
    BY <1>7
  <2>2. total = d + c
    BY <1>3, <1>4, <1>6
  <2>3. 2 * total # d
    BY <1>3, <2>2
  <2> QED
    BY <1>4, <1>7, <2>1, <2>3
<1>9. Mismatches("FIFTEEN_MINUTES", u) # {}
  BY <1>1, <1>4, <1>8, OneRowMismatch DEF Derived
<1> QED
  BY <1>1, <1>9, TotalIsZero DEF StatsInv, Derived

\* With several tables the fifteen minutes up to the first slice that counts
\* anything are expected to count it more than once.
LEMMA SeveralTablesFail ==
    ASSUME StatsInv, tables > 1, fault.kind = "none",
           NEW r \in 1..NumRecords, records[r][bucketing] \in Slice
    PROVE  TotalMismatches # 0
<1> DEFINE counting == {t \in Slice : \E q \in 1..NumRecords :
                            records[q][bucketing] = t}
<1>1. PICK s \in counting : \A t \in counting : s <= t
  <2>1. counting \subseteq Nat /\ counting # {}
    BY SliceFacts
  <2> HIDE DEF counting
  <2> QED
    BY <2>1, LeastNumber
<1>2. PICK q \in 1..NumRecords : records[q][bucketing] = s
  BY <1>1
<1> DEFINE i == records[q].table
           covered == Covers("FIFTEEN_MINUTES", s)
           c == Count("FIVE_MINUTES", s, i)
           total == FiveTotal(covered)
<1>3. /\ s \in Slice /\ i \in 1..tables
      /\ covered = {t \in Slice : s - 3 < t /\ t <= s}
      /\ s \in covered /\ covered \in SUBSET Slice
  BY <1>1, SliceFacts DEF Covers, StatsInv, StatsTypeOK, Records
<1> HIDE DEF i, covered
<1>4. Count("FIFTEEN_MINUTES", s, i) = c
  <2>1. \A p \in 1..NumRecords :
            records[p][bucketing] \in covered <=> records[p][bucketing] = s
    BY <1>1, <1>3, SliceFacts
  <2>2. Covers("FIVE_MINUTES", s) = {s}
    BY DEF Covers
  <2>3. {p \in 1..NumRecords : records[p].table = i /\ records[p][bucketing] \in covered}
            = {p \in 1..NumRecords : records[p].table = i /\ records[p][bucketing] \in {s}}
    BY <2>1
  <2> QED
    BY <2>2, <2>3 DEF Count, covered
<1>5. c \in Nat /\ c # 0
  <2> DEFINE counted == {p \in 1..NumRecords :
                 records[p].table = i /\ records[p][bucketing] \in {s}}
  <2>1. q \in counted
    BY <1>2 DEF i
  <2>2. IsFiniteSet(counted)
    <3>1. IsFiniteSet(1..NumRecords)
      BY FS_Interval, StatsCheckAssumption
    <3>2. counted \in SUBSET (1..NumRecords)
      OBVIOUS
    <3> QED
      BY <3>1, <3>2, FS_Subset
  <2>3. c = Cardinality(counted)
    BY DEF Count, Covers
  <2> HIDE DEF counted
  <2> QED
    BY <2>1, <2>2, <2>3, FS_CardinalityType, FS_EmptySet
<1> HIDE DEF c
<1>6. /\ Five(s) \in Seq(Nat) /\ Len(Five(s)) = tables /\ Five(s)[i] = c
      /\ table["FIFTEEN_MINUTES"][s] \in Seq(Nat)
      /\ Len(table["FIFTEEN_MINUTES"][s]) = tables
      /\ table["FIFTEEN_MINUTES"][s][i] = c
  <2>1. tables \in 1..MaxTables
    BY DEF StatsInv, StatsTypeOK
  <2>2. \A w \in WindowType : table[w][s] = Written(w, s)
    BY <1>3 DEF StatsInv, WrittenButOne
  <2>3. /\ Five(s) = Written("FIVE_MINUTES", s)
        /\ table["FIFTEEN_MINUTES"][s] = Written("FIFTEEN_MINUTES", s)
    BY <2>2 DEF Five, WindowType, Derived
  <2> QED
    BY <2>1, <2>3, <1>3, <1>4, WrittenRows DEF c
<1>7. c <= Sum(Five(s)) /\ Sum(Five(s)) \in Nat
  <2>1. tables \in Int
    BY DEF StatsInv, StatsTypeOK
  <2>2. IsFiniteSet(1..tables)
    BY <2>1, FS_Interval
  <2>3. /\ DOMAIN Five(s) = 1..tables /\ IsFiniteSet(DOMAIN Five(s))
        /\ \A x \in DOMAIN Five(s) : Five(s)[x] \in Nat
    BY <1>6, <2>2
  <2> QED
    BY <2>3, <1>3, <1>6, SumBoundsEach, SumOfNumbers
<1>8. Sum(Five(s)) <= total /\ total \in Nat
  <2> DEFINE f == [t \in covered |-> Sum(Five(t))]
  <2>1. /\ IsFiniteSet(DOMAIN f) /\ \A t \in DOMAIN f : f[t] \in Nat
        /\ s \in DOMAIN f /\ f[s] = Sum(Five(s))
    BY <1>3, SliceFacts, RowFacts DEF StatsInv
  <2> HIDE DEF f
  <2>2. f[s] <= Sum(f) /\ Sum(f) \in Nat
    BY <2>1, SumBoundsEach, SumOfNumbers
  <2> QED
    BY <2>1, <2>2 DEF FiveTotal, f
<1>9. tables * total # c
  <2>1. tables \in Nat /\ tables >= 2
    BY DEF StatsInv, StatsTypeOK
  <2>2. c <= total
    BY <1>5, <1>7, <1>8
  <2>3. \A a, b \in Nat : a >= 2 => a * b >= 2 * b
    OBVIOUS
  <2>4. tables * total >= 2 * total /\ tables * total \in Nat
    BY <1>8, <2>1, <2>3
  <2> HIDE DEF total
  <2> QED
    BY <1>5, <1>8, <2>2, <2>4
<1>10. Expected("FIFTEEN_MINUTES", s) = <<tables * total>>
  <2>1. Five(s) # <<>>
    BY <1>3, <1>6 DEF StatsInv, StatsTypeOK
  <2> QED
    BY <1>3, <1>6, <2>1 DEF Expected, ExpectedFifteen
<1>11. <<1, i>> \in Mismatches("FIFTEEN_MINUTES", s)
  <2>1. /\ 1 \in DOMAIN <<tables * total>> /\ <<tables * total>>[1] = tables * total
        /\ i \in DOMAIN table["FIFTEEN_MINUTES"][s]
    BY <1>3, <1>6
  <2> QED
    BY <1>6, <1>9, <1>10, <2>1 DEF Mismatches
<1> QED
  BY <1>3, <1>11, TotalIsZero DEF StatsInv, Derived

LEMMA InvGivesVerdict == StatsInv => VerdictIsRight
<1> SUFFICES ASSUME StatsInv PROVE VerdictIsRight
  OBVIOUS
<1>1. tables = 1 /\ result = "FAIL" => fault.kind # "none"
  BY CleanPasses DEF StatsInv, VerdictOnTable
<1>2. result = "PASS" => TotalMismatches = 0
  BY DEF StatsInv, VerdictOnTable
<1>3. fault.kind = "none" \/ fault.kind \in Kinds
  BY DEF StatsInv, StatsTypeOK
<1>4. fault.kind # "none" => fault.type = "FIVE_MINUTES" \/ fault.type \in Derived
  BY DEF StatsInv, StatsTypeOK, WindowType
<1>5. ASSUME tables = 1, result = "PASS"
      PROVE  CASE fault.kind = "none" -> TRUE
               [] fault.kind = "wrong" -> FALSE
               [] fault.kind = "missing" ->
                     \/ fault.type \in Derived
                     \/ fault.slice = NumSlices
                     \/ Count("FIVE_MINUTES", fault.slice, 1) = 0
               [] fault.kind = "doubled" ->
                     \/ fault.type \in Derived
                     \/ Count("FIFTEEN_MINUTES", fault.slice, 1) = 0
  BY <1>2, <1>3, <1>4, <1>5, WrongDerivedFails, WrongFiveFails, MissingFiveFails,
     DoubledFiveFails DEF Kinds
<1>6. ASSUME tables > 1, fault.kind = "none", result = "PASS",
             NEW r \in 1..NumRecords
      PROVE  records[r][bucketing] \notin Slice
  BY <1>2, <1>6, SeveralTablesFail
<1> QED
  BY <1>1, <1>5, <1>6 DEF VerdictIsRight

-----------------------------------------------------------------------------
(* The invariant *)

LEMMA DamagedRows ==
    ASSUME NEW kind \in Kinds, NEW rows \in Seq(Nat), rows # <<>>
    PROVE  Damaged(kind, rows) \in Seq(Nat)
<1>1. Tail(rows) \in Seq(Nat) /\ rows[1] \in Nat
  OBVIOUS
<1>2. Append(rows, rows[1]) \in Seq(Nat)
  BY <1>1
<1>3. [rows EXCEPT ![1] = rows[1] + 1] \in Seq(Nat)
  BY <1>1
<1> QED
  BY <1>1, <1>2, <1>3 DEF Damaged, Kinds

LEMMA InitStats == StatsInit => StatsInv
<1> SUFFICES ASSUME StatsInit PROVE StatsInv
  OBVIOUS
<1>2. StatsTypeOK
  <2>1. \A w \in WindowType, s \in Slice : Written(w, s) \in Seq(Nat)
    BY WrittenRows DEF StatsInit
  <2> QED
    BY <2>1 DEF StatsInit, StatsTypeOK
<1>3. WrittenButOne /\ VerdictOnTable
  BY DEF StatsInit, WrittenButOne, VerdictOnTable
<1> QED
  BY <1>2, <1>3 DEF StatsInv

\* What is counted and compared depends on the records and the table only.
LEMMA WrittenStays ==
    ASSUME UNCHANGED <<tables, records, bucketing>>
    PROVE  \A w, s : Written(w, s)' = Written(w, s)
BY DEF Written, Count

LEMMA VerdictStays ==
    ASSUME UNCHANGED table
    PROVE  TotalMismatches' = TotalMismatches
<1>1. \A s : Five(s)' = Five(s)
  BY DEF Five
<1>2. \A slices : FiveTotal(slices)' = FiveTotal(slices)
  BY <1>1 DEF FiveTotal
<1>3. \A w, s : Expected(w, s)' = Expected(w, s)
  BY <1>1, <1>2 DEF Expected, ExpectedFifteen, ExpectedSixty
<1>4. \A w, s : Mismatches(w, s)' = Mismatches(w, s)
  BY <1>3 DEF Mismatches
<1> QED
  BY <1>4 DEF TotalMismatches

LEMMA StatsStep == StatsInv /\ [StatsNext]_statsVars => StatsInv'
<1> SUFFICES ASSUME StatsInv, [StatsNext]_statsVars PROVE StatsInv'
  OBVIOUS
<1>0. UNCHANGED <<tables, records, bucketing>>
  BY DEF StatsNext, Damage, Validate, Done, statsVars
<1>1. \A w, s : /\ Written(w, s)' = Written(w, s)
               /\ Written(w, s) \in Seq(Nat) /\ Written(w, s) # <<>>
  <2>1. tables \in 1..MaxTables
    BY DEF StatsInv, StatsTypeOK
  <2> QED
    BY <1>0, <2>1, WrittenStays, WrittenRows
<1>2. ASSUME NEW kind \in Kinds, NEW w \in WindowType, NEW s \in Slice,
             Damage(kind, w, s)
      PROVE  StatsInv'
  <2>1. /\ fault.kind = "none" /\ result = "none" /\ result' = result
        /\ fault' = [kind |-> kind, type |-> w, slice |-> s]
        /\ table' = [table EXCEPT ![w][s] = Damaged(kind, table[w][s])]
    BY <1>2 DEF Damage
  <2>2. \A v \in WindowType, t \in Slice : table[v][t] = Written(v, t)
    BY <2>1 DEF StatsInv, WrittenButOne
  <2>3. \A v \in WindowType, t \in Slice :
            table'[v][t] = IF v = w /\ t = s THEN Damaged(kind, Written(v, t))
                           ELSE Written(v, t)
    BY <2>1, <2>2 DEF StatsInv, StatsTypeOK
  <2>4. WrittenButOne'
    <3>1. /\ fault'.kind = kind /\ fault'.type = w /\ fault'.slice = s
          /\ kind # "none"
      BY <2>1 DEF Kinds
    <3> QED
      BY <1>1, <2>3, <3>1 DEF WrittenButOne
  <2>5. StatsTypeOK'
    <3>1. Damaged(kind, table[w][s]) \in Seq(Nat)
      BY <1>1, <2>2, DamagedRows
    <3>2. table' \in [WindowType -> [Slice -> Seq(Nat)]]
      BY <2>1, <3>1 DEF StatsInv, StatsTypeOK
    <3>3. fault' \in [kind : Kinds, type : WindowType, slice : Slice]
      BY <2>1
    <3> QED
      BY <1>0, <2>1, <3>2, <3>3 DEF StatsInv, StatsTypeOK, Records
  <2> QED
    BY <2>1, <2>4, <2>5 DEF StatsInv, VerdictOnTable
<1>3. ASSUME UNCHANGED <<table, fault>> PROVE WrittenButOne'
  BY <1>1, <1>3 DEF StatsInv, WrittenButOne
<1>4. CASE Validate
  <2>1. StatsTypeOK'
    BY <1>4 DEF Validate, StatsInv, StatsTypeOK, Records
  <2>2. TotalMismatches' = TotalMismatches
    BY <1>4, VerdictStays DEF Validate
  <2>3. VerdictOnTable'
    BY <1>4, <2>2 DEF Validate, VerdictOnTable
  <2> QED
    BY <1>3, <1>4, <2>1, <2>3 DEF Validate, StatsInv
<1>5. CASE UNCHANGED statsVars
  <2>1. StatsTypeOK'
    BY <1>5 DEF statsVars, StatsInv, StatsTypeOK, Records
  <2>2. VerdictOnTable'
    BY <1>5, VerdictStays DEF statsVars, StatsInv, VerdictOnTable
  <2> QED
    BY <1>3, <1>5, <2>1, <2>2 DEF statsVars, StatsInv
<1> QED
  BY <1>2, <1>4, <1>5 DEF StatsNext, Done

\* Every row of the table but one is as its writer wrote it, and the verdict
\* printed is that of the table as it is.
LEMMA OneRowAtMost == StatsSpec => []StatsInv
BY InitStats, StatsStep, PTL DEF StatsSpec

\* With one monitored table, cell B5 alarms no table that is as its writer
\* wrote it and reports a damaged row wherever the five-minute rows contradict
\* the other ones (but no derived row that is missing or there twice); with
\* several it alarms any table that counts something.  For a table of any
\* length and hours of any number of slices (diagnostic_notebook.py:190-306).
THEOREM VerdictHolds == StatsSpec => []VerdictIsRight
BY InvGivesVerdict, OneRowAtMost, PTL
=============================================================================
