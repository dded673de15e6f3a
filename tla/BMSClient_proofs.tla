-------------------------- MODULE BMSClient_proofs --------------------------
(***************************************************************************)
(* The client and the supervisor of its loops: a client that has stopped   *)
(* left nothing open and nothing alive, and no task runs twice, for any    *)
(* number of tasks, restarts, failures and attempts.                       *)
(***************************************************************************)
EXTENDS BMSClient, Integers, TLAPS

-----------------------------------------------------------------------------
(***************************************************************************)
(* The supervisor.                                                         *)
(***************************************************************************)
ManagedTasks == [Tasks -> [state : States, run : Runs, restarts : 0..MaxRestarts]]

\* What SupSafe rests on: the monitor lives while the supervisor runs and sleeps through the
\* back-off of a task that does not run, a stop has ended the tasks it has passed, and a task
\* that is not registered has no coroutine.
Places == managed \in ManagedTasks /\ copies \in [Tasks -> Int] /\ stopper \in 0..Len(Order)
Unregistered == \A t \in Tasks : managed[t].state = "absent" => managed[t].run = "none"
Phases == (supRunning => stopper = 0) /\ (~supRunning => monitor = "none")
StoppedSoFar == \A j \in DOMAIN Order :
    ~supRunning /\ (stopper = 0 \/ j < stopper) => managed[Order[j]].run # "alive"
InBackoff ==
    monitor = "backoff" => backoffAt \in DOMAIN Order /\ managed[Order[backoffAt]].run = "crashed"

SupInv == Places /\ OneCopy /\ Unregistered /\ Phases /\ StoppedSoFar /\ InBackoff

\* Each task has its place in the order.
LEMMA OrderOfTasks ==
    /\ Order \in Seq(Tasks)
    /\ DOMAIN Order = 1..Len(Order) /\ Len(Order) \in Nat
    /\ \A j \in DOMAIN Order : Order[j] \in Tasks
    /\ \A t \in Tasks : \E j \in DOMAIN Order : Order[j] = t
BY SupervisorAssumption DEF Tasks

\* A coroutine that is launched, or looked at, has the type of a managed task.
LEMMA RecordsOfTasks ==
    ASSUME NEW m \in [state : States, run : Runs, restarts : 0..MaxRestarts]
    PROVE  /\ Launched(m) \in [state : States, run : Runs, restarts : 0..MaxRestarts]
           /\ Launched(m).run = "alive" /\ Launched(m).state = "running"
           /\ Examined(m) \in [state : States, run : Runs, restarts : 0..MaxRestarts]
           /\ Examined(m).run = m.run /\ Examined(m).restarts = m.restarts
           /\ Examined(m).state = "absent" => m.state = "absent"
           /\ Absent \in [state : States, run : Runs, restarts : 0..MaxRestarts]
           /\ [Absent EXCEPT !.state = "pending"] =
                  [state |-> "pending", run |-> "none", restarts |-> 0]
<1>1. /\ Launched(m) \in [state : States, run : Runs, restarts : 0..MaxRestarts]
      /\ Launched(m).run = "alive" /\ Launched(m).state = "running"
  BY DEF Launched, States, Runs
<1>2. \E s \in States : /\ Examined(m) = [state |-> s, run |-> m.run, restarts |-> m.restarts]
                        /\ s = "absent" => m.state = "absent"
  BY DEF Examined, States
<1>3. /\ Absent = [state |-> "absent", run |-> "none", restarts |-> 0]
      /\ [Absent EXCEPT !.state = "pending"] =
             [state |-> "pending", run |-> "none", restarts |-> 0]
  BY DEF Absent
<1>4. "none" \in Runs /\ "absent" \in States /\ 0 \in 0..MaxRestarts
  BY SupervisorAssumption DEF States, Runs
<1>5. m.run \in Runs /\ m.restarts \in 0..MaxRestarts
  OBVIOUS
<1>6. QED
  BY <1>1, <1>2, <1>3, <1>4, <1>5

\* The loop over the tasks launches none and ends none; it stops at a crashed one.
LEMMA ExaminationKeepsRuns ==
    ASSUME NEW f \in ManagedTasks, NEW i \in Int, ExamineFrom(f, i)
    PROVE  /\ managed' \in ManagedTasks
           /\ \A t \in Tasks : /\ managed'[t].run = f[t].run
                               /\ managed'[t].state = "absent" => f[t].state = "absent"
           /\ monitor' \in {"sleeping", "backoff"}
           /\ monitor' = "backoff" =>
                  backoffAt' \in DOMAIN Order /\ f[Order[backoffAt']].run = "crashed"
<1> DEFINE todo == {j \in DOMAIN Order : j >= i}
           found == {j \in todo : Restartable(f[Order[j]])}
           passed == IF found = {} THEN todo
                     ELSE {j \in todo : \A k \in found : j < k}
           examined == [t \in Tasks |-> IF \E j \in passed : Order[j] = t THEN Examined(f[t]) ELSE f[t]]
<1>1. /\ examined \in ManagedTasks
      /\ \A t \in Tasks : /\ examined[t].run = f[t].run /\ examined[t].restarts = f[t].restarts
                          /\ examined[t].state = "absent" => f[t].state = "absent"
  BY RecordsOfTasks DEF ManagedTasks
<1>2. CASE found = {}
  <2>1. managed' = examined /\ monitor' = "sleeping"
    BY <1>2 DEF ExamineFrom
  <2>2. QED
    BY <1>1, <2>1
<1>3. CASE found # {}
  <2>1. PICK k \in found : /\ managed' = [examined EXCEPT ![Order[k]].state = "restarting",
                                                          ![Order[k]].restarts = @ + 1]
                           /\ monitor' = "backoff" /\ backoffAt' = k
    BY <1>3 DEF ExamineFrom
  <2>2. /\ Order[k] \in Tasks /\ k \in DOMAIN Order
        /\ f[Order[k]].run = "crashed" /\ f[Order[k]].restarts < MaxRestarts
    BY OrderOfTasks DEF Restartable
  <2> HIDE DEF examined
  <2>3. \A t \in Tasks : examined[t] \in [state : States, run : Runs, restarts : 0..MaxRestarts]
    BY <1>1 DEF ManagedTasks
  <2>4. \A t \in Tasks :
            managed'[t] = IF t = Order[k]
                          THEN [state |-> "restarting", run |-> examined[t].run,
                                restarts |-> examined[t].restarts + 1]
                          ELSE examined[t]
    BY <1>1, <2>1, <2>2, <2>3 DEF ManagedTasks
  <2>5. managed' \in ManagedTasks
    <3>1. managed' = [t \in Tasks |-> managed'[t]]
      BY <1>1, <2>1 DEF ManagedTasks
    <3>2. ASSUME NEW t \in Tasks PROVE managed'[t] \in [state : States, run : Runs, restarts : 0..MaxRestarts]
      <4>1. CASE t = Order[k]
        <5>1. examined[t].run \in Runs /\ examined[t].restarts + 1 \in 0..MaxRestarts
          BY <1>1, <2>2, <2>3, <4>1, SupervisorAssumption
        <5>2. "restarting" \in States
          BY DEF States
        <5>3. managed'[t] = [state |-> "restarting", run |-> examined[t].run,
                             restarts |-> examined[t].restarts + 1]
          BY <2>4, <4>1
        <5>4. QED
          BY <5>1, <5>2, <5>3
      <4>2. CASE t # Order[k]
        BY <2>3, <2>4, <4>2
      <4>3. QED
        BY <4>1, <4>2
    <3>3. QED
      BY <3>1, <3>2 DEF ManagedTasks
  <2>6. \A t \in Tasks : /\ managed'[t].run = f[t].run
                         /\ managed'[t].state = "absent" => f[t].state = "absent"
    <3> SUFFICES ASSUME NEW t \in Tasks
                 PROVE  /\ managed'[t].run = f[t].run
                        /\ managed'[t].state = "absent" => f[t].state = "absent"
      OBVIOUS
    <3>1. CASE t = Order[k]
      <4>1. managed'[t] = [state |-> "restarting", run |-> examined[t].run,
                           restarts |-> examined[t].restarts + 1]
        BY <2>4, <3>1
      <4>2. managed'[t].run = examined[t].run /\ managed'[t].state = "restarting"
        BY <4>1
      <4>3. QED
        BY <1>1, <4>2
    <3>2. CASE t # Order[k]
      BY <1>1, <2>4, <3>2
    <3>3. QED
      BY <3>1, <3>2
  <2>7. backoffAt' \in DOMAIN Order /\ f[Order[backoffAt']].run = "crashed"
    BY <2>1, <2>2
  <2>8. monitor' \in {"sleeping", "backoff"}
    BY <2>1
  <2>9. QED
    BY <2>5, <2>6, <2>7, <2>8
<1>4. QED
  BY <1>2, <1>3

-----------------------------------------------------------------------------

\* Nothing is registered at first.
LEMMA SupInitially == SupInit => SupInv
<1> SUFFICES ASSUME SupInit PROVE SupInv
  OBVIOUS
<1>1. managed \in ManagedTasks /\ \A t \in Tasks : managed[t].run = "none"
  <2>1. Absent \in [state : States, run : Runs, restarts : 0..MaxRestarts] /\ Absent.run = "none"
    BY SupervisorAssumption DEF Absent, States, Runs
  <2>2. QED
    BY <2>1 DEF SupInit, ManagedTasks
<1>2. copies \in [Tasks -> Int] /\ \A t \in Tasks : copies[t] = 0
  BY DEF SupInit
<1>3. QED
  BY <1>1, <1>2, OrderOfTasks
     DEF SupInit, SupInv, Places, OneCopy, Unregistered, Phases, StoppedSoFar, InBackoff

\* A step of a task, of the monitor, of a start or of a stop keeps what SupSafe rests on.
LEMMA SupPreserved == SupInv /\ [SupNext]_supVars => SupInv'
<1> SUFFICES ASSUME SupInv, [SupNext]_supVars PROVE SupInv'
  OBVIOUS
<1> USE DEF SupInv, Places
<1>1. ASSUME NEW S \in SUBSET Tasks, StartAll(S) PROVE SupInv'
  <2> DEFINE known == Registered(managed, S)
             launched == {t \in Tasks : known[t].state # "absent"}
  <2>1. \A t \in Tasks : managed[t].run # "alive" /\ copies[t] = 0
    BY <1>1, OrderOfTasks DEF StartAll, StoppedSoFar, OneCopy
  <2>2. /\ known \in ManagedTasks
        /\ \A t \in Tasks : /\ known[t].run # "alive"
                            /\ known[t].state = "absent" => known[t].run = "none"
    <3>1. /\ [Absent EXCEPT !.state = "pending"] \in [state : States, run : Runs, restarts : 0..MaxRestarts]
          /\ [Absent EXCEPT !.state = "pending"].run = "none"
      BY SupervisorAssumption DEF Absent, States, Runs
    <3>2. \A t \in Tasks : known[t] = IF t \in S THEN [Absent EXCEPT !.state = "pending"]
                                      ELSE managed[t]
      BY DEF Registered
    <3> HIDE DEF known
    <3>3. \A t \in Tasks : known[t] \in [state : States, run : Runs, restarts : 0..MaxRestarts]
      BY <3>1, <3>2 DEF ManagedTasks
    <3>4. \A t \in Tasks : /\ known[t].run # "alive"
                           /\ known[t].state = "absent" => known[t].run = "none"
      BY <2>1, <3>1, <3>2 DEF Unregistered
    <3>5. known = [t \in Tasks |-> known[t]]
      BY DEF known, Registered
    <3>6. QED
      BY <3>3, <3>4, <3>5 DEF ManagedTasks
  <2> HIDE DEF known
  <2>3. /\ managed' = [t \in Tasks |-> IF t \in launched THEN Launched(known[t]) ELSE known[t]]
        /\ copies' = [t \in Tasks |-> IF t \in launched THEN copies[t] + 1 ELSE copies[t]]
        /\ supRunning' /\ stopper' = 0 /\ monitor' = "sleeping"
    BY <1>1 DEF StartAll, known
  <2>4. managed' \in ManagedTasks
    BY <2>2, <2>3, RecordsOfTasks DEF ManagedTasks
  <2>5. \A t \in Tasks : /\ copies'[t] = IF managed'[t].run = "alive" THEN 1 ELSE 0
                         /\ managed'[t].state = "absent" => managed'[t].run = "none"
    BY <2>1, <2>2, <2>3, RecordsOfTasks DEF ManagedTasks
  <2>6. copies' \in [Tasks -> Int]
    BY <2>3
  <2>7. QED
    BY <2>3, <2>4, <2>5, <2>6, OrderOfTasks
       DEF OneCopy, Unregistered, Phases, StoppedSoFar, InBackoff
<1>2. ASSUME NEW t \in Tasks, NEW how \in {"crashed", "finished"}, TaskEnds(t, how) PROVE SupInv'
  <2>1. /\ managed' \in ManagedTasks
        /\ \A u \in Tasks : /\ managed'[u].run = IF u = t THEN how ELSE managed[u].run
                            /\ managed'[u].state = managed[u].state
    BY <1>2 DEF TaskEnds, ManagedTasks, Runs
  <2>2. /\ copies' \in [Tasks -> Int]
        /\ \A u \in Tasks : copies'[u] = IF u = t THEN copies[u] - 1 ELSE copies[u]
    BY <1>2 DEF TaskEnds
  <2>3. Phases' /\ StoppedSoFar' /\ InBackoff'
    BY <1>2, <2>1, OrderOfTasks DEF TaskEnds, Phases, StoppedSoFar, InBackoff
  <2>4. OneCopy' /\ Unregistered'
    BY <1>2, <2>1, <2>2 DEF TaskEnds, OneCopy, Unregistered
  <2>5. QED
    BY <1>2, <2>1, <2>2, <2>3, <2>4 DEF TaskEnds
<1>3. CASE MonitorWakes
  <2>1. ExamineFrom(managed, 1) /\ managed \in ManagedTasks
    BY <1>3 DEF MonitorWakes
  <2>2. /\ managed' \in ManagedTasks
        /\ \A t \in Tasks : /\ managed'[t].run = managed[t].run
                            /\ managed'[t].state = "absent" => managed[t].state = "absent"
        /\ monitor' = "backoff" =>
               backoffAt' \in DOMAIN Order /\ managed[Order[backoffAt']].run = "crashed"
    BY <2>1, ExaminationKeepsRuns
  <2>3. supRunning' /\ stopper' = 0 /\ copies' = copies
    BY <1>3 DEF MonitorWakes, Phases
  <2>4. Phases' /\ StoppedSoFar'
    BY <2>3 DEF Phases, StoppedSoFar
  <2>5. OneCopy' /\ Unregistered'
    BY <2>2, <2>3 DEF OneCopy, Unregistered
  <2>6. InBackoff'
    BY <2>2, OrderOfTasks DEF InBackoff
  <2>7. QED
    BY <2>2, <2>3, <2>4, <2>5, <2>6
<1>4. CASE BackoffOver
  <2> DEFINE t == Order[backoffAt]
             f == [managed EXCEPT ![t] = Launched(@)]
  <2>1. t \in Tasks /\ managed[t].run = "crashed" /\ backoffAt \in Int
    BY <1>4, OrderOfTasks DEF BackoffOver, InBackoff
  <2>2. /\ f \in ManagedTasks
        /\ \A u \in Tasks : /\ f[u].run = IF u = t THEN "alive" ELSE managed[u].run
                            /\ f[u].state = "absent" => u # t /\ managed[u].state = "absent"
    BY <2>1, RecordsOfTasks DEF ManagedTasks
  <2>3. /\ copies' \in [Tasks -> Int]
        /\ \A u \in Tasks : copies'[u] = IF u = t THEN copies[u] + 1 ELSE copies[u]
    BY <1>4, <2>1 DEF BackoffOver
  <2>4. ExamineFrom(f, backoffAt + 1) /\ backoffAt + 1 \in Int
    BY <1>4, <2>1 DEF BackoffOver
  <2> HIDE DEF f
  <2>5. /\ managed' \in ManagedTasks
        /\ \A u \in Tasks : /\ managed'[u].run = f[u].run
                            /\ managed'[u].state = "absent" => f[u].state = "absent"
        /\ monitor' = "backoff" =>
               backoffAt' \in DOMAIN Order /\ f[Order[backoffAt']].run = "crashed"
    BY <2>2, <2>4, ExaminationKeepsRuns
  <2>6. supRunning' /\ stopper' = 0
    BY <1>4 DEF BackoffOver, Phases
  <2>7. Phases' /\ StoppedSoFar'
    BY <2>6 DEF Phases, StoppedSoFar
  <2>8. OneCopy' /\ Unregistered'
    BY <2>1, <2>2, <2>3, <2>5 DEF OneCopy, Unregistered
  <2>9. InBackoff'
    BY <2>5, OrderOfTasks DEF InBackoff
  <2>10. QED
    BY <2>3, <2>5, <2>6, <2>7, <2>8, <2>9
<1>5. CASE StopAll
  BY <1>5, OrderOfTasks DEF StopAll, OneCopy, Unregistered, Phases, StoppedSoFar, InBackoff
<1>6. CASE StopNext
  <2> DEFINE t == Order[stopper]
  <2>1. t \in Tasks /\ stopper \in DOMAIN Order /\ ~supRunning /\ monitor = "none"
    BY <1>6, OrderOfTasks DEF StopNext, Phases
  <2>2. /\ managed' \in ManagedTasks
        /\ \A u \in Tasks : u # t => managed'[u] = managed[u]
        /\ managed'[t].run # "alive"
        /\ managed'[t].state = "absent" => managed'[t].run = "none"
    <3>1. CASE managed[t].state = "absent"
      BY <1>6, <2>1, <3>1 DEF StopNext, Unregistered
    <3>2. CASE managed[t].state # "absent"
      <4>1. managed' = [managed EXCEPT ![t].state = "stopped", ![t].run = "none"]
        BY <1>6, <3>2 DEF StopNext
      <4>2. "stopped" \in States /\ "none" \in Runs
        BY DEF States, Runs
      <4>3. QED
        BY <2>1, <4>1, <4>2 DEF ManagedTasks
    <3>3. QED
      BY <3>1, <3>2
  <2>3. /\ copies' \in [Tasks -> Int]
        /\ \A u \in Tasks : u # t => copies'[u] = copies[u]
        /\ copies'[t] = 0
    <3>1. CASE managed[t].state = "absent"
      BY <1>6, <2>1, <3>1 DEF StopNext, Unregistered, OneCopy
    <3>2. CASE managed[t].state # "absent"
      BY <1>6, <2>1, <3>2 DEF StopNext, OneCopy
    <3>3. QED
      BY <3>1, <3>2
  <2>4. /\ ~supRunning' /\ monitor' = "none"
        /\ stopper' = IF stopper = Len(Order) THEN 0 ELSE stopper + 1
    BY <1>6, <2>1 DEF StopNext
  <2>5. OneCopy' /\ Unregistered'
    BY <2>1, <2>2, <2>3 DEF OneCopy, Unregistered
  <2>6. StoppedSoFar'
    BY <2>1, <2>2, <2>4, OrderOfTasks DEF StoppedSoFar
  <2>7. Phases' /\ InBackoff' /\ stopper' \in 0..Len(Order)
    BY <2>1, <2>4, OrderOfTasks DEF Phases, InBackoff
  <2>8. QED
    BY <2>2, <2>3, <2>5, <2>6, <2>7
<1>7. CASE UNCHANGED supVars
  BY <1>7 DEF supVars, OneCopy, Unregistered, Phases, StoppedSoFar, InBackoff
<1>8. QED
  BY <1>1, <1>2, <1>3, <1>4, <1>5, <1>6, <1>7 DEF SupNext

\* What SupTypeOK asks for besides.
SupRest ==
    /\ supRunning \in BOOLEAN /\ monitor \in {"none", "sleeping", "backoff"}
    /\ backoffAt \in 0..Len(Order)

\* The monitor is at a task of the order.
LEMMA SupRestKept == SupInv /\ SupRest /\ [SupNext]_supVars => SupRest'
<1> SUFFICES ASSUME SupInv, SupRest, [SupNext]_supVars PROVE SupRest'
  OBVIOUS
<1> USE OrderOfTasks DEF SupRest
<1>1. ASSUME NEW S \in SUBSET Tasks, StartAll(S) PROVE SupRest'
  <2>1. supRunning' = TRUE /\ monitor' = "sleeping" /\ backoffAt' = backoffAt
    BY <1>1 DEF StartAll
  <2>2. QED
    BY <2>1
<1>2. ASSUME NEW t \in Tasks, NEW how \in {"crashed", "finished"}, TaskEnds(t, how) PROVE SupRest'
  BY <1>2 DEF TaskEnds
<1>3. ASSUME NEW f, NEW i, ExamineFrom(f, i), supRunning' = supRunning PROVE SupRest'
  <2>1. \/ monitor' = "sleeping" /\ backoffAt' = 0
        \/ monitor' = "backoff" /\ backoffAt' \in DOMAIN Order
    BY <1>3 DEF ExamineFrom
  <2>2. QED
    BY <1>3, <2>1
<1>4. CASE MonitorWakes
  BY <1>3, <1>4 DEF MonitorWakes
<1>5. CASE BackoffOver
  BY <1>3, <1>5 DEF BackoffOver
<1>6. CASE StopAll
  <2>1. supRunning' = FALSE /\ monitor' = "none" /\ backoffAt' = 0
    BY <1>6 DEF StopAll
  <2>2. supRunning' \in BOOLEAN
    BY <2>1, Zenon
  <2>3. QED
    BY <2>1, <2>2
<1>7. CASE StopNext
  BY <1>7 DEF StopNext
<1>8. CASE UNCHANGED supVars
  BY <1>8 DEF supVars
<1>9. QED
  BY <1>1, <1>2, <1>4, <1>5, <1>6, <1>7, <1>8 DEF SupNext

\* Both together are the types of the supervisor.
LEMMA SupTyped == SupInv /\ SupRest => SupTypeOK
<1> SUFFICES ASSUME SupInv, SupRest PROVE SupTypeOK
  OBVIOUS
<1>1. copies \in [Tasks -> Nat]
  BY DEF SupInv, Places, OneCopy
<1>2. QED
  BY <1>1 DEF SupInv, Places, SupRest, SupTypeOK, ManagedTasks

\* The monitor is at none at first.
LEMMA SupRestInitially == SupInit => SupRest
<1> SUFFICES ASSUME SupInit PROVE SupRest
  OBVIOUS
<1>1. supRunning = FALSE /\ monitor = "none" /\ backoffAt = 0 /\ Len(Order) \in Nat
  BY OrderOfTasks DEF SupInit
<1>2. supRunning \in BOOLEAN
  BY <1>1, Zenon
<1>3. QED
  BY <1>1, <1>2 DEF SupRest

\* What is kept is what the supervisor promises.
LEMMA SupIsSafe == SupInv => SupSafe
<1> SUFFICES ASSUME SupInv PROVE SupSafe
  OBVIOUS
<1>1. ASSUME ~supRunning, stopper = 0 PROVE monitor = "none" /\ \A t \in Tasks : copies[t] = 0
  BY <1>1, OrderOfTasks DEF SupInv, Phases, StoppedSoFar, OneCopy
<1>2. QED
  BY <1>1 DEF SupInv, SupSafe, StoppedIsQuiet

\* When stop_all() has returned nothing it supervised is alive and nothing launches a task
\* again; no task ever has two coroutines; and none is restarted more often than it may be; for
\* any number of tasks and of restarts.
THEOREM SupervisorIsSafe == SupSpec => [](SupTypeOK /\ SupSafe)
BY SupIsSafe, SupInitially, SupPreserved, SupRestInitially, SupRestKept, SupTyped, PTL DEF SupSpec

-----------------------------------------------------------------------------
(***************************************************************************)
(* The client.                                                             *)
(***************************************************************************)
BmsBehaviour == SupInit /\ BmsInit /\ [][BmsNext]_clientVars

\* The loops are launched when start() has opened everything they use, and are through when
\* stop() goes on after them.
LoopsWithin ==
    /\ phase \in {"new", "modbus", "sep", "register", "collector"} => ~supRunning /\ stopper = 0
    /\ phase \in Stopping \cup {"down"} => ~supRunning
    /\ phase \in (Stopping \ {"tasks"}) \cup {"down"} => stopper = 0

\* How far stop() has come.
ClosedSoFar ==
    /\ phase \in {"pcs", "subs", "collectorStop", "modbusStop", "sepStop", "down"} => "der" \notin opened
    /\ phase \in {"subs", "collectorStop", "modbusStop", "sepStop", "down"} => "pcs" \notin opened
    /\ phase \in {"collectorStop", "modbusStop", "sepStop", "down"} => "server" \notin opened
    /\ phase \in {"modbusStop", "sepStop", "down"} => "collector" \notin opened
    /\ phase \in {"sepStop", "down"} => "modbus" \notin opened
    /\ phase = "down" => http = NoClient

\* The client in use is open, or a loop that has closed it is about to open another, or the
\* certificates did not allow one.
ClientInUse ==
    /\ phase \in {"register", "collector"} => http \in httpOpen
    /\ phase \in {"control", "up"} =>
           \/ http \in httpOpen
           \/ http = NoClient /\ ~certified
           \/ \E t \in Tasks : Alive(t) /\ loop[t] = "closing"

BmsInv == BmsTypeOK /\ LoopsWithin /\ ClosedSoFar /\ ClientInUse

\* The supervisor is run by start(), stop() and the loops.
LEMMA BmsRunsSupervisor == [BmsNext]_clientVars => [SupNext]_supVars
<1> USE DEF supVars, SupNext
<1>1. ASSUME BmsNext PROVE [SupNext]_supVars
  <2>1. CASE LoopsStarted
    BY <2>1, BmsAssumption DEF LoopsStarted
  <2>2. ASSUME NEW t \in Tasks, LoopEnds(t) PROVE SupNext
    BY <2>2 DEF LoopEnds
  <2>3. ASSUME NEW t \in Tasks, LoopStep(t) PROVE UNCHANGED supVars
    BY <2>3 DEF LoopStep, Round, CloseHttp, OpenHttp, HttpOpened, BackedOff, Rested
  <2>4. CASE BeginStop \/ StopLoop \/ StopStep \/ MonitorWakes
    BY <2>4 DEF BeginStop, StopLoop, StopStep
  <2>5. CASE BeginStart \/ ModbusConnected \/ ServerConnected \/ DeviceRegistered
             \/ ServerStarted \/ ControlStarted \/ StartCancelled
    BY <2>5 DEF BeginStart, ModbusConnected, ServerConnected, DeviceRegistered,
                ServerStarted, ControlStarted, StartCancelled
  <2>6. QED
    BY <1>1, <2>1, <2>2, <2>3, <2>4, <2>5 DEF BmsNext
<1>2. QED
  BY <1>1 DEF clientVars

\* Nothing that was launched is alive when the supervisor has stopped.
LEMMA StoppedMeansEnded ==
    ASSUME SupInv, ~supRunning, stopper = 0
    PROVE  monitor = "none" /\ \A t \in Tasks : ~Alive(t)
BY OrderOfTasks DEF SupInv, Phases, StoppedSoFar, Alive

\* The client has opened nothing and started no loop at first.
LEMMA BmsInitially == SupInit /\ BmsInit => BmsInv
<1> SUFFICES ASSUME SupInit, BmsInit PROVE BmsInv
  OBVIOUS
<1>1. BmsTypeOK
  <2>1. /\ loop \in [Tasks -> {"idle", "reconnect", "closing", "opening", "backoff", "resting"}]
        /\ failures \in [Tasks -> 0..Threshold] /\ attempt \in [Tasks -> 0..MaxAttempts]
    BY BmsAssumption DEF BmsInit
  <2>2. QED
    BY <2>1 DEF BmsInit, BmsTypeOK
<1>2. LoopsWithin /\ ClosedSoFar /\ ClientInUse
  BY DEF SupInit, BmsInit, LoopsWithin, ClosedSoFar, ClientInUse, Stopping
<1>3. QED
  BY <1>1, <1>2 DEF BmsInv

\* A step of a loop moves that loop only.
LEMMA LoopStepsKeep ==
    ASSUME SupInv, BmsInv, NEW t \in Tasks, LoopStep(t) PROVE BmsInv'
<1>1. Alive(t) /\ UNCHANGED <<supVars, phase, running, subscribes, certified, opened>>
  BY DEF LoopStep, Round, CloseHttp, OpenHttp, HttpOpened, BackedOff, Rested
<1>2. /\ phase \notin {"new", "modbus", "sep", "register", "collector", "down"}
      /\ phase \notin Stopping \ {"tasks"}
  BY <1>1, StoppedMeansEnded DEF BmsInv, LoopsWithin
<1>3. \A u \in Tasks : Alive(u)' <=> Alive(u)
  BY <1>1 DEF supVars, Alive
<1>4. BmsTypeOK'
  <2> USE BmsAssumption DEF BmsInv, BmsTypeOK, Goes
  <2>1. UNCHANGED <<phase, running, subscribes, certified, opened>>
    BY <1>1
  <2>2. CASE Round(t)
    BY <2>1, <2>2 DEF Round
  <2>3. CASE CloseHttp(t)
    BY <2>1, <2>3 DEF CloseHttp
  <2>4. CASE OpenHttp(t)
    BY <2>1, <2>4 DEF OpenHttp
  <2>5. CASE HttpOpened(t)
    BY <2>1, <2>5 DEF HttpOpened
  <2>6. CASE BackedOff(t)
    BY <2>1, <2>6 DEF BackedOff
  <2>7. CASE Rested(t)
    BY <2>1, <2>7 DEF Rested
  <2>8. QED
    BY <2>2, <2>3, <2>4, <2>5, <2>6, <2>7 DEF LoopStep
<1>5. LoopsWithin' /\ ClosedSoFar'
  BY <1>1, <1>2 DEF BmsInv, LoopsWithin, ClosedSoFar, supVars, Stopping
<1>6. ClientInUse'
  <2> SUFFICES ASSUME phase \in {"control", "up"}
               PROVE  (\/ http \in httpOpen
                       \/ http = NoClient /\ ~certified
                       \/ \E u \in Tasks : Alive(u) /\ loop[u] = "closing")'
    BY <1>1, <1>2 DEF ClientInUse
  <2>1. \/ http \in httpOpen
        \/ http = NoClient /\ ~certified
        \/ \E u \in Tasks : Alive(u) /\ loop[u] = "closing"
    BY DEF BmsInv, ClientInUse
  <2>2. loop \in [Tasks -> {"idle", "reconnect", "closing", "opening", "backoff", "resting"}]
    BY DEF BmsInv, BmsTypeOK
  <2>3. CASE CloseHttp(t)
    BY <1>1, <1>3, <2>2, <2>3 DEF CloseHttp, Goes
  <2>4. CASE OpenHttp(t)
    BY <1>1, <2>4 DEF OpenHttp
  <2>5. CASE Round(t) \/ HttpOpened(t) \/ BackedOff(t) \/ Rested(t)
    <3>1. UNCHANGED <<http, httpOpen>>
      BY <2>5 DEF Round, HttpOpened, BackedOff, Rested
    <3>2. loop[t] # "closing" /\ \A u \in Tasks : u # t => loop'[u] = loop[u]
      BY <2>2, <2>5 DEF Round, HttpOpened, BackedOff, Rested, Goes
    <3>3. QED
      BY <1>1, <1>3, <2>1, <3>1, <3>2
  <2>6. QED
    BY <2>3, <2>4, <2>5 DEF LoopStep
<1>7. QED
  BY <1>4, <1>5, <1>6 DEF BmsInv

\* Every step of start(), of stop(), of the loops and of the monitor keeps the order in which
\* the client opens, runs and closes.
LEMMA BmsPreserved == SupInv /\ BmsInv /\ [BmsNext]_clientVars => BmsInv'
<1> SUFFICES ASSUME SupInv, BmsInv, [BmsNext]_clientVars PROVE BmsInv'
  OBVIOUS
<1> USE BmsAssumption
<1>1. ASSUME NEW t \in Tasks, LoopStep(t) PROVE BmsInv'
  BY <1>1, LoopStepsKeep
<1> USE DEF BmsInv, BmsTypeOK, LoopsWithin, ClosedSoFar, ClientInUse, Starting, Stopping,
            loopVars, bmsVars, supVars
<1>2. CASE BeginStart
  BY <1>2 DEF BeginStart
<1>3. CASE ModbusConnected
  BY <1>3 DEF ModbusConnected
<1>4. CASE ServerConnected
  BY <1>4 DEF ServerConnected
<1>5. CASE DeviceRegistered
  BY <1>5 DEF DeviceRegistered
<1>6. CASE LoopsStarted
  BY <1>6 DEF LoopsStarted
<1>7. CASE ServerStarted
  <2>1. PICK pcs \in PcsConnections : opened' = opened \cup pcs \cup {"server"}
    BY <1>7 DEF ServerStarted
  <2>2. pcs \subseteq {"pcs"}
    BY DEF PcsConnections
  <2>3. \A u \in Tasks : Alive(u)' <=> Alive(u)
    BY <1>7 DEF ServerStarted, Alive
  <2>4. QED
    BY <1>7, <2>1, <2>2, <2>3 DEF ServerStarted
<1>8. CASE ControlStarted
  <2>1. PICK pcs \in PcsConnections, der \in {{}, {"der"}} :
            opened' = opened \ {"server"} \/ opened' = opened \cup pcs \cup der
    BY <1>8 DEF ControlStarted, PcsConnections
  <2>2. pcs \subseteq {"pcs"}
    BY DEF PcsConnections
  <2>3. \A u \in Tasks : Alive(u)' <=> Alive(u)
    BY <1>8 DEF ControlStarted, Alive
  <2>4. QED
    BY <1>8, <2>1, <2>2, <2>3 DEF ControlStarted
<1>9. CASE StartCancelled
  BY <1>9 DEF StartCancelled
<1>10. CASE BeginStop
  BY <1>10 DEF BeginStop, StopAll
<1>11. CASE StopLoop
  BY <1>11 DEF StopLoop, StopNext
<1>12. CASE StopStep
  <2>1. \/ phase = "tasks" /\ phase' = "der" /\ opened' = opened
        \/ phase = "der" /\ phase' = "pcs" /\ opened' = opened \ {"der"}
        \/ phase = "pcs" /\ phase' = "subs" /\ opened' = opened \ {"pcs"}
        \/ phase = "subs" /\ phase' = "collectorStop" /\ opened' = opened \ {"server"}
        \/ phase = "collectorStop" /\ phase' = "modbusStop" /\ opened' = opened \ {"collector"}
        \/ phase = "modbusStop" /\ phase' = "sepStop" /\ opened' = opened \ {"modbus"}
        \/ phase = "sepStop" /\ phase' = "down" /\ opened' = opened
    BY <1>12 DEF StopStep, Follows, Closes
  <2>2. IF phase = "sepStop"
        THEN http' = NoClient /\ httpOpen' = httpOpen \ {http}
        ELSE UNCHANGED <<http, httpOpen>>
    BY <1>12 DEF StopStep
  <2>3. stopper = 0 /\ UNCHANGED <<supVars, running, subscribes, certified, loopVars>>
    BY <1>12 DEF StopStep
  <2>4. BmsTypeOK'
    BY <2>1, <2>2, <2>3
  <2>5. LoopsWithin' /\ ClientInUse'
    BY <2>1, <2>3
  <2>6. ClosedSoFar'
    BY <2>1, <2>2
  <2>7. QED
    BY <2>4, <2>5, <2>6
<1>13. ASSUME NEW t \in Tasks, LoopEnds(t) PROVE BmsInv'
  <2>1. /\ UNCHANGED bmsVars /\ UNCHANGED <<supRunning, stopper>> /\ loop[t] = "idle"
        /\ \A u \in Tasks : u # t => managed'[u] = managed[u]
    BY <1>13 DEF LoopEnds, TaskEnds, SupInv, Places, ManagedTasks
  <2>2. \A u \in Tasks : Alive(u) /\ loop[u] = "closing" => Alive(u)' /\ loop'[u] = "closing"
    BY <2>1 DEF Alive
  <2>3. QED
    BY <2>1, <2>2
<1>14. CASE MonitorWakes /\ UNCHANGED bmsVars
  <2>1. ExamineFrom(managed, 1) /\ managed \in ManagedTasks
    BY <1>14 DEF MonitorWakes, SupInv, Places
  <2>2. \A t \in Tasks : managed'[t].run = managed[t].run
    BY <2>1, ExaminationKeepsRuns
  <2>3. UNCHANGED <<supRunning, stopper>>
    BY <1>14 DEF MonitorWakes
  <2>4. \A u \in Tasks : Alive(u)' <=> Alive(u)
    BY <2>2 DEF Alive
  <2>5. QED
    BY <1>14, <2>3, <2>4
<1>15. CASE UNCHANGED clientVars
  <2>1. \A u \in Tasks : Alive(u)' <=> Alive(u)
    BY <1>15 DEF clientVars, Alive
  <2>2. QED
    BY <1>15, <2>1 DEF clientVars
<1>16. QED
  BY <1>1, <1>2, <1>3, <1>4, <1>5, <1>6, <1>7, <1>8, <1>9, <1>10, <1>11, <1>12, <1>13, <1>14, <1>15
  DEF BmsNext

\* What the client promises rests on both invariants.
LEMMA BmsIsSafe == SupInv /\ BmsInv => BmsSafe
<1> SUFFICES ASSUME SupInv, BmsInv PROVE BmsSafe
  OBVIOUS
<1>1. ASSUME phase = "down"
      PROVE  opened = {} /\ http = NoClient /\ monitor = "none" /\ \A t \in Tasks : ~Alive(t)
  <2>1. monitor = "none" /\ \A t \in Tasks : ~Alive(t)
    BY <1>1, StoppedMeansEnded DEF BmsInv, LoopsWithin
  <2>2. opened = {} /\ http = NoClient
    BY <1>1 DEF BmsInv, BmsTypeOK, ClosedSoFar
  <2>3. QED
    BY <2>1, <2>2
<1>2. HttpWorksBetweenReconnections
  BY DEF BmsInv, ClientInUse, HttpWorksBetweenReconnections
<1>3. QED
  BY <1>1, <1>2 DEF BmsSafe, StopClosesEverything

\* When stop() has returned everything is closed and nothing that it started is alive, and while
\* nobody reconnects the HTTP client in use is open; for any loops, thresholds and attempts.
THEOREM ClientIsSafe == BmsBehaviour => [](SupTypeOK /\ BmsTypeOK /\ BmsSafe)
<1>1. BmsInv => BmsTypeOK
  BY DEF BmsInv
<1>2. QED
  BY <1>1, BmsIsSafe, SupInitially, SupPreserved, SupRestInitially, SupRestKept, SupTyped,
     BmsInitially, BmsPreserved, BmsRunsSupervisor, PTL DEF BmsBehaviour
=============================================================================
