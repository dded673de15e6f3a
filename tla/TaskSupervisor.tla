--------------------------- MODULE TaskSupervisor ---------------------------
(***************************************************************************)
(* TaskSupervisor (task_supervisor.py): background asyncio tasks that are  *)
(* restarted when they crash.                                              *)
(*                                                                         *)
(* All of it runs on one event loop, so a step goes from one await to the  *)
(* next.  The monitor awaits its interval and the back-off of the task it  *)
(* restarts; stop_all awaits the end of each task it cancels.  "run" is    *)
(* what became of a task's coroutine, "copies" how many of them live.      *)
(***************************************************************************)
EXTENDS Naturals, Sequences, FiniteSets

CONSTANTS Order,        \* the tasks, in the order of the dictionary
          MaxRestarts   \* max_restarts, the same for every task here

Tasks == {Order[i] : i \in DOMAIN Order}

ASSUME SupervisorAssumption ==
    /\ Order \in Seq(Tasks)
    /\ \A i, j \in DOMAIN Order : Order[i] = Order[j] => i = j
    /\ MaxRestarts \in Nat

VARIABLES
    supRunning,   \* _running
    managed,      \* the ManagedTask of each task; state "absent" when not registered
    monitor,      \* where the monitor task is: none, sleeping, or in a back-off
    backoffAt,    \* the position of the task whose back-off the monitor sleeps through
    stopper,      \* the position stop_all has come to, 0 when it does not run
    copies        \* history: the coroutines of each task that have not ended

supVars == <<supRunning, managed, monitor, backoffAt, stopper, copies>>

States == {"absent", "pending", "running", "restarting", "stopped", "failed"}
Runs == {"none", "alive", "crashed", "finished"}

SupTypeOK ==
    /\ supRunning \in BOOLEAN
    /\ managed \in [Tasks -> [state : States, run : Runs, restarts : 0..MaxRestarts]]
    /\ monitor \in {"none", "sleeping", "backoff"}
    /\ backoffAt \in 0..Len(Order)
    /\ stopper \in 0..Len(Order)
    /\ copies \in [Tasks -> Nat]

Absent == [state |-> "absent", run |-> "none", restarts |-> 0]

SupInit ==
    /\ supRunning = FALSE
    /\ managed = [t \in Tasks |-> Absent]
    /\ monitor = "none"
    /\ backoffAt = 0
    /\ stopper = 0
    /\ copies = [t \in Tasks |-> 0]

-----------------------------------------------------------------------------
(* Registration and start.                                                 *)

\* register(): a new ManagedTask replaces the one of the same name.
Registered(f, S) == [t \in Tasks |-> IF t \in S THEN [Absent EXCEPT !.state = "pending"] ELSE f[t]]

\* _launch()
Launched(m) == [m EXCEPT !.state = "running", !.run = "alive"]

\* register() of the tasks S, and start_all(), which launches all there are.
StartAll(S) ==
    /\ ~supRunning
    /\ stopper = 0
    /\ supRunning' = TRUE
    /\ LET known == Registered(managed, S)
           launched == {t \in Tasks : known[t].state # "absent"}
       IN  /\ managed' = [t \in Tasks |-> IF t \in launched THEN Launched(known[t]) ELSE known[t]]
           /\ copies' = [t \in Tasks |-> IF t \in launched THEN copies[t] + 1 ELSE copies[t]]
    /\ monitor' = "sleeping"
    /\ UNCHANGED <<backoffAt, stopper>>

-----------------------------------------------------------------------------
(* The tasks: _run_wrapper() records an exception and ends.                *)

TaskEnds(t, how) ==
    /\ managed[t].run = "alive"
    /\ managed' = [managed EXCEPT ![t].run = how]
    /\ copies' = [copies EXCEPT ![t] = @ - 1]
    /\ UNCHANGED <<supRunning, monitor, backoffAt, stopper>>

-----------------------------------------------------------------------------
(* The monitor.                                                            *)

\* Mutant: the number of restarts is not looked at.
RestartableForEver(m) == m.state # "stopped" /\ m.run = "crashed"

\* A task that crashed, may be restarted, and was not given up.
Restartable(m) == m.state # "stopped" /\ m.run = "crashed" /\ m.restarts < MaxRestarts

\* Mutant: a task that is not restarted any more is not marked.
ExaminedUnmarked(m) ==
    [m EXCEPT !.state = IF m.state # "stopped" /\ m.run = "finished" THEN "stopped" ELSE m.state]

\* What the loop makes of a task it does not restart.
Examined(m) ==
    [m EXCEPT !.state = CASE m.state # "stopped" /\ m.run = "finished" -> "stopped"
                          [] m.state # "stopped" /\ m.run = "crashed" -> "failed"
                          [] OTHER -> m.state]

\* The loop over the tasks f from position i on: up to the next back-off, or to the
\* next interval.
ExamineFrom(f, i) ==
    LET todo == {j \in DOMAIN Order : j >= i}
        found == {j \in todo : Restartable(f[Order[j]])}
        passed == IF found = {} THEN todo
                  ELSE {j \in todo : \A k \in found : j < k}
        examined == [t \in Tasks |-> IF \E j \in passed : Order[j] = t THEN Examined(f[t]) ELSE f[t]]
    IN  IF found = {}
        THEN managed' = examined /\ monitor' = "sleeping" /\ backoffAt' = 0
        ELSE \E k \in found :
             /\ \A j \in found : k <= j
             /\ managed' = [examined EXCEPT ![Order[k]].state = "restarting",
                                            ![Order[k]].restarts = @ + 1]
             /\ monitor' = "backoff"
             /\ backoffAt' = k

MonitorWakes ==
    /\ monitor = "sleeping"
    /\ supRunning
    /\ ExamineFrom(managed, 1)
    /\ UNCHANGED <<supRunning, stopper, copies>>

\* The back-off is over: the task is launched and the loop goes on.
BackoffOver ==
    /\ monitor = "backoff"
    /\ supRunning
    /\ LET t == Order[backoffAt]
       IN  /\ copies' = [copies EXCEPT ![t] = @ + 1]
           /\ ExamineFrom([managed EXCEPT ![t] = Launched(@)], backoffAt + 1)
    /\ UNCHANGED <<supRunning, stopper>>

-----------------------------------------------------------------------------
(* stop_all(): the monitor ends wherever it sleeps, then the tasks one by  *)
(* one.                                                                    *)

\* Mutant: the monitor is not cancelled.
StopAllButMonitor ==
    /\ stopper = 0
    /\ supRunning' = FALSE
    /\ stopper' = IF Order = <<>> THEN 0 ELSE 1
    /\ UNCHANGED <<monitor, backoffAt, managed, copies>>

StopAll ==
    /\ stopper = 0
    /\ supRunning' = FALSE
    /\ monitor' = "none"
    /\ backoffAt' = 0
    /\ stopper' = IF Order = <<>> THEN 0 ELSE 1
    /\ UNCHANGED <<managed, copies>>

StopNext ==
    /\ stopper # 0
    /\ LET t == Order[stopper] IN
       IF managed[t].state = "absent" THEN UNCHANGED <<managed, copies>>
       ELSE /\ managed' = [managed EXCEPT ![t].state = "stopped", ![t].run = "none"]
            /\ copies' = [copies EXCEPT ![t] = IF managed[t].run = "alive" THEN @ - 1 ELSE @]
    /\ stopper' = IF stopper = Len(Order) THEN 0 ELSE stopper + 1
    /\ UNCHANGED <<supRunning, monitor, backoffAt>>

-----------------------------------------------------------------------------

SupNext ==
    \/ \E S \in SUBSET Tasks : StartAll(S)
    \/ \E t \in Tasks, how \in {"crashed", "finished"} : TaskEnds(t, how)
    \/ MonitorWakes
    \/ BackoffOver
    \/ StopAll
    \/ StopNext

SupSpec == SupInit /\ [][SupNext]_supVars

\* The event loop runs the monitor's and the stop's next step; nobody has to start,
\* stop or crash anything.
SupFairness ==
    /\ WF_supVars(MonitorWakes)
    /\ WF_supVars(BackoffOver)
    /\ WF_supVars(StopNext)

SupFairSpec == SupSpec /\ SupFairness

-----------------------------------------------------------------------------
(* Properties.                                                             *)

\* When stop_all has returned nothing it supervised is alive and nothing will launch
\* a task again: the monitor may not survive the stop in a back-off.
StoppedIsQuiet ==
    ~supRunning /\ stopper = 0 => monitor = "none" /\ \A t \in Tasks : copies[t] = 0

\* A task never has two live coroutines, whatever start, crash, restart and stop come in
\* which order: two reporting loops would report everything twice.
OneCopy == \A t \in Tasks : copies[t] = (IF managed[t].run = "alive" THEN 1 ELSE 0)

\* A task that has ended normally, or that was given up, is launched again only by a start.
EndedStaysEnded ==
    [][\A t \in Tasks : managed[t].state \in {"stopped", "failed"} /\ supRunning
                        => managed'[t].run # "alive"]_supVars

\* A crash is seen: the task runs again, is given up, or everything is stopped, however
\* many other tasks crash and whatever back-off the monitor sleeps through.
CrashIsHandled ==
    \A t \in Tasks : managed[t].run = "crashed"
                     ~> (managed[t].run = "alive" \/ managed[t].state = "failed" \/ ~supRunning)

\* A stopped supervisor is quiet, and no task ever runs twice.
SupSafe == StoppedIsQuiet /\ OneCopy

\* Crashes are handled, and only a start brings back what has ended.
SupLive == CrashIsHandled /\ EndedStaysEnded
=============================================================================
