--------------------------- MODULE WorkerManager ----------------------------
(***************************************************************************)
(* WorkerManager (web/worker_manager.py): the other way the web pages run  *)
(* a BMSClient, in a thread that is told to stop by an asyncio event.      *)
(*                                                                         *)
(* The lock is held for each look at the state only; _worker_loop,         *)
(* _stop_event and _client belong to whichever thread set them last.  The  *)
(* loop and the event, made and cleared together, are one variable.        *)
(***************************************************************************)
EXTENDS Naturals, FiniteSets

CONSTANTS WmThreads,   \* the worker threads there may ever be
          NoWorker

ASSUME WmAssumption == NoWorker \notin WmThreads

VARIABLES
    wmOrderly, \* whether the surroundings are orderly: a constant of a behaviour
    wmState,   \* _status.state
    wmThread,  \* _worker_thread, never cleared
    wmEvent,   \* _worker_loop and _stop_event: whose they are
    wmSet,     \* the threads whose event is set
    wmPc,      \* where each worker thread stands
    wmUser     \* where the one request at a time stands, and whether it reloads

wmVars == <<wmOrderly, wmState, wmThread, wmEvent, wmSet, wmPc, wmUser>>

WmTypeOK ==
    /\ wmOrderly \in BOOLEAN
    /\ wmState \in {"stopped", "starting", "running", "stopping", "error"}
    /\ wmThread \in WmThreads \cup {NoWorker}
    /\ wmEvent \in WmThreads \cup {NoWorker}
    /\ wmSet \subseteq WmThreads
    /\ wmPc \in [WmThreads -> {"unused", "spawned", "looped", "waiting", "stopping", "final", "over"}]
    /\ wmUser \in [at : {"idle", "spawn", "check", "signal", "join"}, again : BOOLEAN]

WmIdle == [at |-> "idle", again |-> FALSE]

WmInit ==
    /\ wmOrderly \in BOOLEAN
    /\ wmState = "stopped"
    /\ wmThread = NoWorker
    /\ wmEvent = NoWorker
    /\ wmSet = {}
    /\ wmPc = [t \in WmThreads |-> "unused"]
    /\ wmUser = WmIdle

-----------------------------------------------------------------------------
(* start(), stop() and reload().                                           *)

WmLive == {t \in WmThreads : wmPc[t] \notin {"unused", "over"}}

\* Orderly: a start waits until the thread before is over, a stop until the worker runs,
\* and a join outlasts the end of the client.
WmStart ==
    /\ wmUser = WmIdle
    /\ wmOrderly => WmLive = {}
    /\ wmState \notin {"running", "starting"}
    /\ wmState' = "starting"
    /\ wmUser' = [wmUser EXCEPT !.at = "spawn"]
    /\ UNCHANGED <<wmOrderly, wmThread, wmEvent, wmSet, wmPc>>

WmSpawn ==
    /\ wmUser.at = "spawn"
    /\ \E t \in WmThreads :
         /\ wmPc[t] = "unused"
         /\ wmPc' = [wmPc EXCEPT ![t] = "spawned"]
         /\ wmThread' = t
    /\ wmUser' = WmIdle
    /\ UNCHANGED <<wmOrderly, wmState, wmEvent, wmSet>>

\* stop(), and reload() of a worker that runs.
WmStop ==
    /\ wmUser = WmIdle
    /\ wmState \in (IF wmOrderly THEN {"running"} ELSE {"running", "starting"})
    /\ wmState' = "stopping"
    /\ \E again \in BOOLEAN :
         /\ again => wmState = "running"
         /\ wmUser' = [at |-> "check", again |-> again]
    /\ UNCHANGED <<wmOrderly, wmThread, wmEvent, wmSet, wmPc>>

\* Is there a loop and an event?  Without the lock, which the worker does not take either.
WmCheck ==
    /\ wmUser.at = "check"
    /\ wmUser' = [wmUser EXCEPT !.at = IF wmEvent = NoWorker THEN "join" ELSE "signal"]
    /\ UNCHANGED <<wmOrderly, wmState, wmThread, wmEvent, wmSet, wmPc>>

\* The event is set, unless the worker has closed its loop since, or cleared it: then stop()
\* raises, with it the request is over, and the state stays as it is.
WmSignal ==
    /\ wmUser.at = "signal"
    /\ \/ /\ wmEvent # NoWorker
          /\ wmSet' = wmSet \cup {wmEvent}
          /\ wmUser' = [wmUser EXCEPT !.at = "join"]
       \/ /\ wmEvent # NoWorker => wmPc[wmEvent] = "final"
          /\ wmUser' = WmIdle
          /\ UNCHANGED wmSet
    /\ UNCHANGED <<wmOrderly, wmState, wmThread, wmEvent, wmPc>>

\* Mutant: the thread is not joined.
WmNotJoined ==
    /\ wmUser.at = "join"
    /\ IF wmUser.again
       THEN wmState' = "starting" /\ wmUser' = [WmIdle EXCEPT !.at = "spawn"]
       ELSE wmState' = "stopped" /\ wmUser' = WmIdle
    /\ UNCHANGED <<wmOrderly, wmThread, wmEvent, wmSet, wmPc>>

\* STOPPED, whether the thread is over or the ten seconds are.  reload() then starts again.
WmJoined ==
    /\ wmUser.at = "join"
    /\ wmOrderly => wmPc[wmThread] = "over"
    /\ IF wmUser.again
       THEN wmState' = "starting" /\ wmUser' = [WmIdle EXCEPT !.at = "spawn"]
       ELSE wmState' = "stopped" /\ wmUser' = WmIdle
    /\ UNCHANGED <<wmOrderly, wmThread, wmEvent, wmSet, wmPc>>

-----------------------------------------------------------------------------
(* _run_worker() and _async_worker() in a worker thread.                   *)

WmGoes(t, where) == wmPc' = [wmPc EXCEPT ![t] = where]

WmMakeLoop(t) ==
    /\ wmPc[t] = "spawned"
    /\ WmGoes(t, "looped")
    /\ wmEvent' = t
    /\ UNCHANGED <<wmOrderly, wmState, wmThread, wmSet, wmUser>>

\* The state is RUNNING before the client has connected to anything; without a
\* configuration, or without the event that another thread has cleared, it is ERROR.
WmRun(t) ==
    /\ wmPc[t] = "looped"
    /\ \/ wmEvent # NoWorker /\ WmGoes(t, "waiting") /\ wmState' = "running"
       \/ WmGoes(t, "final") /\ wmState' = "error"
    /\ UNCHANGED <<wmOrderly, wmThread, wmEvent, wmSet, wmUser>>

\* asyncio.wait(): the event is set, or the client ends by itself, of which nobody is told.
WmWake(t) ==
    /\ wmPc[t] = "waiting"
    /\ WmGoes(t, "stopping")
    /\ UNCHANGED <<wmOrderly, wmState, wmThread, wmEvent, wmSet, wmUser>>

WmSignalled(t) == t \in wmSet /\ WmWake(t)

\* ERROR when the client could not be stopped.
WmClientStopped(t) ==
    /\ wmPc[t] = "stopping"
    /\ WmGoes(t, "final")
    /\ UNCHANGED wmState \/ wmState' = "error"
    /\ UNCHANGED <<wmOrderly, wmThread, wmEvent, wmSet, wmUser>>

\* The finally clause closes the loop and clears it and the event, whoever made them; the
\* running loop of another thread cannot be closed, and that raises.
WmEnd(t) ==
    /\ wmPc[t] = "final"
    /\ WmGoes(t, "over")
    /\ \/ /\ wmEvent \in WmThreads => wmPc[wmEvent] \notin {"waiting", "stopping"}
          /\ wmEvent' = NoWorker
       \/ /\ wmEvent \in WmThreads /\ wmPc[wmEvent] \in {"looped", "waiting", "stopping"}
          /\ UNCHANGED wmEvent
    /\ UNCHANGED <<wmOrderly, wmState, wmThread, wmSet, wmUser>>

WmGoesOn(t) ==
    WmMakeLoop(t) \/ WmRun(t) \/ WmSignalled(t) \/ WmClientStopped(t) \/ WmEnd(t)

WmNext ==
    \/ WmStart \/ WmSpawn \/ WmStop \/ WmCheck \/ WmSignal \/ WmJoined
    \/ \E t \in WmThreads : WmGoesOn(t) \/ WmWake(t)

WmFairness ==
    /\ WF_wmVars(WmCheck) /\ WF_wmVars(WmSignal)
    /\ WF_wmVars(WmJoined)
    /\ \A t \in WmThreads : WF_wmVars(WmGoesOn(t))

-----------------------------------------------------------------------------
(* Properties.                                                             *)

\* In orderly surroundings two workers never report for the same device, through reloads,
\* failed configurations and clients that end by themselves.
WmOneWorker == wmOrderly => Cardinality(WmLive) <= 1

\* stop() stops: in orderly surroundings the thread it stopped is over when it returns.
WmStopped == wmOrderly /\ wmState = "stopped" /\ wmUser = WmIdle => WmLive = {}

\* stop() comes to an end, though it may raise, and in orderly surroundings the worker is over
\* then or soon after, even when it has ended between the look at its state and the signal, or
\* ended long ago without anybody being told.
WmStopEnds ==
    wmUser.at \in {"check", "signal", "join"} ~>
        wmUser.at \in {"idle", "spawn"} /\ (wmOrderly => WmLive = {})

\* One worker at a time, and none after a stop.
WmSafe == WmOneWorker /\ WmStopped
=============================================================================
