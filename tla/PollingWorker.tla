--------------------------- MODULE PollingWorker ----------------------------
(***************************************************************************)
(* PollingWorker (polling/worker.py): a thread that polls the configured   *)
(* targets and writes what it reads to Modbus registers.                   *)
(*                                                                         *)
(* start(), stop() and reload() look at the state and set it under the     *)
(* lock; the loop, the event, the clients and the target states belong to  *)
(* whichever thread set them last.  Loop and event are one variable.       *)
(***************************************************************************)
EXTENDS Naturals, Sequences, FiniteSets

CONSTANTS PwThreads,   \* the worker threads there may ever be
          PwTargets,   \* the targets, in the order of the configuration; one profile each
          NoPoller

PwTargetSet == {PwTargets[i] : i \in DOMAIN PwTargets}

ASSUME PwAssumption ==
    /\ NoPoller \notin PwThreads
    /\ PwTargets \in Seq(PwTargetSet)

VARIABLES
    pwOrderly,  \* whether the surroundings are orderly: a constant of a behaviour
    pwState,    \* _state
    pwThread,   \* _thread, never cleared
    pwEvent,    \* _loop and _stop_event: whose they are
    pwSet,      \* the threads whose event is set
    pwPc,       \* where each thread stands
    pwAt,       \* the target of the cycle it is at
    pwStale,    \* the threads that iterate over target states that were replaced
    pwClients,  \* _clients: the targets whose profile is connected
    pwEnabled,  \* the targets enabled
    pwDue,      \* the targets whose next poll time has come
    pwUser      \* where the one call at a time stands, and whether it reloads

pwPolls == <<pwAt, pwStale, pwClients, pwEnabled, pwDue>>
pwVars == <<pwOrderly, pwState, pwThread, pwEvent, pwSet, pwPc, pwUser, pwPolls>>

PwTypeOK ==
    /\ pwOrderly \in BOOLEAN
    /\ pwState \in {"stopped", "starting", "running", "stopping"}
    /\ pwThread \in PwThreads \cup {NoPoller}
    /\ pwEvent \in PwThreads \cup {NoPoller}
    /\ pwSet \subseteq PwThreads
    /\ pwPc \in [PwThreads -> {"unused", "spawned", "looped", "loop", "poll", "request",
                               "closing", "final", "over"}]
    /\ pwAt \in [PwThreads -> 1..Len(PwTargets) + 1]
    /\ pwStale \subseteq PwThreads
    /\ pwClients \subseteq PwTargetSet
    /\ pwEnabled \subseteq PwTargetSet
    /\ pwDue \subseteq PwTargetSet
    /\ pwUser \in [at : {"idle", "spawn", "check", "signal", "join"}, again : BOOLEAN]

PwIdle == [at |-> "idle", again |-> FALSE]

PwInit ==
    /\ pwOrderly \in BOOLEAN
    /\ pwState = "stopped"
    /\ pwThread = NoPoller
    /\ pwEvent = NoPoller
    /\ pwSet = {}
    /\ pwPc = [t \in PwThreads |-> "unused"]
    /\ pwAt = [t \in PwThreads |-> 1]
    /\ pwStale = {}
    /\ pwClients = {}
    /\ pwEnabled = PwTargetSet
    /\ pwDue = PwTargetSet
    /\ pwUser = PwIdle

\* A bound: targets change, or lack a connection, in orderly surroundings only.
PwTargetsChange == pwOrderly

-----------------------------------------------------------------------------
(* start(), stop(), reload() and set_target_enabled().                     *)

PwStart ==
    /\ pwUser = PwIdle
    /\ pwState \notin {"running", "starting"}
    /\ pwState' = "starting"
    /\ pwUser' = [PwIdle EXCEPT !.at = "spawn"]
    /\ UNCHANGED <<pwOrderly, pwThread, pwEvent, pwSet, pwPc, pwPolls>>

PwSpawn ==
    /\ pwUser.at = "spawn"
    /\ \E t \in PwThreads :
         /\ pwPc[t] = "unused"
         /\ pwPc' = [pwPc EXCEPT ![t] = "spawned"]
         /\ pwThread' = t
    /\ pwUser' = PwIdle
    /\ UNCHANGED <<pwOrderly, pwState, pwEvent, pwSet, pwPolls>>

\* Orderly: a stop waits until the worker runs, and a join outlasts its end.
PwStop ==
    /\ pwUser = PwIdle
    /\ pwState \in (IF pwOrderly THEN {"running"} ELSE {"running", "starting"})
    /\ pwState' = "stopping"
    /\ \E again \in BOOLEAN :
         /\ again => pwState = "running"
         /\ pwUser' = [at |-> "check", again |-> again]
    /\ UNCHANGED <<pwOrderly, pwThread, pwEvent, pwSet, pwPc, pwPolls>>

\* Is there a loop and an event?  Without the lock, which is not held to clear them either.
PwCheck ==
    /\ pwUser.at = "check"
    /\ pwUser' = [pwUser EXCEPT !.at = IF pwEvent = NoPoller THEN "join" ELSE "signal"]
    /\ UNCHANGED <<pwOrderly, pwState, pwThread, pwEvent, pwSet, pwPc, pwPolls>>

\* The event is set, unless the loop was closed or cleared since: then the call raises.
PwSignal ==
    /\ pwUser.at = "signal"
    /\ \/ /\ pwEvent # NoPoller
          /\ pwSet' = pwSet \cup {pwEvent}
          /\ pwUser' = [pwUser EXCEPT !.at = "join"]
       \/ /\ pwEvent # NoPoller => pwPc[pwEvent] = "final"
          /\ pwUser' = PwIdle
          /\ UNCHANGED pwSet
    /\ UNCHANGED <<pwOrderly, pwState, pwThread, pwEvent, pwPc, pwPolls>>

\* _init_target_states(): a thread that is in a cycle goes on with the old ones.
NewTargets ==
    /\ pwDue' = PwTargetSet
    /\ pwEnabled' = PwTargetSet
    /\ pwStale' = pwStale \cup {t \in PwThreads : pwPc[t] \in {"poll", "request"}}
    /\ UNCHANGED <<pwAt, pwClients>>

\* The thread is over, or the ten seconds are; a reload takes the new targets and starts.
PwJoined ==
    /\ pwUser.at = "join"
    /\ pwOrderly => pwPc[pwThread] = "over"
    /\ IF pwUser.again
       THEN pwState' = "starting" /\ pwUser' = [PwIdle EXCEPT !.at = "spawn"] /\ NewTargets
       ELSE pwState' = "stopped" /\ pwUser' = PwIdle /\ UNCHANGED pwPolls
    /\ UNCHANGED <<pwOrderly, pwThread, pwEvent, pwSet, pwPc>>

SetTargetEnabled(x) ==
    /\ pwEnabled' = IF x \in pwEnabled THEN pwEnabled \ {x} ELSE pwEnabled \cup {x}
    /\ UNCHANGED <<pwOrderly, pwState, pwThread, pwEvent, pwSet, pwPc, pwUser,
                   pwAt, pwStale, pwClients, pwDue>>

\* The interval of a target has passed.
IntervalPasses(x) ==
    /\ pwDue' = pwDue \cup {x}
    /\ UNCHANGED <<pwOrderly, pwState, pwThread, pwEvent, pwSet, pwPc, pwUser,
                   pwAt, pwStale, pwClients, pwEnabled>>

-----------------------------------------------------------------------------
(* _run_worker() and _async_main() in a worker thread.                     *)

PwGoes(t, where) == pwPc' = [pwPc EXCEPT ![t] = where]

PwMakeLoop(t) ==
    /\ pwPc[t] = "spawned"
    /\ PwGoes(t, "looped")
    /\ pwEvent' = t
    /\ UNCHANGED <<pwOrderly, pwState, pwThread, pwSet, pwUser, pwPolls>>

\* The clients that can be connected are; anything else that raises ends the thread.
PwConnect(t) ==
    /\ pwPc[t] = "looped"
    /\ \E S \in SUBSET PwTargetSet :
         /\ PwTargetsChange \/ S = PwTargetSet
         /\ pwClients' = S
    /\ \/ PwGoes(t, "loop") /\ pwState' = "running"
       \/ PwGoes(t, "closing") /\ UNCHANGED pwState
    /\ UNCHANGED <<pwOrderly, pwThread, pwEvent, pwSet, pwUser, pwAt, pwStale, pwEnabled, pwDue>>

\* "while not self._stop_event.is_set()", of the event there is by then.
PwLoop(t) ==
    /\ pwPc[t] = "loop"
    /\ PwGoes(t, IF pwEvent \in pwSet \cup {NoPoller} THEN "closing" ELSE "poll")
    /\ pwAt' = [pwAt EXCEPT ![t] = 1]
    /\ pwStale' = pwStale \ {t}
    /\ UNCHANGED <<pwOrderly, pwState, pwThread, pwEvent, pwSet, pwUser, pwClients, pwEnabled, pwDue>>

\* The result of the target at hand, if it is still one of the worker's: last_poll_time is
\* set whatever the result is.
Recorded(t) == pwDue' = IF t \in pwStale THEN pwDue ELSE pwDue \ {PwTargets[pwAt[t]]}

\* On to the next target, unless the iteration raises because they were replaced.
NextTarget(t) ==
    IF t \in pwStale
    THEN PwGoes(t, "loop") /\ UNCHANGED pwAt
    ELSE PwGoes(t, "poll") /\ pwAt' = [pwAt EXCEPT ![t] = @ + 1]

PwPoll(t) ==
    /\ pwPc[t] = "poll"
    /\ IF t \in pwStale \/ pwAt[t] > Len(PwTargets)
       THEN PwGoes(t, "loop") /\ UNCHANGED <<pwAt, pwDue>>
       ELSE LET x == PwTargets[pwAt[t]] IN
            IF x \notin pwEnabled \cap pwDue THEN NextTarget(t) /\ UNCHANGED pwDue
            ELSE IF x \in pwClients THEN PwGoes(t, "request") /\ UNCHANGED <<pwAt, pwDue>>
            ELSE NextTarget(t) /\ Recorded(t)
    /\ UNCHANGED <<pwOrderly, pwState, pwThread, pwEvent, pwSet, pwUser, pwStale, pwClients, pwEnabled>>

\* An answer written to its register, an HTTP, parse or write error, a timeout, or anything
\* else the request raised: each is a result.
PwAnswer(t) ==
    /\ pwPc[t] = "request"
    /\ Recorded(t)
    /\ NextTarget(t)
    /\ UNCHANGED <<pwOrderly, pwState, pwThread, pwEvent, pwSet, pwUser, pwStale, pwClients, pwEnabled>>

\* _cleanup() is run by the loop there is by then: when it is another thread's the thread
\* dies here.
PwCleanup(t) ==
    /\ pwPc[t] = "closing"
    /\ PwGoes(t, IF pwEvent \in {t, NoPoller} THEN "final" ELSE "over")
    /\ pwClients' = IF pwEvent = t THEN {} ELSE pwClients
    /\ UNCHANGED <<pwOrderly, pwState, pwThread, pwEvent, pwSet, pwUser, pwAt, pwStale, pwEnabled, pwDue>>

\* Mutant: the state is not set at the end.
PwEndSilently(t) ==
    /\ pwPc[t] = "final"
    /\ PwGoes(t, "over")
    /\ pwEvent' = NoPoller
    /\ UNCHANGED <<pwOrderly, pwState, pwThread, pwSet, pwUser, pwPolls>>

PwEnd(t) ==
    /\ pwPc[t] = "final"
    /\ PwGoes(t, "over")
    /\ pwEvent' = NoPoller
    /\ pwState' = "stopped"
    /\ UNCHANGED <<pwOrderly, pwThread, pwSet, pwUser, pwPolls>>

PwThreadStep(t) ==
    PwMakeLoop(t) \/ PwConnect(t) \/ PwLoop(t) \/ PwPoll(t) \/ PwAnswer(t) \/ PwCleanup(t) \/ PwEnd(t)

PwNext ==
    \/ PwStart \/ PwSpawn \/ PwStop \/ PwCheck \/ PwSignal \/ PwJoined
    \/ \E x \in PwTargetSet : PwTargetsChange /\ (SetTargetEnabled(x) \/ IntervalPasses(x))
    \/ \E t \in PwThreads : PwThreadStep(t)

PwFairness ==
    /\ WF_pwVars(PwCheck) /\ WF_pwVars(PwSignal)
    /\ WF_pwVars(PwJoined)
    /\ \A t \in PwThreads : WF_pwVars(PwThreadStep(t))

-----------------------------------------------------------------------------
(* Properties.                                                             *)

PwLive == {t \in PwThreads : pwPc[t] \notin {"unused", "over"}}

\* The worker never reports itself running with no thread left, even when stops and reloads
\* overtake the start of a thread and one thread clears the loop of another.
PwRunningIsServed == pwState = "running" => PwLive # {}

\* In orderly surroundings stop() leaves no thread and no open client behind.
PwStoppedIsClosed ==
    pwOrderly /\ pwState = "stopped" /\ pwUser = PwIdle
        => PwLive \subseteq {t \in PwThreads : pwPc[t] = "final"} /\ pwClients = {}

\* A target that is due is polled, whatever the targets before it make of their requests
\* and whatever is enabled, disabled or reloaded meanwhile.
PwDueIsPolled ==
    \A x \in PwTargetSet :
        pwOrderly /\ pwState = "running" /\ x \in pwDue \cap pwEnabled
            ~> x \notin pwDue \cap pwEnabled \/ pwState # "running"

\* The reported state is true of the threads and their clients.
PwSafe == PwRunningIsServed /\ PwStoppedIsClosed
=============================================================================
