--------------------------- MODULE ClientManager ----------------------------
(***************************************************************************)
(* ClientManager (web/client_manager.py): the web requests start, stop and *)
(* restart a BMSClient that lives in a thread of its own.                  *)
(*                                                                         *)
(* Nothing is locked: the requests and the client threads share _status,   *)
(* _client and _client_thread.  An object BMSClient is named after the     *)
(* thread that made it.                                                    *)
(***************************************************************************)
EXTENDS Naturals, FiniteSets

CONSTANTS CmCallers,   \* the web requests that may run at once
          CmThreads,   \* the client threads there may ever be
          NoThread

ASSUME CmAssumption == NoThread \notin CmThreads

VARIABLES
    cmOrderly, \* the surroundings, see below: a constant of a behaviour
    cmState,   \* _status.state
    cmThread,  \* _client_thread
    cmClient,  \* _client, never cleared
    cmPc,      \* where each client thread stands
    cmConn,    \* what became of the BMSClient each thread made
    cmCaller   \* where each request stands, the thread it joins, whether it restarts

cmVars == <<cmOrderly, cmState, cmThread, cmClient, cmPc, cmConn, cmCaller>>

CmTypeOK ==
    /\ cmOrderly \in BOOLEAN
    /\ cmState \in {"stopped", "starting", "running", "stopping", "error"}
    /\ cmThread \in CmThreads \cup {NoThread}
    /\ cmClient \in CmThreads \cup {NoThread}
    /\ cmPc \in [CmThreads -> {"unused", "spawned", "loading", "connecting", "running",
                               "final", "ending", "over"}]
    /\ cmConn \in [CmThreads -> {"none", "up", "down"}]
    /\ cmCaller \in [CmCallers -> [at : {"idle", "spawn", "stop", "join"}, again : BOOLEAN,
                                   waits : CmThreads \cup {NoThread}]]

CmIdle == [at |-> "idle", again |-> FALSE, waits |-> NoThread]

CmInit ==
    /\ cmOrderly \in BOOLEAN
    /\ cmState = "stopped"
    /\ cmThread = NoThread
    /\ cmClient = NoThread
    /\ cmPc = [t \in CmThreads |-> "unused"]
    /\ cmConn = [t \in CmThreads |-> "none"]
    /\ cmCaller = [c \in CmCallers |-> CmIdle]

\* Orderly surroundings: one request at a time, and it waits for what the last one asked
\* for; it starts what is stopped, stops what is running, and the client stops within the
\* ten seconds of the join.
CmQuiet ==
    /\ \A c \in CmCallers : cmCaller[c] = CmIdle
    /\ \A t \in CmThreads : cmPc[t] # "spawned"

-----------------------------------------------------------------------------
(* The requests.                                                           *)

Startable == cmState \notin {"running", "starting"}
Stoppable == cmState \in {"running", "starting"}

CmStart(c) ==
    /\ cmCaller[c] = CmIdle
    /\ Startable
    /\ cmOrderly => CmQuiet /\ cmState = "stopped"
    /\ cmCaller' = [cmCaller EXCEPT ![c].at = "spawn"]
    /\ UNCHANGED <<cmOrderly, cmState, cmThread, cmClient, cmPc, cmConn>>

CmSpawn(c) ==
    /\ cmCaller[c].at = "spawn"
    /\ \E t \in CmThreads :
         /\ cmPc[t] = "unused"
         /\ cmPc' = [cmPc EXCEPT ![t] = "spawned"]
         /\ cmThread' = t
    /\ cmCaller' = [cmCaller EXCEPT ![c] = CmIdle]
    /\ UNCHANGED <<cmOrderly, cmState, cmClient, cmConn>>

\* stop(), and restart() of a client that runs: the state is looked at ...
CmStop(c) ==
    /\ cmCaller[c] = CmIdle
    /\ Stoppable
    /\ cmOrderly => CmQuiet /\ cmState = "running"
    /\ \E again \in BOOLEAN :
         /\ again => cmState = "running"
         /\ cmCaller' = [cmCaller EXCEPT ![c] = [CmIdle EXCEPT !.at = "stop", !.again = again]]
    /\ UNCHANGED <<cmOrderly, cmState, cmThread, cmClient, cmPc, cmConn>>

\* ... and set, and the thread there is by then is joined.
CmStopSet(c) ==
    /\ cmCaller[c].at = "stop"
    /\ cmState' = "stopping"
    /\ cmCaller' = [cmCaller EXCEPT ![c].at = "join", ![c].waits = cmThread]
    /\ UNCHANGED <<cmOrderly, cmThread, cmClient, cmPc, cmConn>>

\* The thread is over, or the ten seconds are: a thread in its loop looks at the state
\* every second.
CmJoined(c) ==
    LET t == cmCaller[c].waits IN
    /\ cmCaller[c].at = "join"
    /\ t # NoThread => \/ cmPc[t] = "over"
                       \/ ~cmOrderly /\ (cmPc[t] = "running" => cmState = "running")
    /\ cmThread' = IF t = NoThread THEN cmThread ELSE NoThread
    /\ cmCaller' = [cmCaller EXCEPT ![c] = [CmIdle EXCEPT !.at =
                        IF cmCaller[c].again /\ Startable THEN "spawn" ELSE "idle"]]
    /\ UNCHANGED <<cmOrderly, cmState, cmClient, cmPc, cmConn>>

-----------------------------------------------------------------------------
(* _run_client() in a client thread.                                       *)

CmThreadGoes(t, where) == cmPc' = [cmPc EXCEPT ![t] = where]

CmBegin(t) ==
    /\ cmPc[t] = "spawned"
    /\ CmThreadGoes(t, "loading")
    /\ cmState' = "starting"
    /\ UNCHANGED <<cmOrderly, cmThread, cmClient, cmConn, cmCaller>>

\* The configuration is loaded, the client made and its start() awaited; or loading raises.
CmLoad(t) ==
    /\ cmPc[t] = "loading"
    /\ \/ CmThreadGoes(t, "connecting") /\ cmClient' = t /\ UNCHANGED cmState
       \/ CmThreadGoes(t, "final") /\ cmState' = "error" /\ UNCHANGED cmClient
    /\ UNCHANGED <<cmOrderly, cmThread, cmConn, cmCaller>>

\* RUNNING, whatever has become of the state since.
CmConnect(t) ==
    /\ cmPc[t] = "connecting"
    /\ \/ CmThreadGoes(t, "running") /\ cmState' = "running" /\ cmConn' = [cmConn EXCEPT ![t] = "up"]
       \/ CmThreadGoes(t, "final") /\ cmState' = "error" /\ UNCHANGED cmConn
    /\ UNCHANGED <<cmOrderly, cmThread, cmClient, cmCaller>>

\* "while self._status.state == RUNNING"
CmWatch(t) ==
    /\ cmPc[t] = "running"
    /\ cmState # "running"
    /\ CmThreadGoes(t, "final")
    /\ UNCHANGED <<cmOrderly, cmState, cmThread, cmClient, cmConn, cmCaller>>

\* The client that is stopped is the one in _client, whoever made it.
CmFinal(t) ==
    /\ cmPc[t] = "final"
    /\ CmThreadGoes(t, "ending")
    /\ cmConn' = IF cmClient = NoThread THEN cmConn ELSE [cmConn EXCEPT ![cmClient] = "down"]
    /\ UNCHANGED <<cmOrderly, cmState, cmThread, cmClient, cmCaller>>

\* Mutant: the state is not set at the end.
CmEndSilently(t) ==
    /\ cmPc[t] = "ending"
    /\ CmThreadGoes(t, "over")
    /\ UNCHANGED <<cmOrderly, cmState, cmThread, cmClient, cmConn, cmCaller>>

CmEnd(t) ==
    /\ cmPc[t] = "ending"
    /\ CmThreadGoes(t, "over")
    /\ cmState' = "stopped"
    /\ UNCHANGED <<cmOrderly, cmThread, cmClient, cmConn, cmCaller>>

CmThreadStep(t) ==
    CmBegin(t) \/ CmLoad(t) \/ CmConnect(t) \/ CmWatch(t) \/ CmFinal(t) \/ CmEnd(t)

CmNext ==
    \/ \E c \in CmCallers : CmStart(c) \/ CmSpawn(c) \/ CmStop(c) \/ CmStopSet(c) \/ CmJoined(c)
    \/ \E t \in CmThreads : CmThreadStep(t)

\* The threads are scheduled, those of the requests too once they have begun.
CmFairness ==
    /\ \A c \in CmCallers : WF_cmVars(CmStopSet(c) \/ CmJoined(c))
    /\ \A t \in CmThreads : WF_cmVars(CmThreadStep(t))

-----------------------------------------------------------------------------
(* Properties.                                                             *)

\* "running" on the dashboard is never left over from a thread that has gone, in whatever
\* order requests and threads overwrite the state.
CmRunningIsServed == cmState = "running" => \E t \in CmThreads : cmPc[t] = "running"

\* In orderly surroundings there is one client at a time, and a client that is connected
\* has its own thread to stop it.
CmOneClient ==
    cmOrderly =>
        /\ Cardinality({t \in CmThreads : cmPc[t] \notin {"unused", "over"}}) <= 1
        /\ \A t \in CmThreads : cmConn[t] = "up" => cmPc[t] \in {"running", "final"} /\ cmClient = t

\* A stop that was accepted ends with the client stopped.
CmStopStops == cmState = "stopping" ~> cmState = "stopped" /\ \A t \in CmThreads : cmConn[t] # "up"

\* The same in orderly surroundings, through failed starts and restarts.
CmOrderlyStopStops ==
    cmOrderly /\ cmState = "stopping"
        ~> cmState = "stopped" /\ \A t \in CmThreads : cmConn[t] # "up"

\* The state on the dashboard has a thread behind it, and one client.
CmSafe == CmRunningIsServed /\ CmOneClient
=============================================================================
