----------------------------- MODULE BMSClient ------------------------------
(***************************************************************************)
(* BMSClient (client.py): what start() opens, stop() closes, and the two   *)
(* supervised loops do in between.                                         *)
(*                                                                         *)
(* An object is started once; stop() is called after a start that failed   *)
(* or was cancelled too, and again after a stop.  The loops are coroutines *)
(* of TaskSupervisor: they live while managed says so.  An HTTP client is  *)
(* named after who opened it; httpOpen is the history of those that were   *)
(* opened and not closed.                                                  *)
(***************************************************************************)
EXTENDS TaskSupervisor

CONSTANTS Threshold,    \* _ieee2030_5_failure_threshold
          MaxAttempts,  \* max_attempts of one reconnection
          First         \* the HTTP client that start() opens

ASSUME BmsAssumption ==
    /\ Tasks = {"reporting", "metering"}
    /\ Threshold \in Nat \ {0}
    /\ MaxAttempts \in Nat \ {0}
    /\ First \notin Tasks

VARIABLES
    phase,      \* where the life of the client stands
    running,    \* _running
    subscribes, \* _enable_subscription
    certified,  \* whether the certificates stay where connect() finds and can load them
    opened,     \* what start() opened besides the HTTP client
    http,       \* ieee2030_5_client._client
    httpOpen,   \* history: the HTTP clients that are open
    loop,       \* where each loop stands
    failures,   \* the consecutive failures each loop counts
    attempt     \* the attempt of the reconnection each loop is at

loopVars == <<loop, failures, attempt>>
bmsVars == <<phase, running, subscribes, certified, opened, http, httpOpen, loopVars>>
clientVars == <<supVars, bmsVars>>

Starting == {"modbus", "sep", "register", "collector", "control"}
Stopping == {"tasks", "der", "pcs", "subs", "collectorStop", "modbusStop", "sepStop"}
NoClient == "none"

BmsTypeOK ==
    /\ phase \in {"new", "failed", "up", "down"} \cup Starting \cup Stopping
    /\ running \in BOOLEAN
    /\ subscribes \in BOOLEAN
    /\ certified \in BOOLEAN
    /\ opened \subseteq {"modbus", "collector", "pcs", "der", "server"}
    /\ http \in Tasks \cup {First, NoClient}
    /\ httpOpen \subseteq Tasks \cup {First}
    /\ loop \in [Tasks -> {"idle", "reconnect", "closing", "opening", "backoff", "resting"}]
    /\ failures \in [Tasks -> 0..Threshold]
    /\ attempt \in [Tasks -> 0..MaxAttempts]

BmsInit ==
    /\ phase = "new"
    /\ running = FALSE
    /\ subscribes \in BOOLEAN
    /\ certified \in BOOLEAN
    /\ opened = {}
    /\ http = NoClient
    /\ httpOpen = {}
    /\ loop = [t \in Tasks |-> "idle"]
    /\ failures = [t \in Tasks |-> 0]
    /\ attempt = [t \in Tasks |-> 0]

-----------------------------------------------------------------------------
(* start(), from one await to the next.                                    *)

BeginStart ==
    /\ phase = "new"
    /\ phase' = "modbus"
    /\ UNCHANGED <<supVars, running, subscribes, certified, opened, http, httpOpen, loopVars>>

\* The Modbus connection is open, or start() raises.
ModbusConnected ==
    /\ phase = "modbus"
    /\ \/ phase' = "sep" /\ opened' = opened \cup {"modbus"}
       \/ phase' = "failed" /\ UNCHANGED opened
    /\ UNCHANGED <<supVars, running, subscribes, certified, http, httpOpen, loopVars>>

\* connect() keeps its HTTP client even when the first request fails; it makes none when the
\* certificates cannot be used.
ServerConnected ==
    /\ phase = "sep"
    /\ \/ /\ http' = First
          /\ httpOpen' = httpOpen \cup {First}
          /\ \/ phase' = "register" /\ UNCHANGED opened
             \/ phase' = "failed" /\ opened' = opened \ {"modbus"}
       \/ /\ ~certified
          /\ phase' = "failed"
          /\ opened' = opened \ {"modbus"}
          /\ UNCHANGED <<http, httpOpen>>
    /\ UNCHANGED <<supVars, running, subscribes, certified, loopVars>>

\* Registration may fail without ending start(); the collector is running after it.
DeviceRegistered ==
    /\ phase = "register"
    /\ phase' = "collector"
    /\ opened' = opened \cup {"collector"}
    /\ UNCHANGED <<supVars, running, subscribes, certified, http, httpOpen, loopVars>>

\* The loops are registered (metering only with a meter) and launched.
LoopsStarted ==
    /\ phase = "collector"
    /\ phase' = "control"
    /\ running' = TRUE
    /\ \E S \in {{"reporting"}, Tasks} : StartAll(S)
    /\ UNCHANGED <<subscribes, certified, opened, http, httpOpen, loopVars>>

\* _init_power_controller(): production mode connects to a PCS of its own, which may fail.
PcsConnections == {{}, {"pcs"}}

\* The power controller may connect to the PCS before the notification server is up.
ServerStarted ==
    /\ phase = "control"
    /\ subscribes
    /\ "server" \notin opened
    /\ \E pcs \in PcsConnections : opened' = opened \cup pcs \cup {"server"}
    /\ UNCHANGED <<supVars, phase, running, subscribes, certified, http, httpOpen, loopVars>>

\* _start_der_control() forgets a DERClient that raises.  _start_subscription_control()
\* always raises, at a class the module does not import, and takes its server down again.
ControlStarted ==
    /\ phase = "control"
    /\ phase' = "up"
    /\ IF subscribes
       THEN opened' = opened \ {"server"}
       ELSE \E pcs \in PcsConnections, der \in {{}, {"der"}} : opened' = opened \cup pcs \cup der
    /\ UNCHANGED <<supVars, running, subscribes, certified, http, httpOpen, loopVars>>

StartCancelled ==
    /\ phase \in Starting
    /\ phase' = "failed"
    /\ UNCHANGED <<supVars, running, subscribes, certified, opened, http, httpOpen, loopVars>>

-----------------------------------------------------------------------------
(* stop(): the loops first, then what they use.                            *)

BeginStop ==
    /\ phase \in {"failed", "up", "down"}
    /\ phase' = "tasks"
    /\ running' = FALSE
    /\ StopAll
    /\ UNCHANGED <<subscribes, certified, opened, http, httpOpen, loopVars>>

StopLoop ==
    /\ phase = "tasks"
    /\ StopNext
    /\ UNCHANGED bmsVars

\* Mutant: the connection of the power controller is left open.
ClosesButPcs == [tasks |-> {}, der |-> {"der"}, pcs |-> {}, subs |-> {"server"},
                 collectorStop |-> {"collector"}, modbusStop |-> {"modbus"}, sepStop |-> {}]

\* What each later step of stop() closes, and the step after it.
Closes == [tasks |-> {}, der |-> {"der"}, pcs |-> {"pcs"}, subs |-> {"server"},
           collectorStop |-> {"collector"}, modbusStop |-> {"modbus"}, sepStop |-> {}]
Follows == [tasks |-> "der", der |-> "pcs", pcs |-> "subs", subs |-> "collectorStop",
            collectorStop |-> "modbusStop", modbusStop |-> "sepStop", sepStop |-> "down"]

StopStep ==
    /\ phase \in Stopping
    /\ stopper = 0
    /\ phase' = Follows[phase]
    /\ opened' = opened \ Closes[phase]
    /\ IF phase = "sepStop"
       THEN http' = NoClient /\ httpOpen' = httpOpen \ {http}
       ELSE UNCHANGED <<http, httpOpen>>
    /\ UNCHANGED <<supVars, running, subscribes, certified, loopVars>>

-----------------------------------------------------------------------------
(* _reporting_loop() and _metering_loop(): the same loop around two bodies.*)

Alive(t) == managed[t].run = "alive"

Goes(t, where) == loop' = [loop EXCEPT ![t] = where]

\* One round.  Requests that the server does not take are caught in the body and do not
\* count; what raises is the conversion of the data.
Round(t) ==
    /\ Alive(t)
    /\ loop[t] = "idle"
    /\ running
    /\ \/ failures' = [failures EXCEPT ![t] = 0] /\ UNCHANGED <<loop, attempt>>
       \/ /\ failures' = [failures EXCEPT ![t] = IF @ < Threshold THEN @ + 1 ELSE @]
          /\ IF failures'[t] = Threshold
             THEN Goes(t, "reconnect") /\ attempt' = [attempt EXCEPT ![t] = 1]
             ELSE UNCHANGED <<loop, attempt>>
    /\ UNCHANGED <<supVars, phase, running, subscribes, certified, opened, http, httpOpen>>

\* _reconnect_ieee2030_5(): disconnect() awaits the end of the client it finds ...
CloseHttp(t) ==
    /\ Alive(t)
    /\ loop[t] = "reconnect"
    /\ running
    /\ http # NoClient
    /\ Goes(t, "closing")
    /\ httpOpen' = httpOpen \ {http}
    /\ UNCHANGED <<supVars, phase, running, subscribes, certified, opened, http, failures, attempt>>

\* ... and forgets the client there is by then; connect() opens another one, or returns
\* without one when the certificates cannot be used.
OpenHttp(t) ==
    /\ Alive(t)
    /\ \/ loop[t] = "closing"
       \/ loop[t] = "reconnect" /\ running /\ http = NoClient
    /\ \/ /\ Goes(t, "opening")
          /\ http' = t
          /\ httpOpen' = httpOpen \cup {t}
       \/ /\ ~certified
          /\ Goes(t, "backoff")
          /\ http' = NoClient
          /\ UNCHANGED httpOpen
    /\ UNCHANGED <<supVars, phase, running, subscribes, certified, opened, failures, attempt>>

\* The first request is answered, unless its client has been closed meanwhile.
HttpOpened(t) ==
    /\ Alive(t)
    /\ loop[t] = "opening"
    /\ \/ /\ t \in httpOpen
          /\ Goes(t, "idle")
          /\ failures' = [failures EXCEPT ![t] = 0]
          /\ attempt' = [attempt EXCEPT ![t] = 0]
       \/ Goes(t, "backoff") /\ UNCHANGED <<failures, attempt>>
    /\ UNCHANGED <<supVars, phase, running, subscribes, certified, opened, http, httpOpen>>

\* Mutant: the attempts are not counted.
BackedOffUncounted(t) ==
    /\ Alive(t)
    /\ loop[t] = "backoff"
    /\ Goes(t, "reconnect")
    /\ UNCHANGED <<supVars, phase, running, subscribes, certified, opened, http, httpOpen, failures, attempt>>

\* After the last attempt, or a stop, the loop waits longer before its next round.
BackedOff(t) ==
    /\ Alive(t)
    /\ loop[t] = "backoff"
    /\ IF attempt[t] < MaxAttempts /\ running
       THEN Goes(t, "reconnect") /\ attempt' = [attempt EXCEPT ![t] = @ + 1]
       ELSE Goes(t, "resting") /\ attempt' = [attempt EXCEPT ![t] = 0]
    /\ UNCHANGED <<supVars, phase, running, subscribes, certified, opened, http, httpOpen, failures>>

Rested(t) ==
    /\ Alive(t)
    /\ \/ loop[t] = "resting"
       \/ loop[t] = "reconnect" /\ ~running
    /\ Goes(t, "idle")
    /\ UNCHANGED <<supVars, phase, running, subscribes, certified, opened, http, httpOpen, failures, attempt>>

LoopStep(t) ==
    Round(t) \/ CloseHttp(t) \/ OpenHttp(t) \/ HttpOpened(t) \/ BackedOff(t) \/ Rested(t)

\* "while self._running": everything else that raises is caught inside the loop.
LoopEnds(t) ==
    /\ loop[t] = "idle"
    /\ ~running
    /\ TaskEnds(t, "finished")
    /\ UNCHANGED bmsVars

-----------------------------------------------------------------------------

BmsNext ==
    \/ BeginStart \/ ModbusConnected \/ ServerConnected \/ DeviceRegistered \/ LoopsStarted
    \/ ServerStarted \/ ControlStarted \/ StartCancelled
    \/ BeginStop \/ StopLoop \/ StopStep
    \/ \E t \in Tasks : LoopStep(t) \/ LoopEnds(t)
    \/ MonitorWakes /\ UNCHANGED bmsVars

\* The event loop runs every coroutine that can go on.
BmsFairness ==
    /\ WF_clientVars(StopLoop)
    /\ WF_clientVars(StopStep)
    /\ \A t \in Tasks : WF_clientVars(LoopStep(t))

-----------------------------------------------------------------------------
(* Properties.                                                             *)

\* After stop(), whatever start() had opened when it failed, was cancelled or was through,
\* everything is closed, and no loop or monitor is left that would use or reopen it.
StopClosesEverything ==
    phase = "down" => opened = {} /\ http = NoClient /\ monitor = "none"
                      /\ \A t \in Tasks : ~Alive(t)

\* When no loop is reconnecting, the HTTP client in use is open, however the reconnections
\* of the two loops have crossed: each may close and forget what the other has opened.  There
\* is none only if certificates could not be used; a closed one is never left in use.
HttpWorksBetweenReconnections ==
    phase = "up" /\ (\A t \in Tasks : loop[t] \in {"idle", "resting"} \/ ~Alive(t))
        => http \in httpOpen \/ (http = NoClient /\ ~certified)

\* A reconnection comes to an end: the loop makes its next round or is stopped, even when
\* the other loop closes its client at every attempt.
ReconnectionsEnd ==
    \A t \in Tasks : loop[t] = "reconnect" ~> loop[t] = "idle" \/ ~Alive(t)

\* stop() ends.
StopEnds == phase \in Stopping ~> phase = "down"

\* Nothing is left open by stop(), and the HTTP client in use is open while nobody is
\* reconnecting.
BmsSafe == StopClosesEverything /\ HttpWorksBetweenReconnections

\* Reconnections and stops come to an end.
BmsLive == ReconnectionsEnd /\ StopEnds
=============================================================================
