--------------------------- MODULE NotificationPush -------------------------
(***************************************************************************)
(* NotificationServer and NotificationHandler of push mode: every request  *)
(* is a task of its own in one event loop, so that requests interleave     *)
(* where they await.  What the subscription manager does with a            *)
(* notification is in SubscriptionChain, what becomes of a control in      *)
(* DERControlHandler.                                                      *)
(***************************************************************************)
EXTENDS FiniteSets, Naturals

CONSTANTS
    NpTasks,        \* the requests that are served at a time
    NpRequests,     \* bound: requests
    NpStarts        \* bound: starts of the server

ASSUME PushAssumption == IsFiniteSet(NpTasks) /\ NpRequests \in Nat /\ NpStarts \in Nat

VARIABLES
    npHandler,      \* what the handler was given: a control handler and a callback, a manager
    npServer,
    npSite,         \* whether the socket listens
    npSet,          \* whether set_notification_handler() was called
    npStarts,
    npTask,         \* for each request: where it awaits
    npStats,        \* _stats of the server: received, processed, errors
    npHandled,      \* _stats of the handler: handled, controls, errors
    npRefused,      \* History: requests answered 413, and 204 though there was no handler
    npCut,          \* History: requests cancelled by stop(), controls among them
    npControl       \* History: controls executed, failed and left alone because they are over

npHistory == <<npRefused, npCut, npControl>>
npVars == <<npHandler, npServer, npSite, npSet, npStarts, npTask, npStats, npHandled, npHistory>>

Steps == {"free", "read", "manager", "error", "execute", "callback"}
ControlSteps == {"execute", "callback"}

Serving == {r \in NpTasks : npTask[r] # "free"}

NpTypeOK ==
    /\ npHandler \in [control : BOOLEAN, manager : BOOLEAN]
    /\ npServer \in {"stopped", "starting", "running", "stopping"} /\ npSite \in BOOLEAN /\ npSet \in BOOLEAN
    /\ npStarts \in 0..NpStarts /\ npTask \in [NpTasks -> Steps]
    /\ npStats \in [received : 0..NpRequests, processed : 0..NpRequests, errors : 0..NpRequests]
    /\ npHandled \in [handled : 0..NpRequests, controls : 0..NpRequests, errors : 0..NpRequests]
    /\ npRefused \in 0..NpRequests
    /\ npCut \in [all : 0..NpRequests, controls : 0..NpRequests]
    /\ npControl \in [executed : 0..NpRequests, failed : 0..NpRequests, past : 0..NpRequests]

\* BMSClient gives the handler a manager and neither a control handler nor a callback.
NpInit ==
    /\ npHandler \in [control : BOOLEAN, manager : BOOLEAN]
    /\ npServer = "stopped" /\ npSite = FALSE /\ npSet = FALSE /\ npStarts = 0
    /\ npTask = [r \in NpTasks |-> "free"]
    /\ npStats = [received |-> 0, processed |-> 0, errors |-> 0]
    /\ npHandled = [handled |-> 0, controls |-> 0, errors |-> 0]
    /\ npRefused = 0 /\ npCut = [all |-> 0, controls |-> 0]
    /\ npControl = [executed |-> 0, failed |-> 0, past |-> 0]

-----------------------------------------------------------------------------

\* start() of a server that runs does nothing; two that overlap are not kept apart, but the
\* second cannot have the port.
NpStart ==
    /\ npServer = "stopped" /\ npStarts < NpStarts
    /\ npServer' = "starting" /\ npStarts' = npStarts + 1
    /\ UNCHANGED <<npHandler, npSite, npSet, npTask, npStats, npHandled, npHistory>>

\* The socket listens before start() returns, _running is set and the handler is set; the
\* port may be taken.
Listens ==
    /\ npServer = "starting"
    /\ \/ ~npSite /\ npSite' = TRUE /\ UNCHANGED npServer
       \/ ~npSite /\ npServer' = "stopped" /\ UNCHANGED npSite
       \/ npSite /\ npServer' = "running" /\ UNCHANGED npSite
    /\ npSet' = (npSet \/ npServer' = "running")
    /\ UNCHANGED <<npHandler, npStarts, npTask, npStats, npHandled, npHistory>>

\* stop() closes the socket first, and waits for the requests that are being served.
NpStop ==
    /\ npServer = "running"
    /\ npServer' = "stopping" /\ npSite' = FALSE
    /\ UNCHANGED <<npHandler, npSet, npStarts, npTask, npStats, npHandled, npHistory>>

\* After the time-out of the runner what is still served is cancelled, which no except
\* clause of the server counts.
Stopped ==
    /\ npServer = "stopping"
    /\ npServer' = "stopped"
    /\ npCut' = [all |-> npCut.all + Cardinality(Serving),
                 controls |-> npCut.controls + Cardinality({r \in Serving : npTask[r] = "execute"})]
    /\ npTask' = [r \in NpTasks |-> "free"]
    /\ UNCHANGED <<npHandler, npSite, npSet, npStarts, npStats, npHandled, npRefused, npControl>>

-----------------------------------------------------------------------------

Request(r) ==
    /\ npSite /\ npTask[r] = "free" /\ npStats.received < NpRequests
    /\ npTask' = [npTask EXCEPT ![r] = "read"]
    /\ npStats' = [npStats EXCEPT !.received = @ + 1]
    /\ UNCHANGED <<npHandler, npServer, npSite, npSet, npStarts, npHandled, npHistory>>

Answers(r) == npTask' = [npTask EXCEPT ![r] = "free"]
Waits(r, step) == npTask' = [npTask EXCEPT ![r] = step]
Processed == npStats' = [npStats EXCEPT !.processed = @ + 1]
Raised == npStats' = [npStats EXCEPT !.errors = @ + 1]

\* The body is too large, or can be read and there is no handler yet, or cannot be parsed.
BadRequest(r) ==
    /\ npTask[r] = "read"
    /\ Answers(r)
    /\ \/ npRefused' = npRefused + 1 /\ UNCHANGED npStats
       \/ Raised /\ UNCHANGED npRefused
    /\ UNCHANGED <<npHandler, npServer, npSite, npSet, npStarts, npHandled, npCut, npControl>>

\* The manager is asked, where there is one: for a status other than 0, whatever the resource,
\* for a change of the assignments and for a change of a program.
ManagerNotified(r) ==
    /\ npTask[r] = "read" /\ npSet
    /\ \E step \in {"error", "manager"} :
           IF npHandler.manager
           THEN /\ Waits(r, step) /\ UNCHANGED npStats
                /\ npHandled' = [npHandled EXCEPT !.handled = @ + 1]
           ELSE /\ Answers(r) /\ Processed
                /\ npHandled' = [npHandled EXCEPT !.handled = @ + 1,
                                     !.errors = @ + IF step = "error" THEN 1 ELSE 0]
    /\ UNCHANGED <<npHandler, npServer, npSite, npSet, npStarts, npHistory>>

\* A default control, or a resource that no handler is for: nothing that awaits is done.
OtherNotified(r) ==
    /\ npTask[r] = "read" /\ npSet
    /\ Answers(r) /\ Processed
    /\ npHandled' = [npHandled EXCEPT !.handled = @ + 1]
    /\ UNCHANGED <<npHandler, npServer, npSite, npSet, npStarts, npHistory>>

\* A control that cannot be read is an error of the handler and not of the server.  One that
\* is over is left alone.  The responses have nowhere to go: no href is read from the resource.
ControlNotified(r) ==
    /\ npTask[r] = "read" /\ npSet
    /\ \/ /\ npHandled' = [npHandled EXCEPT !.handled = @ + 1, !.errors = @ + 1]
          /\ Answers(r) /\ Processed /\ UNCHANGED npControl
       \/ /\ npHandled' = [npHandled EXCEPT !.handled = @ + 1, !.controls = @ + 1]
          /\ \/ npControl' = [npControl EXCEPT !.past = @ + 1] /\ Answers(r) /\ Processed
             \/ IF npHandler.control
                THEN Waits(r, "execute") /\ UNCHANGED <<npStats, npControl>>
                ELSE /\ npControl' = [npControl EXCEPT !.past = @ + 1]
                     /\ Answers(r) /\ Processed
    /\ UNCHANGED <<npHandler, npServer, npSite, npSet, npStarts, npRefused, npCut>>

\* handle_control() returns, and the callback is called; or it raises, and the server counts
\* an error and answers as if all were well.
Executed(r) ==
    /\ npTask[r] = "execute"
    /\ \/ /\ npControl' = [npControl EXCEPT !.executed = @ + 1]
          /\ Waits(r, "callback") /\ UNCHANGED npStats
       \/ /\ npControl' = [npControl EXCEPT !.failed = @ + 1]
          /\ Answers(r) /\ Raised
    /\ UNCHANGED <<npHandler, npServer, npSite, npSet, npStarts, npHandled, npRefused, npCut>>

\* What the callback raises is logged.
CalledBack(r) ==
    /\ npTask[r] = "callback"
    /\ Answers(r) /\ Processed
    /\ UNCHANGED <<npHandler, npServer, npSite, npSet, npStarts, npHandled, npHistory>>

\* The manager returns, or raises: then the handler has not counted the error yet.
ManagerReturns(r) ==
    /\ npTask[r] \in {"manager", "error"}
    /\ Answers(r)
    /\ \/ /\ Processed
          /\ npHandled' = [npHandled EXCEPT !.errors = @ + IF npTask[r] = "error" THEN 1 ELSE 0]
       \/ Raised /\ UNCHANGED npHandled
    /\ UNCHANGED <<npHandler, npServer, npSite, npSet, npStarts, npHistory>>

NpNext ==
    \/ NpStart \/ Listens \/ NpStop \/ Stopped
    \/ \E r \in NpTasks :
           \/ Request(r) \/ BadRequest(r) \/ ManagerNotified(r) \/ OtherNotified(r)
           \/ ControlNotified(r) \/ Executed(r) \/ CalledBack(r) \/ ManagerReturns(r)

-----------------------------------------------------------------------------

\* Whatever is in flight when the server stops, every request that was received is processed,
\* an error, refused, being served, or was cut off by a stop; every request that reached the
\* handler is one that was neither refused nor unreadable.
RequestsAreCounted ==
    /\ npStats.received = npStats.processed + npStats.errors + npRefused
                          + Cardinality(Serving) + npCut.all
    /\ npHandled.handled >= npStats.processed

\* A control that was pushed is executed, over, cut off by a stop, in execution, or is
\* counted by the server as an error: a 204 alone says nothing of it.
ControlsAreAccounted ==
    /\ npHandled.controls = npControl.executed + npControl.failed + npControl.past
                            + npCut.controls + Cardinality({r \in Serving : npTask[r] = "execute"})
    /\ npControl.failed <= npStats.errors

\* Once the server has stopped nothing it received runs on.
NothingRunsOn == npServer = "stopped" => Serving = {}

PushSafe == RequestsAreCounted /\ ControlsAreAccounted /\ NothingRunsOn
=============================================================================
