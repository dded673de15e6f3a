----------------------------- MODULE WebControl -----------------------------
(***************************************************************************)
(* The control plane of the web interface: /api/start, /api/stop,          *)
(* /api/reload, /api/config/save and /api/config/apply act on the worker,  *)
(* the subscription manager and the notification endpoint, one after the   *)
(* other, in the threads of the web server.  What each of the three does is*)
(* in WorkerManager, SubscriptionSync and here.                            *)
(***************************************************************************)
EXTENDS Naturals

CONSTANTS
    WbThreads,      \* the threads of the web server
    WbSaves,        \* bound: how often the configuration is saved
    WbRequests      \* bound: requests

ASSUME WebAssumption == WbSaves \in Nat /\ WbRequests \in Nat

VARIABLES
    wbFile,         \* the configuration file: its version, what is in it and what it enables
    wbWorker,       \* the state of the worker, and the version it has read
    wbSubs,         \* the subscription manager: its version and what is subscribed
    wbNotify,       \* the notification endpoint
    wbReceived,     \* notifications_received
    wbAt,           \* for each thread the request, what it does next, and what it has read
    wbRequests,
    wbOrderly,      \* one request at a time, and no reload while the worker is starting
    wbReloaded,     \* History: nothing was saved since the program, or a reload that succeeded, began
    wbAccepted      \* History: notifications that were accepted

wbParts == <<wbWorker, wbSubs, wbNotify>>
wbHistory == <<wbRequests, wbOrderly, wbReloaded>>
wbCounts == <<wbReceived, wbAccepted>>
wbVars == <<wbFile, wbParts, wbCounts, wbAt, wbHistory>>

\* What RuntimeConfig reads is good.  A list or a string is not, but for the worker it is an
\* old file that says nothing, so that all is as by default; of a number, or of an empty
\* or missing file, nothing can be made.
Kinds == {"good", "defaults", "broken"}
Versions == 0..WbSaves
Configs == {c \in [kind : Kinds, version : Versions, subs : BOOLEAN, notify : BOOLEAN] :
                c.kind # "good" => ~c.subs /\ ~c.notify}
NoConfig == [kind |-> "broken", version |-> 0, subs |-> FALSE, notify |-> FALSE]
Free == [request |-> "none", step |-> "none", config |-> NoConfig, count |-> 0]

\* The state is STARTING until the client is made, which is after the file was read.
Beginning == {"starting", "read"}
WorkerStates == [state : Beginning \cup {"stopped", "running", "stopping", "error"},
                 version : Versions]

WbTypeOK ==
    /\ wbFile \in Configs
    /\ wbWorker \in WorkerStates
    /\ wbSubs \in [made : BOOLEAN, runs : BOOLEAN, config : Configs, subscribed : BOOLEAN]
    /\ wbNotify \in [runs : BOOLEAN, version : Versions]
    /\ wbReceived \in 0..WbRequests /\ wbAccepted \in 0..WbRequests /\ wbRequests \in 0..WbRequests
    /\ \A t \in WbThreads :
           /\ wbAt[t].request \in {"none", "start", "stop", "reload", "apply", "notify"}
           /\ wbAt[t].step \in {"none", "worker", "restart", "subs", "notify", "count"}
           /\ wbAt[t].config \in Configs /\ wbAt[t].count \in 0..WbRequests
    /\ wbOrderly \in BOOLEAN /\ wbReloaded \in BOOLEAN

\* get_notification_manager() reads the file when the routes are registered.
WbInit ==
    /\ wbFile \in {c \in Configs : c.version = 0}
    /\ wbWorker = [state |-> "stopped", version |-> 0]
    /\ wbSubs = [made |-> FALSE, runs |-> FALSE, config |-> NoConfig, subscribed |-> FALSE]
    /\ wbNotify = [runs |-> FALSE, version |-> 0]
    /\ wbReceived = 0 /\ wbAccepted = 0
    /\ wbAt = [t \in WbThreads |-> Free] /\ wbRequests = 0
    /\ wbOrderly \in BOOLEAN /\ wbReloaded = TRUE

Doing(t, requests, step) == wbAt[t].request \in requests /\ wbAt[t].step = step
Then(t, step) == wbAt' = [wbAt EXCEPT ![t].step = step]
Answer(t) == wbAt' = [wbAt EXCEPT ![t] = Free]

Comes(t) ==
    /\ wbAt[t].request = "none" /\ wbRequests < WbRequests
    /\ wbOrderly => \A u \in WbThreads : wbAt[u].request = "none"
    /\ wbRequests' = wbRequests + 1

-----------------------------------------------------------------------------

\* load_runtime_config(), in each of them first: what it cannot read is None.
LoadedConfig == IF wbFile.kind = "good" THEN wbFile ELSE NoConfig

\* A start, a stop or a reload, which is refused without a configuration.
Requested(t) ==
    /\ Comes(t)
    /\ \E request \in {"start", "stop", "reload"} :
        /\ wbOrderly /\ request = "reload" => wbWorker.state \notin Beginning
        /\ IF request = "reload" /\ wbFile.kind # "good" THEN UNCHANGED wbAt
           ELSE wbAt' = [wbAt EXCEPT ![t] = [Free EXCEPT !.request = request, !.step = "worker",
                                                         !.config = LoadedConfig]]
    /\ UNCHANGED <<wbFile, wbParts, wbCounts, wbOrderly, wbReloaded>>

\* Save writes the file and does no more; apply goes on to reload the worker.  Content that
\* is not valid is refused and changes nothing; what is not a mapping is taken for an empty
\* one when it is validated, and written as it is.
WbSaved(t) ==
    /\ Comes(t) /\ wbFile.version < WbSaves
    /\ wbFile' \in {c \in Configs : c.version = wbFile.version + 1}
    /\ wbReloaded' = FALSE
    /\ \/ UNCHANGED wbAt
       \/ wbAt' = [wbAt EXCEPT ![t] = [Free EXCEPT !.request = "apply", !.step = "worker"]]
    /\ UNCHANGED <<wbParts, wbCounts, wbOrderly>>

WorkerGoes(state) == wbWorker' = [wbWorker EXCEPT !.state = state]

\* WorkerManager.start(): also of one that failed, or that a stop did not get out of.
WorkerStarted ==
    IF wbWorker.state \in Beginning \cup {"running"} THEN UNCHANGED wbWorker
    ELSE WorkerGoes("starting")

\* Where stop() leaves a worker that is starting or runs; it may be lost on one that is starting.
StopLeaves == {"stopped"} \cup ({wbWorker.state} \cap Beginning)

\* stop() raises when the worker ends by itself at the same time, and the state, which may be
\* what the worker said last, stays; the request is over then.
StopRaises(t) == (\E state \in {"stopping", "error"} : WorkerGoes(state)) /\ Answer(t)

\* A start or a stop goes on to the subscriptions.  The worker is over in the time stop() gives
\* it (WorkerManager has the other case).  A reload stops a worker that runs, waits, and
\* starts it; one that is starting it leaves alone.
WorkerActed(t) ==
    /\ \/ Doing(t, {"start"}, "worker") /\ WorkerStarted /\ Then(t, "subs")
       \/ /\ Doing(t, {"stop"}, "worker")
          /\ IF wbWorker.state \in Beginning \cup {"running"}
             THEN \/ (\E state \in StopLeaves : WorkerGoes(state)) /\ Then(t, "subs")
                  \/ StopRaises(t)
             ELSE UNCHANGED wbWorker /\ Then(t, "subs")
       \/ /\ Doing(t, {"reload", "apply"}, "worker")
          /\ IF wbWorker.state = "running"
             THEN (WorkerGoes("stopped") /\ Then(t, "restart")) \/ StopRaises(t)
             ELSE /\ UNCHANGED wbWorker
                  /\ IF wbAt[t].request = "apply" THEN Answer(t) ELSE Then(t, "subs")
       \/ /\ Doing(t, {"reload", "apply"}, "restart")
          /\ WorkerStarted
          /\ IF wbAt[t].request = "apply" THEN Answer(t) ELSE Then(t, "subs")
    /\ UNCHANGED <<wbFile, wbSubs, wbNotify, wbCounts, wbHistory>>

\* The worker reads the file itself, in its thread.
WorkerReads ==
    /\ wbWorker.state = "starting" /\ wbFile.kind # "broken"
    /\ wbWorker' = [state |-> "read", version |-> wbFile.version]
    /\ UNCHANGED <<wbFile, wbSubs, wbNotify, wbCounts, wbAt, wbHistory>>

WorkerRuns ==
    /\ wbWorker.state = "read"
    /\ WorkerGoes("running")
    /\ UNCHANGED <<wbFile, wbSubs, wbNotify, wbCounts, wbAt, wbHistory>>

\* Without a file it can use, and when the client raises.
WorkerFails ==
    /\ wbWorker.state \in Beginning \cup {"running"}
    /\ WorkerGoes("error")
    /\ UNCHANGED <<wbFile, wbSubs, wbNotify, wbCounts, wbAt, wbHistory>>

\* get_subs_manager() makes the manager from the file when it is first needed, if it can.
Made == IF wbSubs.made \/ wbFile.kind # "good" THEN wbSubs
        ELSE [made |-> TRUE, runs |-> FALSE, config |-> wbFile, subscribed |-> FALSE]

\* The status of the manager is asked for by the dashboard, too.
StatusAsked ==
    /\ wbSubs' = Made
    /\ UNCHANGED <<wbFile, wbWorker, wbNotify, wbCounts, wbAt, wbHistory>>

\* start() subscribes what the manager's own configuration enables; stop() unsubscribes
\* nothing; reload() takes the configuration of the request and subscribes accordingly,
\* whether the manager runs or not.  Each runs in an event loop that is closed after it.
SubsActed(t) ==
    /\ \E request \in {"start", "stop", "reload"} : Doing(t, {request}, "subs")
    /\ wbSubs' = CASE ~Made.made -> wbSubs
                   [] Made.made /\ wbAt[t].request = "start" /\ wbAt[t].config.subs /\ ~Made.runs ->
                          [Made EXCEPT !.runs = TRUE,
                                       !.subscribed = Made.config.subs \/ Made.subscribed]
                   [] Made.made /\ wbAt[t].request = "stop" -> [Made EXCEPT !.runs = FALSE]
                   [] Made.made /\ wbAt[t].request = "reload" ->
                          [Made EXCEPT !.config = wbAt[t].config,
                                       !.subscribed = wbAt[t].config.subs]
                   [] OTHER -> Made
    /\ Then(t, "notify")
    /\ UNCHANGED <<wbFile, wbWorker, wbNotify, wbCounts, wbHistory>>

\* NotificationServerManager: start(), stop() and reload().  Then the request is answered; a
\* reload that comes here has succeeded.
NotifyActed(t) ==
    /\ \/ /\ Doing(t, {"start"}, "notify")
          /\ wbNotify' = [wbNotify EXCEPT !.runs = @ \/ wbAt[t].config.notify]
          /\ UNCHANGED wbReloaded
       \/ /\ Doing(t, {"stop"}, "notify")
          /\ wbNotify' = [wbNotify EXCEPT !.runs = FALSE]
          /\ UNCHANGED wbReloaded
       \/ /\ Doing(t, {"reload"}, "notify")
          /\ wbNotify' = [wbNotify EXCEPT !.version = wbAt[t].config.version]
          /\ wbReloaded' = (wbReloaded \/ wbAt[t].config = wbFile)
    /\ Answer(t)
    /\ UNCHANGED <<wbFile, wbWorker, wbSubs, wbCounts, wbRequests, wbOrderly>>

-----------------------------------------------------------------------------

\* POST /notify: refused when the endpoint does not run, and when nothing in it can be read.
Notification(t) ==
    /\ Comes(t)
    /\ \/ UNCHANGED <<wbAt, wbAccepted>>
       \/ /\ wbNotify.runs
          /\ wbAccepted' = wbAccepted + 1
          /\ wbAt' = [wbAt EXCEPT ![t] = [Free EXCEPT !.request = "notify", !.step = "count",
                                                      !.count = wbReceived]]
    /\ UNCHANGED <<wbFile, wbParts, wbReceived, wbOrderly, wbReloaded>>

\* += reads before and writes after another thread may have run.
Counted(t) ==
    /\ Doing(t, {"notify"}, "count")
    /\ wbReceived' = wbAt[t].count + 1
    /\ Answer(t)
    /\ UNCHANGED <<wbFile, wbParts, wbAccepted, wbHistory>>

WbNext ==
    \/ \E t \in WbThreads :
           \/ Requested(t) \/ WbSaved(t) \/ WorkerActed(t) \/ SubsActed(t) \/ NotifyActed(t)
           \/ Notification(t) \/ Counted(t)
    \/ WorkerReads \/ WorkerRuns \/ WorkerFails \/ StatusAsked

-----------------------------------------------------------------------------

WbIdle == \A t \in WbThreads : wbAt[t].request = "none"

\* When requests come one at a time, and no reload while the worker is starting, a reload that
\* succeeds leaves no part with an older configuration than the file, whatever was saved,
\* applied, started and stopped before it, failed or raised, and until the next save; what is
\* subscribed is then what the file says.  Two reloads at a time may leave the older one's
\* configuration, and a reload while the worker is starting does not reach it.
ReloadReachesAll ==
    wbOrderly /\ WbIdle /\ wbReloaded =>
        /\ wbWorker.state \in {"read", "running"} => wbWorker.version = wbFile.version
        /\ wbSubs.made => /\ wbSubs.config = wbFile
                          /\ wbSubs.runs => wbSubs.subscribed = wbFile.subs
        /\ wbNotify.version = wbFile.version

\* One at a time no accepted notification is left out of the count.
AllCounted == wbOrderly /\ WbIdle => wbReceived = wbAccepted

WebSafe == ReloadReachesAll /\ AllCounted
=============================================================================
