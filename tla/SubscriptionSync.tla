-------------------------- MODULE SubscriptionSync --------------------------
(***************************************************************************)
(* SubscriptionManager of subs/manager.py: it keeps the subscriptions of   *)
(* the configuration on the server, by POST and DELETE, and renews them by *)
(* deleting and creating them again.  Its caller and its renewal loop are  *)
(* coroutines that interleave at their requests.  Simulation mode, the one *)
(* of the web interface, is the case of a server that always answers.      *)
(***************************************************************************)
EXTENDS Naturals, FiniteSets

CONSTANTS
    SbIds,      \* the subscriptions a configuration may have
    Hrefs,      \* bound: the names the server can give
    NoHref

ASSUME SbAssumption == NoHref \notin Hrefs /\ SbIds # {}

VARIABLES
    sbWanted,   \* what the configuration says of each subscription
    sbState,    \* TrackedSubscription.state, or "absent"
    sbHref,     \* its subscription_href
    sbDue,      \* its next_renewal_at has come
    sbRunning,  \* _running
    sbCall,     \* where the caller stands, and on what
    sbRenew,    \* where the renewal loop stands, and on what
    sbServer,   \* the subscriptions of the server for each resource
    sbLost,     \* those whose POST was not answered or whose DELETE failed
    sbOrderly   \* calls and renewals do not overlap, but for stop()

trackedSubs == <<sbState, sbHref, sbDue>>
sbRemote == <<sbServer, sbLost>>
sbVars == <<sbWanted, trackedSubs, sbRunning, sbCall, sbRenew, sbRemote, sbOrderly>>

SubscriptionStates == {"disabled", "pending", "active", "renewing", "deleting", "failed"}
Settings == {"absent", "off", "on"}
Names == Hrefs \cup {NoHref}

\* name is the name a DELETE is about; then is what the caller does with those left; the
\* object that the loop renews may no longer be the one in the table (orphan).
Call == [at : {"idle", "next", "create", "delete"}, on : SbIds, name : Names,
         left : SUBSET SbIds, then : {"one", "enable", "remove", "reconcile"}]
Renewal == [at : {"none", "sleep", "next", "delete", "create"}, on : SbIds, name : Names,
            left : SUBSET SbIds, orphan : BOOLEAN]

SbTypeOK ==
    /\ sbWanted \in [SbIds -> Settings]
    /\ sbState \in [SbIds -> SubscriptionStates \cup {"absent"}]
    /\ sbHref \in [SbIds -> Names] /\ sbDue \in [SbIds -> BOOLEAN]
    /\ sbRunning \in BOOLEAN /\ sbOrderly \in BOOLEAN
    /\ sbCall \in Call /\ sbRenew \in Renewal
    /\ sbServer \in [SbIds -> SUBSET Hrefs] /\ sbLost \subseteq Hrefs

SomeId == CHOOSE s \in SbIds : TRUE

SbInit ==
    /\ sbWanted = [s \in SbIds |-> "on"]
    /\ sbState = [s \in SbIds |-> "disabled"]
    /\ sbHref = [s \in SbIds |-> NoHref] /\ sbDue = [s \in SbIds |-> FALSE]
    /\ sbRunning = FALSE /\ sbOrderly \in BOOLEAN
    /\ sbCall = [at |-> "idle", on |-> SomeId, name |-> NoHref, left |-> {}, then |-> "one"]
    /\ sbRenew = [at |-> "none", on |-> SomeId, name |-> NoHref, left |-> {}, orphan |-> FALSE]
    /\ sbServer = [s \in SbIds |-> {}] /\ sbLost = {}

Renewing == sbRenew.at \in {"delete", "create"}
SbFree == sbCall.at = "idle" /\ (sbOrderly => ~Renewing)
TrackedIds == {s \in SbIds : sbState[s] # "absent"}
Fresh == Hrefs \ ((UNION {sbServer[s] : s \in SbIds}) \cup {sbHref[s] : s \in SbIds} \cup sbLost)

-----------------------------------------------------------------------------
(***************************************************************************)
(* The requests.  A POST that arrives may go without an answer, or without *)
(* a name in it; a DELETE may or may not arrive.                           *)
(***************************************************************************)
\* _create_subscription(): ok and name are what it makes of the answer.
Posted(s, ok, name) ==
    \/ \E h \in Fresh :
           /\ sbServer' = [sbServer EXCEPT ![s] = @ \cup {h}]
           /\ \/ ok /\ name = h /\ UNCHANGED sbLost
              \/ name = NoHref /\ sbLost' = sbLost \cup {h}
    \/ ~ok /\ name = NoHref /\ UNCHANGED sbRemote

\* _delete_subscription() of the name h: a failure is only logged.
Deleted(s, h) ==
    \/ sbServer' = [sbServer EXCEPT ![s] = @ \ {h}] /\ sbLost' = sbLost \ {h}
    \/ UNCHANGED sbServer /\ sbLost' = sbLost \cup (sbServer[s] \cap {h})

\* What disable() leaves of a subscription, and the removal of reload().
Cleared(s, state) ==
    /\ sbState' = [sbState EXCEPT ![s] = state]
    /\ sbHref' = [sbHref EXCEPT ![s] = NoHref] /\ sbDue' = [sbDue EXCEPT ![s] = FALSE]
    /\ sbRenew' = [sbRenew EXCEPT !.orphan = @ \/ (state = "absent" /\ Renewing /\ sbRenew.on = s)]

\* enable() and disable() of s up to the request; without one the caller goes on with rest.
Enable(s, rest) ==
    IF sbState[s] = "active"
    THEN sbCall' = rest /\ UNCHANGED <<trackedSubs, sbRenew>>
    ELSE /\ sbState' = [sbState EXCEPT ![s] = "pending"]
         /\ sbCall' = [rest EXCEPT !.at = "create", !.on = s]
         /\ UNCHANGED <<sbHref, sbDue, sbRenew>>

Disable(s, rest) ==
    LET after == IF rest.then = "remove" THEN "absent" ELSE "disabled"
    IN  IF sbState[s] = "disabled" \/ sbHref[s] = NoHref
        THEN sbCall' = rest /\ Cleared(s, after)
        ELSE /\ sbState' = [sbState EXCEPT ![s] = "deleting"]
             /\ sbCall' = [rest EXCEPT !.at = "delete", !.on = s, !.name = sbHref[s]]
             /\ UNCHANGED <<sbHref, sbDue, sbRenew>>

SbEnable ==
    /\ SbFree /\ \E s \in TrackedIds : Enable(s, [sbCall EXCEPT !.then = "one"])
    /\ UNCHANGED <<sbWanted, sbRunning, sbRemote, sbOrderly>>

SbDisable ==
    /\ SbFree /\ \E s \in TrackedIds : Disable(s, [sbCall EXCEPT !.then = "one"])
    /\ UNCHANGED <<sbWanted, sbRunning, sbRemote, sbOrderly>>

Onwards == [sbCall EXCEPT !.at = IF sbCall.then = "one" THEN "idle" ELSE "next", !.name = NoHref]

Created ==
    /\ sbCall.at = "create"
    /\ \E ok \in BOOLEAN, name \in Names :
           /\ Posted(sbCall.on, ok, name)
           /\ sbState' = [sbState EXCEPT ![sbCall.on] = IF ok THEN "active" ELSE "failed"]
           /\ sbHref' = [sbHref EXCEPT ![sbCall.on] = IF ok THEN name ELSE @]
           /\ sbDue' = [sbDue EXCEPT ![sbCall.on] = ~ok /\ @]
    /\ sbCall' = Onwards
    /\ UNCHANGED <<sbWanted, sbRunning, sbRenew, sbOrderly>>

DeleteReturned ==
    /\ sbCall.at = "delete"
    /\ Deleted(sbCall.on, sbCall.name)
    /\ Cleared(sbCall.on, IF sbCall.then = "remove" THEN "absent" ELSE "disabled")
    /\ sbCall' = Onwards
    /\ UNCHANGED <<sbWanted, sbRunning, sbOrderly>>

-----------------------------------------------------------------------------
(***************************************************************************)
(* start(), stop(), reload() and on_reconnect().                           *)
(***************************************************************************)
SbStart ==
    /\ SbFree /\ ~sbRunning
    /\ sbRunning' = TRUE
    /\ sbCall' = [sbCall EXCEPT !.at = "next", !.then = "enable",
                                !.left = {s \in TrackedIds : sbWanted[s] = "on"}]
    /\ UNCHANGED <<sbWanted, trackedSubs, sbRenew, sbRemote, sbOrderly>>

\* What has left the configuration is disabled and removed first.
SbReload ==
    /\ SbFree
    /\ \E w \in [SbIds -> Settings] :
           /\ sbWanted' = w
           /\ sbCall' = [sbCall EXCEPT !.at = "next", !.then = "remove",
                                       !.left = {s \in TrackedIds : w[s] = "absent"}]
    /\ UNCHANGED <<trackedSubs, sbRunning, sbRenew, sbRemote, sbOrderly>>

NextOne(s) ==
    LET rest == [sbCall EXCEPT !.left = @ \ {s}]
    IN  CASE sbCall.then = "enable" -> Enable(s, rest)
          [] sbCall.then = "remove" -> Disable(s, rest)
          [] sbCall.then = "reconcile" /\ sbWanted[s] = "on" /\ sbState[s] # "active" -> Enable(s, rest)
          [] sbCall.then = "reconcile" /\ sbWanted[s] = "off" /\ sbState[s] = "active" -> Disable(s, rest)
          [] OTHER -> sbCall' = rest /\ UNCHANGED <<trackedSubs, sbRenew>>

\* After the removals the new ones are added and all are reconciled; after start() the
\* renewal loop is created.
LoopOver ==
    CASE sbCall.then = "remove" ->
            /\ sbState' = [s \in SbIds |-> IF sbState[s] = "absent" /\ sbWanted[s] # "absent"
                                           THEN "disabled" ELSE sbState[s]]
            /\ sbCall' = [sbCall EXCEPT !.then = "reconcile",
                                        !.left = {s \in SbIds : sbWanted[s] # "absent"}]
            /\ UNCHANGED <<sbHref, sbDue, sbRenew>>
      [] OTHER ->
            /\ sbCall' = [sbCall EXCEPT !.at = "idle"]
            /\ sbRenew' = IF sbCall.then = "enable" THEN [sbRenew EXCEPT !.at = "sleep"] ELSE sbRenew
            /\ UNCHANGED trackedSubs

SbContinue ==
    /\ sbCall.at = "next"
    /\ \/ \E s \in sbCall.left : NextOne(s)
       \/ sbCall.left = {} /\ LoopOver
    /\ UNCHANGED <<sbWanted, sbRunning, sbRemote, sbOrderly>>

\* stop(): the loop is cancelled in the middle of a request; the subscriptions stay.
SbStop ==
    /\ sbCall.at = "idle" /\ sbRunning
    /\ sbRunning' = FALSE
    /\ sbRenew' = [sbRenew EXCEPT !.at = "none", !.name = NoHref, !.left = {}, !.orphan = FALSE]
    /\ CASE sbRenew.at = "delete" -> Deleted(sbRenew.on, sbRenew.name)
         [] sbRenew.at = "create" -> Posted(sbRenew.on, FALSE, NoHref)
         [] OTHER -> UNCHANGED sbRemote
    /\ UNCHANGED <<sbWanted, trackedSubs, sbCall, sbOrderly>>

\* on_reconnect(), or the time of a renewal has come.
RenewalDue ==
    /\ \E s \in SbIds : sbState[s] = "active" /\ sbDue' = [sbDue EXCEPT ![s] = TRUE]
    /\ UNCHANGED <<sbWanted, sbState, sbHref, sbRunning, sbCall, sbRenew, sbRemote, sbOrderly>>

-----------------------------------------------------------------------------
(***************************************************************************)
(* _renewal_loop().                                                        *)
(***************************************************************************)
RnWakes ==
    /\ sbRenew.at = "sleep" /\ (sbOrderly => sbCall.at = "idle")
    /\ sbRenew' = [sbRenew EXCEPT !.at = "next", !.left = TrackedIds]
    /\ UNCHANGED <<sbWanted, trackedSubs, sbRunning, sbCall, sbRemote, sbOrderly>>

\* Iterating over a table that was changed raises, and the loop sleeps.
RnChanged == sbRenew.left # {} /\ ~(sbRenew.left \subseteq TrackedIds)

\* Mutant: the old subscription is not deleted.
RnNextKeeping ==
    /\ sbRenew.at = "next" /\ (sbOrderly => sbCall.at = "idle")
    /\ \/ /\ sbRenew.left = {} \/ RnChanged
          /\ sbRenew' = [sbRenew EXCEPT !.at = "sleep", !.left = {}]
          /\ UNCHANGED sbState
       \/ \E s \in sbRenew.left :
              LET rest == [sbRenew EXCEPT !.left = @ \ {s}]
              IN  IF ~(sbState[s] = "active" /\ sbDue[s])
                  THEN sbRenew' = rest /\ UNCHANGED sbState
                  ELSE /\ sbState' = [sbState EXCEPT ![s] = "renewing"]
                       /\ sbRenew' = [rest EXCEPT !.on = s, !.name = sbHref[s], !.at = "create"]
    /\ UNCHANGED <<sbWanted, sbHref, sbDue, sbRunning, sbCall, sbRemote, sbOrderly>>

RnNext ==
    /\ sbRenew.at = "next" /\ (sbOrderly => sbCall.at = "idle")
    /\ \/ /\ sbRenew.left = {} \/ RnChanged
          /\ sbRenew' = [sbRenew EXCEPT !.at = "sleep", !.left = {}]
          /\ UNCHANGED sbState
       \/ /\ ~RnChanged
          /\ \E s \in sbRenew.left :
              LET rest == [sbRenew EXCEPT !.left = @ \ {s}]
              IN  IF ~(sbState[s] = "active" /\ sbDue[s])
                  THEN sbRenew' = rest /\ UNCHANGED sbState
                  ELSE /\ sbState' = [sbState EXCEPT ![s] = "renewing"]
                       /\ sbRenew' = [rest EXCEPT !.on = s, !.name = sbHref[s],
                                          !.at = IF sbHref[s] = NoHref THEN "create" ELSE "delete"]
    /\ UNCHANGED <<sbWanted, sbHref, sbDue, sbRunning, sbCall, sbRemote, sbOrderly>>

\* Whatever becomes of the DELETE, the new one is created.
RnDeleted ==
    /\ sbRenew.at = "delete"
    /\ Deleted(sbRenew.on, sbRenew.name)
    /\ sbRenew' = [sbRenew EXCEPT !.at = "create", !.name = NoHref]
    /\ UNCHANGED <<sbWanted, trackedSubs, sbRunning, sbCall, sbOrderly>>

\* The answer goes to the object that was renewed, in the table or not.
RnCreated ==
    LET s == sbRenew.on
    IN  /\ sbRenew.at = "create"
        /\ \E ok \in BOOLEAN, name \in Names :
               /\ Posted(s, ok, name)
               /\ IF sbRenew.orphan THEN UNCHANGED trackedSubs
                  ELSE /\ sbState' = [sbState EXCEPT ![s] = IF ok THEN "active" ELSE "failed"]
                       /\ sbHref' = [sbHref EXCEPT ![s] = IF ok THEN name ELSE @]
                       /\ sbDue' = [sbDue EXCEPT ![s] = ~ok /\ @]
        /\ sbRenew' = [sbRenew EXCEPT !.at = "next", !.name = NoHref, !.orphan = FALSE]
        /\ UNCHANGED <<sbWanted, sbRunning, sbCall, sbOrderly>>

SbNext ==
    \/ SbEnable \/ SbDisable \/ Created \/ DeleteReturned
    \/ SbStart \/ SbReload \/ SbContinue \/ SbStop \/ RenewalDue
    \/ RnWakes \/ RnNext \/ RnDeleted \/ RnCreated

\* Requests end, and the coroutines go on.
SbFairness ==
    /\ WF_sbVars(Created \/ DeleteReturned \/ SbContinue)
    /\ WF_sbVars(RnWakes) /\ WF_sbVars(RnNext) /\ WF_sbVars(RnDeleted \/ RnCreated)

-----------------------------------------------------------------------------

\* When the calls do not overlap with renewals, every subscription on the server is known
\* to the manager or is one whose POST was not answered or whose DELETE failed: neither
\* reload, nor renewals of which a step fails, nor a stop in the middle of one forget any.
NothingForgotten ==
    sbOrderly => \A s \in SbIds : sbServer[s] \subseteq sbLost \cup {sbHref[s]}

\* A subscription that is said to be active without being renewed is on the server.
ActiveIsThere ==
    sbOrderly => \A s \in SbIds :
        sbState[s] = "active" /\ sbHref[s] # NoHref => sbHref[s] \in sbServer[s]

\* What the manager says of its subscriptions agrees with the server.
SubsSafe == NothingForgotten /\ ActiveIsThere
=============================================================================
