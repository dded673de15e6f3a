-------------------------- MODULE SubscriptionChain -------------------------
(***************************************************************************)
(* The push mode of the client: SubscriptionManager of subscription/       *)
(* subscribes the list of function set assignments, the programs of each   *)
(* and their controls; NotificationServer hands every notification to      *)
(* NotificationHandler in a task of its own, and these tasks change the    *)
(* same subscriptions.  The renewal loop, which the client never starts,   *)
(* is left out.  A program has one control list, which stands for its      *)
(* default control too: the two are subscribed and dropped together.  The  *)
(* server names the subscriptions it creates.                              *)
(***************************************************************************)
EXTENDS Naturals, Sequences, FiniteSets

CONSTANTS
    ChFsas,     \* the assignments the server may have, each with one program
    ChNames,    \* bound: the names it can give to subscriptions of one resource
    ChTasks,    \* bound: notifications that are handled at a time
    ChEvents,   \* bound: reassignments, notified changes and ended subscriptions
    Main        \* the task of setup and cleanup

\* What stands for the href of a subscription whose answer had no Location.
Unnamed == "unnamed"

ASSUME ChainAssumption == Main \notin ChTasks /\ ChEvents \in Nat /\ Unnamed \notin ChNames

VARIABLES
    chList,     \* the assignments the server lists
    chTracked,  \* _subscriptions: for each resource its name, if there is one
    chFsa,      \* _tracked_fsa
    chPrograms, \* _tracked_programs, each named for its assignment
    chJob,      \* what each task has still to do, the await it stands at first
    chPhase,
    chServer,   \* the subscriptions on the server
    chLost,     \* those whose POST was not answered, or without Location, or whose DELETE failed
    chErrors,   \* notifications on their way that a subscription is no more
    chEvents,   \* the events still to come
    chOrderly   \* one task at a time, and cancellations are told before anything else

chManager == <<chTracked, chFsa, chPrograms>>
chRemote == <<chServer, chLost, chErrors>>
chRules == <<chEvents, chOrderly>>
chVars == <<chList, chManager, chJob, chPhase, chRemote, chRules>>

ChWorkers == ChTasks \cup {Main}
FsaList == <<"fsa">>
ProgramList(f) == <<"derp", f>>
ControlList(f) == <<"derc", f>>
Paths == {FsaList} \cup {ProgramList(f) : f \in ChFsas} \cup {ControlList(f) : f \in ChFsas}

\* The steps of jobs: what is done, and what it is about.
ChSteps ==
    ({"subscribe", "post", "unsubscribe"} \X Paths) \cup ({"delete"} \X (Paths \X ChNames))
    \cup ({"list"} \X {"setup", "program", "fsa"})
    \cup ({"track", "programs", "gone", "each"} \X ChFsas) \cup ({"listed"} \X (SUBSET ChFsas))
    \cup ({"left"} \X (ChFsas \X (SUBSET ChFsas) \X (SUBSET ChFsas)))
    \cup ({"for"} \X ({"setup", "program", "removed", "added"} \X (SUBSET ChFsas)))
    \cup ({"for"} \X ({"cleanup"} \X (SUBSET Paths)))

ChTypeOK ==
    /\ chList \subseteq ChFsas /\ chFsa \subseteq ChFsas /\ chPrograms \subseteq ChFsas
    /\ chTracked \in [Paths -> {{}} \cup {{n} : n \in ChNames \cup {Unnamed}}]
    /\ chJob \in [ChWorkers -> Seq(ChSteps)]
    /\ chPhase \in {"new", "setup", "up", "cleanup", "down"}
    /\ chServer \in [Paths -> SUBSET ChNames] /\ chLost \in [Paths -> SUBSET ChNames]
    /\ chErrors \subseteq Paths /\ chEvents \in 0..ChEvents /\ chOrderly \in BOOLEAN

ChInit ==
    /\ chList = ChFsas /\ chFsa = {} /\ chPrograms = {}
    /\ chTracked = [p \in Paths |-> {}]
    /\ chJob = [t \in ChWorkers |-> << >>] /\ chPhase = "new"
    /\ chServer = [p \in Paths |-> {}] /\ chLost = [p \in Paths |-> {}]
    /\ chErrors = {} /\ chEvents \in 0..ChEvents /\ chOrderly \in BOOLEAN

\* Steps of a job.  Those on which the server is asked are awaits; at any other the task
\* has the event loop.
Do(op, on) == <<op, on>>
Awaits == {"post", "delete", "list", "programs"}
ChMayRun(t) == \A u \in ChWorkers \ {t} : chJob[u] # << >> => Head(chJob[u])[1] \in Awaits
At(t, op) == IF chJob[t] = << >> THEN FALSE ELSE Head(chJob[t])[1] = op /\ ChMayRun(t)
On(t) == Head(chJob[t])[2]
Instead(t, steps) == chJob' = [chJob EXCEPT ![t] = steps \o Tail(@)]
Raise(t) == chJob' = [chJob EXCEPT ![t] = << >>]

\* The body of a loop over assignments, or over paths, named for where it is.
ChBody(loop, f) ==
    CASE loop = "setup" -> <<Do("track", f), Do("subscribe", ProgramList(f)), Do("programs", f)>>
      [] loop = "program" -> <<Do("programs", f)>>
      [] loop = "removed" -> <<Do("gone", f)>>
      [] loop = "added" -> <<Do("track", f), Do("programs", f)>>
      [] loop = "cleanup" -> <<Do("unsubscribe", f)>>
ForEach(loop, S) == Do("for", <<loop, S>>)

\* Bound: one request whose effect and answer differ.
MayLose == \A p \in Paths : chLost[p] = {}

ChIdle == \A t \in ChWorkers : chJob[t] = << >>
ChFree(t) == chJob[t] = << >> /\ IF chOrderly THEN ChIdle ELSE ChMayRun(t)

-----------------------------------------------------------------------------
(***************************************************************************)
(* _subscribe() and _unsubscribe().                                        *)
(***************************************************************************)
Subscribe(t) ==
    /\ At(t, "subscribe")
    /\ Instead(t, IF chTracked[On(t)] # {} THEN << >> ELSE <<Do("post", On(t))>>)
    /\ UNCHANGED <<chList, chManager, chPhase, chRemote, chRules>>

\* The entry is made when the POST is answered, whatever was entered meanwhile, and without
\* a href when the answer has no Location.
SubscribeAnswered(t) ==
    LET p == On(t) IN
    /\ At(t, "post")
    /\ \/ \E n \in ChNames \ (chServer[p] \cup chTracked[p] \cup chLost[p]) :
              /\ chServer' = [chServer EXCEPT ![p] = @ \cup {n}]
              /\ \/ chTracked' = [chTracked EXCEPT ![p] = {n}] /\ UNCHANGED chLost
                 \/ /\ MayLose /\ chLost' = [chLost EXCEPT ![p] = @ \cup {n}]
                    /\ \/ UNCHANGED chTracked
                       \/ chTracked' = [chTracked EXCEPT ![p] = {Unnamed}]
       \/ UNCHANGED <<chTracked, chServer, chLost>>
    /\ Instead(t, << >>)
    /\ UNCHANGED <<chList, chFsa, chPrograms, chPhase, chErrors, chRules>>

\* Only what has a href is deleted on the server.
Unsubscribe(t) ==
    /\ At(t, "unsubscribe")
    /\ \/ /\ chTracked[On(t)] \subseteq {Unnamed} /\ Instead(t, << >>)
          /\ chTracked' = [chTracked EXCEPT ![On(t)] = {}]
       \/ \E n \in chTracked[On(t)] \ {Unnamed} :
              Instead(t, <<Do("delete", <<On(t), n>>)>>) /\ UNCHANGED chTracked
    /\ UNCHANGED <<chList, chFsa, chPrograms, chPhase, chRemote, chRules>>

\* A failed DELETE is only logged; the entry goes, and when it has gone already "del" raises.
UnsubscribeAnswered(t) ==
    LET p == On(t)[1]
        n == On(t)[2]
    IN  /\ At(t, "delete")
        /\ \/ chServer' = [chServer EXCEPT ![p] = @ \ {n}] /\ UNCHANGED chLost
           \/ MayLose /\ chLost' = [chLost EXCEPT ![p] = @ \cup (chServer[p] \cap {n})] /\ UNCHANGED chServer
        /\ IF chTracked[p] = {} THEN Raise(t) ELSE Instead(t, << >>)
        /\ chTracked' = [chTracked EXCEPT ![p] = {}]
        /\ UNCHANGED <<chList, chFsa, chPrograms, chPhase, chErrors, chRules>>

-----------------------------------------------------------------------------
(***************************************************************************)
(* setup_subscriptions(), handle_fsa_change() and the notification of a    *)
(* changed program: they begin with the GET of the list.                   *)
(***************************************************************************)
\* Nothing is done with an empty list, even when every assignment has gone.
ListSteps(t) ==
    CASE chList = {} -> << >>
      [] chList # {} /\ On(t) = "fsa" ->
             <<ForEach("removed", chFsa \ chList), ForEach("added", chList \ chFsa),
               Do("listed", chList)>>
      [] OTHER -> <<ForEach(On(t), chList)>>

ListAnswered(t) ==
    /\ At(t, "list")
    /\ Instead(t, ListSteps(t)) \/ Instead(t, << >>)
    /\ UNCHANGED <<chList, chManager, chPhase, chRemote, chRules>>

\* A loop goes on with any of those that are left: the lists and sets have no order here.
ForNext(t) ==
    LET loop == On(t)[1]
        left == On(t)[2]
    IN  /\ At(t, "for")
        /\ \/ left = {} /\ Instead(t, << >>)
           \/ \E f \in left : Instead(t, ChBody(loop, f) \o <<ForEach(loop, left \ {f})>>)
        /\ UNCHANGED <<chList, chManager, chPhase, chRemote, chRules>>

\* _setup_control_subscriptions().
ProgramsAnswered(t) ==
    /\ At(t, "programs")
    /\ \/ /\ chPrograms' = chPrograms \cup {On(t)}
          /\ Instead(t, <<Do("subscribe", ControlList(On(t)))>>)
       \/ Instead(t, << >>) /\ UNCHANGED chPrograms
    /\ UNCHANGED <<chList, chTracked, chFsa, chPhase, chRemote, chRules>>

\* _handle_fsa_removed(): the programs of all assignments go, and adding or removing one
\* during the iteration raises.
FsaGone(t) ==
    /\ At(t, "gone")
    /\ Instead(t, IF On(t) \in chFsa
                  THEN <<Do("unsubscribe", ProgramList(On(t))), Do("each", On(t))>> ELSE << >>)
    /\ UNCHANGED <<chList, chManager, chPhase, chRemote, chRules>>

EachBegins(t) ==
    /\ At(t, "each")
    /\ Instead(t, <<Do("left", <<On(t), chPrograms, chPrograms>>)>>)
    /\ UNCHANGED <<chList, chManager, chPhase, chRemote, chRules>>

EachNext(t) ==
    LET f == On(t)[1]
        left == On(t)[2]
        all == On(t)[3]
    IN  /\ At(t, "left")
        /\ IF Cardinality(chPrograms) # Cardinality(all)
           THEN Raise(t) /\ UNCHANGED <<chFsa, chPrograms>>
           ELSE IF left = {}
           THEN /\ chPrograms' = chPrograms \ all
                /\ chFsa' = chFsa \ {f}
                /\ IF f \in chFsa THEN Instead(t, << >>) ELSE Raise(t)
           ELSE \E g \in left :
                /\ Instead(t, <<Do("unsubscribe", ControlList(g)), Do("left", <<f, left \ {g}, all>>)>>)
                /\ UNCHANGED <<chFsa, chPrograms>>
        /\ UNCHANGED <<chList, chTracked, chPhase, chRemote, chRules>>

Bookkept(t) ==
    /\ At(t, "track") \/ At(t, "listed")
    /\ chFsa' = IF At(t, "track") THEN chFsa \cup {On(t)} ELSE On(t)
    /\ Instead(t, << >>)
    /\ UNCHANGED <<chList, chTracked, chPrograms, chPhase, chRemote, chRules>>

-----------------------------------------------------------------------------
BeginJob(t, steps) == chJob' = [chJob EXCEPT ![t] = steps]

ChSetup ==
    /\ chPhase = "new" /\ chPhase' = "setup"
    /\ BeginJob(Main, <<Do("subscribe", FsaList), Do("list", "setup")>>)
    /\ UNCHANGED <<chList, chManager, chRemote, chRules>>

ChSetupDone ==
    /\ chPhase = "setup" /\ chJob[Main] = << >> /\ chPhase' = "up"
    /\ UNCHANGED <<chList, chManager, chJob, chRemote, chRules>>

\* cleanup(), of the subscriptions there are at its beginning.
ChCleanup ==
    /\ chPhase = "up" /\ ChFree(Main) /\ chPhase' = "cleanup"
    /\ BeginJob(Main, <<ForEach("cleanup", {p \in Paths : chTracked[p] # {}})>>)
    /\ UNCHANGED <<chList, chManager, chRemote, chRules>>

\* Only then the server is stopped.
ChCleanupDone ==
    /\ chPhase = "cleanup" /\ chJob[Main] = << >> /\ chPhase' = "down"
    /\ chFsa' = {} /\ chPrograms' = {}
    /\ UNCHANGED <<chList, chTracked, chJob, chRemote, chRules>>

Event == chEvents > 0 /\ chEvents' = chEvents - 1

\* handle_notification(): by the status, then by the resource.
Notified(t) ==
    /\ chPhase \in {"setup", "up", "cleanup"} /\ ChFree(t)
    /\ chOrderly => chPhase = "up"
    /\ \/ \E p \in chErrors :
              /\ chErrors' = chErrors \ {p}
              /\ chTracked' = [chTracked EXCEPT ![p] = {}]
              /\ BeginJob(t, <<Do("subscribe", p)>>)
              /\ UNCHANGED chEvents
       \/ /\ chOrderly => chErrors = {}
          /\ \E about \in {"fsa", "program"} : BeginJob(t, <<Do("list", about)>>)
          /\ Event
          /\ UNCHANGED <<chErrors, chTracked>>
    /\ UNCHANGED <<chList, chFsa, chPrograms, chPhase, chServer, chLost, chOrderly>>

\* The server assigns the device anew, or ends a subscription and says so.
Reassigned ==
    /\ chPhase = "up" /\ Event
    /\ \E l \in SUBSET ChFsas : chList' = l
    /\ UNCHANGED <<chManager, chJob, chPhase, chRemote, chOrderly>>

ServerEnds ==
    /\ chPhase = "up" /\ (chOrderly => ChIdle)
    /\ chErrors = {} /\ Event
    /\ \E p \in Paths, n \in ChNames :
           /\ n \in chServer[p] /\ chTracked[p] \cap {n, Unnamed} # {}
           /\ chServer' = [chServer EXCEPT ![p] = @ \ {n}]
           /\ chErrors' = chErrors \cup {p}
    /\ UNCHANGED <<chList, chManager, chJob, chPhase, chLost, chOrderly>>

ChStep(t) ==
    \/ Subscribe(t) \/ SubscribeAnswered(t) \/ Unsubscribe(t) \/ UnsubscribeAnswered(t)
    \/ ListAnswered(t) \/ ForNext(t) \/ ProgramsAnswered(t)
    \/ FsaGone(t) \/ EachBegins(t) \/ EachNext(t) \/ Bookkept(t)

ChNext ==
    \/ ChSetup \/ ChSetupDone \/ ChCleanup \/ ChCleanupDone
    \/ \E t \in ChWorkers : ChStep(t)
    \/ \E t \in ChTasks : Notified(t)
    \/ Reassigned \/ ServerEnds

-----------------------------------------------------------------------------

\* When notifications are handled one at a time and in order, every subscription on the server is
\* tracked by its href or is one whose POST was not answered, or without Location, or whose
\* DELETE failed, through reassignments and cancelled subscriptions; after cleanup() none is
\* tracked.
ChainSafe ==
    chOrderly => /\ \A p \in Paths : chServer[p] \subseteq chLost[p] \cup chTracked[p]
                 /\ chPhase = "down" => \A p \in Paths : chTracked[p] = {}
=============================================================================
