--------------------------- MODULE Device_proofs ----------------------------
(***************************************************************************)
(* What goes to and comes from the device: for any registers, threads,     *)
(* faults, thresholds and numbers of cycles a worker polls and writes what *)
(* it was told to, the health of the connection is true, no cycle is lost  *)
(* that a save wrote to both files, and the external program gets its      *)
(* commands.                                                               *)
(***************************************************************************)
EXTENDS PollingWorker, PolledTarget, RegisterWriters, DataCollector, CycleTracking,
        ExternalApi, Integers, SequenceTheorems, TLAPS

-----------------------------------------------------------------------------
(***************************************************************************)
(* The polling worker.                                                     *)
(***************************************************************************)
PwBehaviour == PwInit /\ [][PwNext]_pwVars

\* Whose loop and event there is is a thread that has not ended.
PwEventIsLive == pwEvent # NoPoller => pwEvent \in PwLive

\* A thread asks only for targets that there are.
PwAtTarget == \A t \in PwThreads : pwPc[t] = "request" => pwAt[t] <= Len(PwTargets)

\* In orderly surroundings there is one thread at a time, the one that start() made last, and
\* where it is follows from the state and from where the call is.
PwUp == {"loop", "poll", "request"}
PwOpen == {"looped", "loop", "poll", "request", "closing", "final"}
PwIs(where) == pwThread \in PwThreads /\ pwPc[pwThread] \in where
PwInStep ==
    /\ \A t \in PwThreads : t # pwThread => pwPc[t] \in {"unused", "over"}
    /\ pwUser.at = "idle" => /\ pwState \in {"stopped", "starting", "running"}
                             /\ pwState = "stopped" => PwLive = {}
                             /\ pwState = "starting" =>
                                    PwIs({"spawned", "looped", "closing", "final"})
                             /\ pwState = "running" => PwIs(PwUp)
    /\ pwUser.at = "spawn" => pwState = "starting" /\ PwLive = {}
    /\ pwUser.at \in {"check", "signal"} => pwState = "stopping" /\ PwIs(PwUp)
    /\ pwUser.at = "join" =>
           \/ pwState = "stopping" /\ PwIs(PwUp \cup {"closing", "final"})
           \/ pwState = "stopped" /\ PwIs({"over"})
    /\ IF PwIs(PwOpen) THEN pwEvent = pwThread ELSE pwEvent = NoPoller
    /\ pwClients # {} => PwIs(PwUp \cup {"closing"})
    /\ \A t \in pwSet : pwPc[t] \notin {"unused", "spawned", "looped"}
    /\ PwIs(PwUp) /\ pwUser.at # "join" => pwThread \notin pwSet

PwInv ==
    /\ PwTypeOK /\ PwEventIsLive /\ PwAtTarget /\ PwRunningIsServed
    /\ pwOrderly => PwInStep

PwUsers == [at : {"idle", "spawn", "check", "signal", "join"}, again : BOOLEAN]

\* A call that goes on is a call.
LEMMA PwCalls ==
    /\ PwIdle \in PwUsers /\ PwIdle.at = "idle"
    /\ \A at \in {"idle", "spawn", "check", "signal", "join"} : \A u \in PwUsers :
           [u EXCEPT !.at = at] \in PwUsers /\ [u EXCEPT !.at = at].at = at
<1>1. PwIdle \in PwUsers /\ PwIdle.at = "idle"
  BY DEF PwIdle, PwUsers
<1>2. ASSUME NEW at \in {"idle", "spawn", "check", "signal", "join"}, NEW u \in PwUsers
      PROVE  [u EXCEPT !.at = at] \in PwUsers /\ [u EXCEPT !.at = at].at = at
  BY DEF PwUsers
<1>3. QED
  BY <1>1, <1>2, Zenon

\* What a step does to where the call stands.
LEMMA PwCallMoves ==
    ASSUME PwTypeOK, PwNext
    PROVE  /\ pwUser' \in PwUsers
           /\ PwStart => pwUser.at = "idle" /\ pwUser'.at = "spawn"
           /\ PwSpawn => pwUser'.at = "idle"
           /\ PwStop => pwUser.at = "idle" /\ pwUser'.at = "check"
           /\ PwCheck => pwUser'.at \in {"signal", "join"}
           /\ PwSignal => pwUser'.at \in {"join", "idle"}
           /\ PwJoined => \/ pwUser.again /\ pwUser'.at = "spawn"
                          \/ ~pwUser.again /\ pwUser'.at = "idle"
<1>1. pwUser \in PwUsers
  BY DEF PwTypeOK, PwUsers
<1>2. CASE PwStart
  <2>1. pwUser' = [PwIdle EXCEPT !.at = "spawn"] /\ pwUser = PwIdle
    BY <1>2 DEF PwStart
  <2>2. pwUser' \in PwUsers /\ pwUser'.at = "spawn" /\ pwUser.at = "idle"
    BY <2>1, PwCalls, Zenon
  <2>3. QED
    BY <1>2, <2>1, <2>2 DEF PwStart, PwSpawn, PwStop, PwCheck, PwSignal, PwJoined
<1>3. CASE PwSpawn
  BY <1>1, <1>3, PwCalls DEF PwStart, PwSpawn, PwStop, PwCheck, PwSignal, PwJoined
<1>4. CASE PwStop
  <2>1. pwUser = PwIdle /\ \E again \in BOOLEAN : pwUser' = [at |-> "check", again |-> again]
    BY <1>4 DEF PwStop
  <2>2. pwUser' \in PwUsers /\ pwUser'.at = "check" /\ pwUser.at = "idle"
    BY <2>1, PwCalls DEF PwUsers
  <2>3. QED
    BY <1>4, <2>1, <2>2 DEF PwStart, PwSpawn, PwStop, PwCheck, PwSignal, PwJoined
<1>5. CASE PwCheck \/ PwSignal
  <2>1. CASE PwCheck
    <3>1. /\ pwUser.at = "check"
          /\ \E at \in {"signal", "join"} : pwUser' = [pwUser EXCEPT !.at = at]
      BY <2>1 DEF PwCheck
    <3>2. pwUser' \in PwUsers /\ pwUser'.at \in {"signal", "join"}
      <4>1. ASSUME NEW at \in {"signal", "join"}, pwUser' = [pwUser EXCEPT !.at = at]
            PROVE  pwUser' \in PwUsers /\ pwUser'.at = at
        BY <1>1, <4>1, PwCalls, Zenon
      <4>2. QED
        BY <3>1, <4>1
    <3>3. QED
      <4>1. ~PwStart /\ ~PwSpawn /\ ~PwStop /\ ~PwSignal /\ ~PwJoined
        BY <3>1, PwCalls DEF PwStart, PwSpawn, PwStop, PwSignal, PwJoined
      <4>2. QED
        BY <3>2, <4>1
  <2>2. CASE PwSignal
    <3>1. /\ pwUser.at = "signal"
          /\ pwUser' = [pwUser EXCEPT !.at = "join"] \/ pwUser' = PwIdle
      BY <2>2 DEF PwSignal
    <3>2. pwUser' \in PwUsers /\ pwUser'.at \in {"join", "idle"}
      BY <1>1, <3>1, PwCalls, Zenon
    <3>3. QED
      BY <3>1, <3>2, PwCalls DEF PwStart, PwSpawn, PwStop, PwCheck, PwJoined
  <2>3. QED
    BY <1>5, <2>1, <2>2
<1>6. CASE PwJoined
  <2>1. /\ pwUser.at = "join"
        /\ \/ pwUser.again /\ pwUser' = [PwIdle EXCEPT !.at = "spawn"]
           \/ ~pwUser.again /\ pwUser' = PwIdle
    BY <1>6 DEF PwJoined
  <2>2. /\ pwUser' \in PwUsers
        /\ \/ pwUser.again /\ pwUser'.at = "spawn"
           \/ ~pwUser.again /\ pwUser'.at = "idle"
    <3>1. [PwIdle EXCEPT !.at = "spawn"] \in PwUsers /\ [PwIdle EXCEPT !.at = "spawn"].at = "spawn"
      BY PwCalls, Zenon
    <3>2. QED
      BY <2>1, <3>1, PwCalls
  <2>3. pwUser # PwIdle
    BY <2>1, PwCalls
  <2>4. ~PwStart /\ ~PwSpawn /\ ~PwStop /\ ~PwCheck /\ ~PwSignal
    BY <2>1, <2>3 DEF PwStart, PwSpawn, PwStop, PwCheck, PwSignal
  <2>5. QED
    BY <2>2, <2>4
<1>7. ASSUME UNCHANGED pwUser PROVE pwUser' \in PwUsers
  BY <1>1, <1>7
<1>8. QED
  <2>1. \/ PwStart \/ PwSpawn \/ PwStop \/ PwCheck \/ PwSignal \/ PwJoined
        \/ UNCHANGED pwUser
    BY DEF PwNext, SetTargetEnabled, IntervalPasses, PwThreadStep, PwMakeLoop, PwConnect, PwLoop,
       PwPoll, PwAnswer, PwCleanup, PwEnd
  <2>2. QED
    BY <1>2, <1>3, <1>4, <1>5, <1>6, <1>7, <2>1

\* Of the steps of a thread: where it goes, and what it may change.
LEMMA PwThreadMoves ==
    ASSUME PwTypeOK, PwAtTarget, NEW t \in PwThreads, PwThreadStep(t)
    PROVE  /\ UNCHANGED <<pwOrderly, pwThread, pwSet, pwUser, pwEnabled>>
           /\ pwAt' \in [PwThreads -> 1..Len(PwTargets) + 1]
           /\ pwDue' \subseteq pwDue /\ pwStale' \subseteq pwStale
           /\ \A u \in PwThreads : u # t => pwAt'[u] = pwAt[u]
           /\ \/ /\ pwPc[t] = "spawned" /\ PwGoes(t, "looped") /\ pwEvent' = t
                 /\ UNCHANGED <<pwState, pwClients>>
              \/ /\ pwPc[t] = "looped" /\ pwClients' \subseteq PwTargetSet /\ UNCHANGED pwEvent
                 /\ \/ PwGoes(t, "loop") /\ pwState' = "running"
                    \/ PwGoes(t, "closing") /\ UNCHANGED pwState
              \/ /\ pwPc[t] = "loop" /\ UNCHANGED <<pwState, pwEvent, pwClients>>
                 /\ \/ PwGoes(t, "poll")
                    \/ PwGoes(t, "closing") /\ pwEvent \in pwSet \cup {NoPoller}
              \/ /\ pwPc[t] \in {"poll", "request"} /\ UNCHANGED <<pwState, pwEvent, pwClients>>
                 /\ \/ PwGoes(t, "loop") \/ PwGoes(t, "poll")
                    \/ PwGoes(t, "request") /\ pwAt'[t] <= Len(PwTargets)
              \/ /\ pwPc[t] = "closing" /\ UNCHANGED <<pwState, pwEvent>>
                 /\ \/ PwGoes(t, "final") /\ pwEvent \in {t, NoPoller}
                    \/ PwGoes(t, "over") /\ pwEvent \notin {t, NoPoller}
                 /\ pwClients' = IF pwEvent = t THEN {} ELSE pwClients
              \/ /\ pwPc[t] = "final" /\ PwGoes(t, "over") /\ UNCHANGED pwClients
                 /\ pwEvent' = NoPoller /\ pwState' = "stopped"
<1>0. /\ Len(PwTargets) \in Nat /\ pwAt \in [PwThreads -> 1..Len(PwTargets) + 1]
      /\ pwAt[t] \in 1..Len(PwTargets) + 1
  BY PwAssumption DEF PwTypeOK
<1>1. CASE PwMakeLoop(t)
  BY <1>0, <1>1 DEF PwMakeLoop, pwPolls
<1>2. CASE PwConnect(t)
  BY <1>0, <1>2 DEF PwConnect
<1>3. CASE PwLoop(t)
  BY <1>0, <1>3 DEF PwLoop
<1>4. CASE PwPoll(t)
  <2>1. /\ pwPc[t] = "poll"
        /\ \/ PwGoes(t, "loop") /\ UNCHANGED <<pwAt, pwDue>>
           \/ pwAt[t] <= Len(PwTargets) /\ NextTarget(t) /\ UNCHANGED pwDue
           \/ pwAt[t] <= Len(PwTargets) /\ PwGoes(t, "request") /\ UNCHANGED <<pwAt, pwDue>>
           \/ pwAt[t] <= Len(PwTargets) /\ NextTarget(t) /\ Recorded(t)
        /\ UNCHANGED <<pwOrderly, pwState, pwThread, pwEvent, pwSet, pwUser, pwStale, pwClients, pwEnabled>>
    BY <1>0, <1>4 DEF PwPoll
  <2>2. CASE PwGoes(t, "loop") /\ UNCHANGED <<pwAt, pwDue>>
    BY <1>0, <2>1, <2>2
  <2>3. CASE pwAt[t] <= Len(PwTargets) /\ PwGoes(t, "request") /\ UNCHANGED <<pwAt, pwDue>>
    BY <1>0, <2>1, <2>3
  <2>4. CASE pwAt[t] <= Len(PwTargets) /\ NextTarget(t) /\ (UNCHANGED pwDue \/ Recorded(t))
    BY <1>0, <2>1, <2>4 DEF NextTarget, Recorded
  <2>5. QED
    BY <2>1, <2>2, <2>3, <2>4
<1>5. CASE PwAnswer(t)
  BY <1>0, <1>5 DEF PwAnswer, NextTarget, Recorded, PwAtTarget
<1>6. CASE PwCleanup(t)
  BY <1>0, <1>6 DEF PwCleanup
<1>7. CASE PwEnd(t)
  BY <1>0, <1>7 DEF PwEnd, pwPolls
<1>8. QED
  BY <1>1, <1>2, <1>3, <1>4, <1>5, <1>6, <1>7 DEF PwThreadStep

\* No thread polls at first.
LEMMA PwInitially == PwInit => PwInv
<1> SUFFICES ASSUME PwInit PROVE PwInv
  OBVIOUS
<1>1. pwUser \in PwUsers /\ pwUser.at = "idle"
  BY PwCalls DEF PwInit
<1>2. PwTypeOK
  BY <1>1, PwAssumption DEF PwInit, PwTypeOK, PwUsers
<1>3. PwLive = {} /\ pwState = "stopped"
  BY DEF PwInit, PwLive
<1>4. PwInStep
  BY <1>1, <1>3, PwAssumption DEF PwInit, PwInStep, PwIs, PwOpen
<1>5. QED
  BY <1>2, <1>3, <1>4 DEF PwInv, PwInit, PwEventIsLive, PwAtTarget, PwRunningIsServed

\* Every step keeps the types of the worker.
LEMMA PwTypes == PwTypeOK /\ PwAtTarget /\ [PwNext]_pwVars => PwTypeOK' /\ PwAtTarget'
<1> SUFFICES ASSUME PwTypeOK, PwAtTarget, [PwNext]_pwVars PROVE PwTypeOK' /\ PwAtTarget'
  OBVIOUS
<1>1. CASE UNCHANGED pwVars
  BY <1>1 DEF pwVars, pwPolls, PwTypeOK, PwAtTarget
<1>2. ASSUME NEW t \in PwThreads, PwThreadStep(t)
      PROVE  PwTypeOK' /\ PwAtTarget'
  <2>1. UNCHANGED pwUser
    BY <1>2, PwThreadMoves
  <2>2. PwTypeOK'
    BY <1>2, <2>1, PwThreadMoves DEF PwTypeOK, PwGoes
  <2>3. PwAtTarget'
    BY <1>2, PwThreadMoves DEF PwTypeOK, PwAtTarget, PwGoes
  <2>4. QED
    BY <2>2, <2>3
<1>3. ASSUME PwStart \/ PwSpawn \/ PwStop \/ PwCheck \/ PwSignal \/ PwJoined
      PROVE  PwTypeOK' /\ PwAtTarget'
  <2>1. pwUser' \in PwUsers
    BY <1>3, PwCallMoves DEF PwNext
  <2>2. CASE PwStart
    BY <2>1, <2>2 DEF PwStart, PwTypeOK, PwAtTarget, pwPolls, PwUsers
  <2>3. CASE PwSpawn
    BY <2>1, <2>3 DEF PwSpawn, PwTypeOK, PwAtTarget, pwPolls, PwUsers
  <2>4. CASE PwStop
    BY <2>1, <2>4 DEF PwStop, PwTypeOK, PwAtTarget, pwPolls, PwUsers
  <2>5. CASE PwCheck \/ PwSignal
    BY <2>1, <2>5 DEF PwCheck, PwSignal, PwTypeOK, PwAtTarget, pwPolls, PwUsers
  <2>6. CASE PwJoined
    <3>1. pwState' \in {"starting", "stopped"} /\ (NewTargets \/ UNCHANGED pwPolls)
      BY <2>6 DEF PwJoined
    <3>2. QED
      BY <2>1, <2>6, <3>1 DEF PwJoined, NewTargets, PwTypeOK, PwAtTarget, pwPolls, PwUsers
  <2>7. QED
    BY <1>3, <2>2, <2>3, <2>4, <2>5, <2>6
<1>4. ASSUME NEW x \in PwTargetSet, SetTargetEnabled(x) \/ IntervalPasses(x)
      PROVE  PwTypeOK' /\ PwAtTarget'
  BY <1>4 DEF SetTargetEnabled, IntervalPasses, PwTypeOK, PwAtTarget
<1>5. QED
  BY <1>1, <1>2, <1>3, <1>4 DEF PwNext

\* The thread in use is one that can be stopped.
LEMMA PwServes ==
    ASSUME PwTypeOK, PwAtTarget, PwEventIsLive, PwRunningIsServed, [PwNext]_pwVars
    PROVE  PwEventIsLive' /\ PwRunningIsServed'
<1>1. CASE UNCHANGED pwVars
  BY <1>1 DEF pwVars, PwEventIsLive, PwRunningIsServed, PwLive
<1>2. ASSUME NEW t \in PwThreads, PwThreadStep(t)
      PROVE  PwEventIsLive' /\ PwRunningIsServed'
  BY <1>2, PwThreadMoves, PwAssumption
     DEF PwTypeOK, PwGoes, PwEventIsLive, PwRunningIsServed, PwLive
<1>3. CASE PwSpawn
  BY <1>3 DEF PwSpawn, PwTypeOK, PwEventIsLive, PwRunningIsServed, PwLive
<1>4. CASE PwStart \/ PwStop \/ PwCheck \/ PwSignal \/ PwJoined
  <2>1. UNCHANGED <<pwEvent, pwPc>> /\ (pwState' # "running" \/ UNCHANGED pwState)
    BY <1>4 DEF PwStart, PwStop, PwCheck, PwSignal, PwJoined
  <2>2. QED
    BY <2>1 DEF PwEventIsLive, PwRunningIsServed, PwLive
<1>5. ASSUME NEW x \in PwTargetSet, SetTargetEnabled(x) \/ IntervalPasses(x)
      PROVE  PwEventIsLive' /\ PwRunningIsServed'
  BY <1>5 DEF SetTargetEnabled, IntervalPasses, PwEventIsLive, PwRunningIsServed, PwLive
<1>6. QED
  BY <1>1, <1>2, <1>3, <1>4, <1>5 DEF PwNext

\* In orderly use the states of the worker and of its threads are in step.
LEMMA PwKeepsStep ==
    ASSUME PwInv, pwOrderly, [PwNext]_pwVars
    PROVE  PwInStep'
<1>1. PwTypeOK /\ PwAtTarget /\ PwEventIsLive /\ PwInStep
  BY DEF PwInv
<1>2. CASE UNCHANGED pwVars
  <2>1. UNCHANGED <<pwState, pwThread, pwEvent, pwSet, pwPc, pwUser, pwClients>>
    BY <1>2 DEF pwVars, pwPolls
  <2>2. QED
    BY <1>1, <2>1 DEF PwInStep, PwIs, PwLive
<1>3. ASSUME NEW t \in PwThreads, PwThreadStep(t) PROVE PwInStep'
  <2>1. t = pwThread
    <3>1. pwPc[t] \notin {"unused", "over"}
      BY <1>1, <1>3, PwThreadMoves
    <3>2. QED
      BY <1>1, <3>1 DEF PwInStep
  <2>2. /\ \A u \in PwThreads : u # t => pwPc'[u] = pwPc[u] /\ pwPc[u] \in {"unused", "over"}
        /\ UNCHANGED <<pwThread, pwSet, pwUser>>
        /\ pwUser.at \in {"idle", "check", "signal", "join"} /\ pwSet \subseteq PwThreads
    <3>1. PwLive # {}
      BY <1>1, <1>3, PwThreadMoves DEF PwLive
    <3>2. \A u \in PwThreads : u # t => pwPc'[u] = pwPc[u]
      <4>1. \E where : PwGoes(t, where)
        BY <1>1, <1>3, PwThreadMoves
      <4>2. QED
        BY <1>1, <4>1 DEF PwTypeOK, PwGoes
    <3>3. QED
      BY <1>1, <1>3, <2>1, <3>1, <3>2, PwThreadMoves DEF PwInStep, PwTypeOK
  <2>3. CASE pwPc[t] = "spawned" /\ pwPc'[t] = "looped" /\ pwEvent' = t /\ UNCHANGED <<pwState, pwClients>>
    BY <1>1, <2>1, <2>2, <2>3 DEF PwInStep, PwIs, PwLive, PwUp, PwOpen
  <2>4. CASE /\ pwPc[t] = "looped" /\ UNCHANGED pwEvent
             /\ \/ pwPc'[t] = "loop" /\ pwState' = "running"
                \/ pwPc'[t] = "closing" /\ UNCHANGED pwState
    BY <1>1, <2>1, <2>2, <2>4 DEF PwInStep, PwIs, PwLive, PwUp, PwOpen
  <2>5. CASE /\ pwPc[t] = "loop" /\ UNCHANGED <<pwState, pwEvent, pwClients>>
             /\ \/ pwPc'[t] = "poll"
                \/ pwPc'[t] = "closing" /\ pwEvent \in pwSet \cup {NoPoller}
    <3>1. pwEvent = pwThread /\ pwEvent # NoPoller
      BY <1>1, <2>1, <2>5, PwAssumption DEF PwInStep, PwIs, PwOpen
    <3>2. pwPc'[t] = "closing" => pwUser.at = "join"
      BY <1>1, <2>1, <2>5, <3>1 DEF PwInStep, PwIs, PwUp
    <3>3. QED
      BY <1>1, <2>1, <2>2, <2>5, <3>1, <3>2 DEF PwInStep, PwIs, PwLive, PwUp, PwOpen
  <2>6. CASE /\ pwPc[t] \in {"poll", "request"} /\ pwPc'[t] \in PwUp
             /\ UNCHANGED <<pwState, pwEvent, pwClients>>
    BY <1>1, <2>1, <2>2, <2>6 DEF PwInStep, PwIs, PwLive, PwUp, PwOpen
  <2>7. CASE /\ pwPc[t] = "closing" /\ UNCHANGED <<pwState, pwEvent>>
             /\ \/ pwPc'[t] = "final" /\ pwEvent \in {t, NoPoller}
                \/ pwPc'[t] = "over" /\ pwEvent \notin {t, NoPoller}
             /\ pwClients' = IF pwEvent = t THEN {} ELSE pwClients
    <3>1. pwEvent = t /\ pwPc'[t] = "final" /\ pwClients' = {}
      BY <1>1, <2>1, <2>7 DEF PwInStep, PwIs, PwOpen
    <3>2. QED
      BY <1>1, <2>1, <2>2, <2>7, <3>1 DEF PwInStep, PwIs, PwLive, PwUp, PwOpen
  <2>8. CASE /\ pwPc[t] = "final" /\ pwPc'[t] = "over" /\ UNCHANGED pwClients
             /\ pwEvent' = NoPoller /\ pwState' = "stopped"
    BY <1>1, <2>1, <2>2, <2>8 DEF PwInStep, PwIs, PwLive, PwUp, PwOpen
  <2>9. QED
    <3>1. \A where : PwGoes(t, where) => pwPc'[t] = where
      BY <1>1 DEF PwGoes, PwTypeOK
    <3>2. QED
      BY <1>1, <1>3, <2>3, <2>4, <2>5, <2>6, <2>7, <2>8, <3>1, PwThreadMoves DEF PwUp
<1>4. CASE PwStart
  <2>1. /\ pwUser.at = "idle" /\ pwUser'.at = "spawn" /\ pwState' = "starting"
        /\ pwState \notin {"running", "starting"}
        /\ UNCHANGED <<pwThread, pwEvent, pwSet, pwPc, pwClients>>
    BY <1>1, <1>4, PwCallMoves DEF PwStart, PwNext, pwPolls
  <2>2. QED
    BY <1>1, <2>1 DEF PwInStep, PwIs, PwLive
<1>5. CASE PwSpawn
  <2>1. /\ pwUser.at = "spawn" /\ pwUser'.at = "idle"
        /\ UNCHANGED <<pwState, pwEvent, pwSet, pwClients>>
    BY <1>1, <1>5, PwCallMoves DEF PwSpawn, PwNext, pwPolls
  <2>2. PICK t \in PwThreads : /\ pwPc[t] = "unused" /\ pwThread' = t
                               /\ pwPc' = [pwPc EXCEPT ![t] = "spawned"]
    BY <1>5 DEF PwSpawn
  <2>3. /\ pwState = "starting" /\ \A u \in PwThreads : pwPc[u] \in {"unused", "over"}
        /\ pwPc'[t] = "spawned" /\ \A u \in PwThreads : u # t => pwPc'[u] = pwPc[u]
    BY <1>1, <2>1, <2>2 DEF PwInStep, PwLive, PwTypeOK
  <2>4. pwEvent = NoPoller /\ pwClients = {} /\ t \notin pwSet
    BY <1>1, <2>2, <2>3 DEF PwInStep, PwIs, PwOpen, PwUp
  <2>5. QED
    BY <1>1, <2>1, <2>2, <2>3, <2>4 DEF PwInStep, PwIs, PwLive, PwUp, PwOpen
<1>6. CASE PwStop
  <2>1. /\ pwUser.at = "idle" /\ pwUser'.at = "check" /\ pwState = "running"
        /\ pwState' = "stopping"
        /\ UNCHANGED <<pwThread, pwEvent, pwSet, pwPc, pwClients>>
    BY <1>1, <1>6, PwCallMoves DEF PwStop, PwNext, pwPolls
  <2>2. QED
    BY <1>1, <2>1 DEF PwInStep, PwIs, PwLive
<1>7. CASE PwCheck \/ PwSignal
  <2>1. UNCHANGED <<pwState, pwThread, pwEvent, pwPc, pwClients>>
    BY <1>7 DEF PwCheck, PwSignal, pwPolls
  <2>2. /\ pwState = "stopping" /\ pwThread \in PwThreads /\ pwPc[pwThread] \in PwUp
        /\ pwEvent = pwThread /\ pwEvent # NoPoller
    BY <1>1, <1>7, PwAssumption DEF PwCheck, PwSignal, PwInStep, PwIs, PwUp, PwOpen
  <2>3. CASE PwCheck
    <3>1. pwUser' = [pwUser EXCEPT !.at = "signal"] /\ UNCHANGED pwSet /\ pwUser.at = "check"
      BY <2>2, <2>3 DEF PwCheck
    <3>2. pwUser \in PwUsers
      BY <1>1 DEF PwTypeOK, PwUsers
    <3>3. pwUser'.at = "signal"
      BY <3>1, <3>2, PwCalls, Zenon
    <3>4. QED
      BY <1>1, <2>1, <2>2, <3>1, <3>3 DEF PwInStep, PwIs, PwLive, PwUp
  <2>4. CASE PwSignal
    <3>1. pwUser' = [pwUser EXCEPT !.at = "join"] /\ pwSet' = pwSet \cup {pwThread}
      BY <2>2, <2>4 DEF PwSignal, PwUp
    <3>2. pwUser \in PwUsers
      BY <1>1 DEF PwTypeOK, PwUsers
    <3>3. pwUser'.at = "join"
      BY <3>1, <3>2, PwCalls, Zenon
    <3>4. QED
      BY <1>1, <2>1, <2>2, <3>1, <3>3 DEF PwInStep, PwIs, PwLive, PwUp
  <2>5. QED
    BY <1>7, <2>3, <2>4
<1>8. CASE PwJoined
  <2>1. /\ pwUser.at = "join" /\ pwPc[pwThread] = "over"
        /\ \/ pwUser'.at = "spawn" /\ pwState' = "starting"
           \/ pwUser'.at = "idle" /\ pwState' = "stopped"
        /\ UNCHANGED <<pwThread, pwEvent, pwSet, pwPc, pwClients>>
    <3>1. /\ pwUser.at = "join" /\ pwPc[pwThread] = "over"
          /\ UNCHANGED <<pwThread, pwEvent, pwSet, pwPc, pwClients>>
      BY <1>8 DEF PwJoined, NewTargets, pwPolls
    <3>2. /\ pwUser.again => pwState' = "starting"
          /\ ~pwUser.again => pwState' = "stopped"
      BY <1>8 DEF PwJoined
    <3>3. QED
      BY <1>1, <1>8, <3>1, <3>2, PwCallMoves DEF PwNext
  <2>2. PwLive = {}
    BY <1>1, <2>1 DEF PwInStep, PwLive
  <2>3. QED
    BY <1>1, <2>1, <2>2 DEF PwInStep, PwIs, PwLive, PwUp
<1>9. ASSUME NEW x \in PwTargetSet, SetTargetEnabled(x) \/ IntervalPasses(x)
      PROVE  PwInStep'
  <2>1. UNCHANGED <<pwState, pwThread, pwEvent, pwSet, pwPc, pwUser, pwClients>>
    BY <1>9 DEF SetTargetEnabled, IntervalPasses
  <2>2. QED
    BY <1>1, <2>1 DEF PwInStep, PwIs, PwLive
<1>10. QED
  BY <1>2, <1>3, <1>4, <1>5, <1>6, <1>7, <1>8, <1>9 DEF PwNext

\* Every step keeps what the polling rests on.
LEMMA PwPreserved == PwInv /\ [PwNext]_pwVars => PwInv'
<1> SUFFICES ASSUME PwInv, [PwNext]_pwVars PROVE PwInv'
  OBVIOUS
<1>1. UNCHANGED pwOrderly
  BY DEF PwNext, PwStart, PwSpawn, PwStop, PwCheck, PwSignal, PwJoined, SetTargetEnabled,
     IntervalPasses, PwThreadStep, PwMakeLoop, PwConnect, PwLoop, PwPoll, PwAnswer, PwCleanup, PwEnd, pwVars
<1>2. QED
  BY <1>1, PwTypes, PwServes, PwKeepsStep DEF PwInv

\* PollingWorker: it reports itself running only while a thread of it is left, however stops and
\* reloads overtake the start of a thread; and in orderly surroundings stop() leaves no thread
\* and no open client behind.
THEOREM PollingIsSafe == PwBehaviour => [](PwTypeOK /\ PwSafe)
<1>1. PwInv => PwTypeOK /\ PwSafe
  <2> SUFFICES ASSUME PwInv PROVE PwTypeOK /\ PwSafe
    OBVIOUS
  <2>1. ASSUME pwOrderly, pwState = "stopped", pwUser = PwIdle
        PROVE  PwLive = {} /\ pwClients = {}
    <3>1. PwInStep /\ pwUser.at = "idle"
      BY <2>1, PwCalls DEF PwInv
    <3>2. PwLive = {}
      BY <2>1, <3>1 DEF PwInStep
    <3>3. QED
      BY <3>1, <3>2 DEF PwInStep, PwIs, PwLive, PwUp
  <2>2. QED
    BY <2>1 DEF PwInv, PwSafe, PwStoppedIsClosed
<1>2. QED
  BY PwInitially, PwPreserved, <1>1, PTL DEF PwBehaviour

-----------------------------------------------------------------------------
(***************************************************************************)
(* The regulator that is polled.                                           *)
(***************************************************************************)
PtBehaviour == PtInit /\ [][PtNext]_ptVars

PtCounters == [polls : Nat, errors : Nat]

\* The value to be written is within the limits, and the register is what the page shows for as
\* long as a success is shown.
PtInv ==
    /\ PtTypeOK /\ PolledSafe /\ ptCounts \in PtCounters
    /\ ptAt # "sleep" => ptCounts.polls < PtPolls
    /\ ptAt = "write" => ptWrites /\ (ptLimited => ptValue \in PtLimits[1]..PtLimits[2])
    /\ ptResult.status = "success" /\ ptWrites /\ ~ptSimulated => ptRegister = ptResult.value

\* The first element that has a text, of none, one or two.
LEMMA PtParsed == ASSUME NEW page \in Pages PROVE Parsed(page) \in Texts
<1> DEFINE found == {i \in DOMAIN page : page[i] # None}
<1>1. None \in Texts
  BY DEF Texts, None
<1>2. \A i \in DOMAIN page : page[i] \in Texts /\ i \in 1..2
  BY DEF Pages
<1>3. CASE found = {}
  BY <1>1, <1>3 DEF Parsed
<1>4. CASE found # {}
  <2>1. \E i \in found : \A j \in found : i <= j
    <3>1. found \subseteq {1, 2}
      BY <1>2
    <3>2. CASE 1 \in found
      BY <3>1, <3>2
    <3>3. CASE 1 \notin found
      <4>1. found = {2}
        BY <1>4, <3>1, <3>3
      <4> HIDE DEF found
      <4>2. QED
        BY <4>1
    <3>4. QED
      BY <3>2, <3>3
  <2> DEFINE first == CHOOSE i \in found : \A j \in found : i <= j
  <2>2. first \in found
    <3> HIDE DEF found
    <3>1. QED
      BY <2>1
  <2>3. Parsed(page) = page[first]
    BY <1>4 DEF Parsed
  <2>4. QED
    BY <1>2, <2>2, <2>3
<1>5. QED
  BY <1>3, <1>4

\* What is transformed is a number, within the limits if there are any.
LEMMA PtTransformed ==
    ASSUME NEW text \in Texts, NEW v \in Transformed(text)
    PROVE  v \in Int /\ (ptLimited => v \in PtLimits[1]..PtLimits[2])
<1>1. PtLimits[1] \in Int /\ PtLimits[2] \in Int /\ PtLimits[1] <= PtLimits[2]
  BY TargetAssumption
<1>2. CASE \E n \in PtNumbers : text = <<"number", n>>
  <2>1. PICK n \in Int : text[1] = "number" /\ text[2] = n
    BY <1>2, TargetAssumption
  <2>2. v = IF ptLimited THEN Limited(n) ELSE n
    BY <2>1 DEF Transformed, Infinite
  <2>3. QED
    BY <1>1, <2>1, <2>2 DEF Limited
<1>3. CASE text = <<Infinite>>
  <2>1. text[1] = "inf"
    BY <1>3 DEF Infinite
  <2>2. ptLimited /\ v = PtLimits[2]
    BY <2>1 DEF Transformed, Infinite
  <2>3. QED
    BY <1>1, <2>2
<1>4. CASE text \in {<<NotANumber>>, <<"word">>, <<"none">>}
  <2>1. text[1] \in {"nan", "word", "none"}
    BY <1>4 DEF NotANumber
  <2>2. QED
    BY <2>1 DEF Transformed, Infinite
<1>5. QED
  BY <1>2, <1>3, <1>4 DEF Texts

\* Nothing is written at first.
LEMMA PtInitially == PtInit => PtInv
BY TargetAssumption DEF PtInit, PtInv, PtTypeOK, PolledSafe, PtCounters, Result

\* A poll ends with its result counted.
LEMMA PtEnds ==
    ASSUME PtInv, NEW status \in Failures \cup {"success"}, NEW v \in Int, Ends(status, v),
           ptCounts.polls < PtPolls
    PROVE  /\ ptAt' = "sleep" /\ ptCounts' \in PtCounters
           /\ ptCounts'.polls = ptCounts.polls + 1 /\ ptCounts'.polls \in 0..PtPolls
           /\ ptCounts'.errors \in 0..ptCounts'.polls
           /\ ptCounts'.errors = ptCounts.errors + IF status = "success" THEN 0 ELSE 1
           /\ ptResult'.status = status /\ ptResult'.value = v
<1>1. ptCounts.polls \in Nat /\ ptCounts.errors \in 0..ptCounts.polls
  BY DEF PtInv, PtTypeOK, PtCounters
<1>2. QED
  BY <1>1, TargetAssumption DEF Ends, Result, PtCounters

\* Every step of the regulator keeps what was written apart from what was not.
LEMMA PtPreserved == PtInv /\ [PtNext]_ptVars => PtInv'
<1> SUFFICES ASSUME PtInv, [PtNext]_ptVars PROVE PtInv'
  OBVIOUS
<1>0. /\ IF ptWrites /\ ptSimulated THEN ptDelivered = 0 /\ ptRegister = 0
         ELSE ptDelivered = ptCounts.polls - ptCounts.errors
      /\ ptCounts.polls \in Nat
      /\ ptCounts.errors \in 0..ptCounts.polls /\ ptDelivered \in 0..PtPolls
  BY DEF PtInv, PtTypeOK, PolledSafe, PtCounters
<1>1. CASE PtDue
  <2>1. /\ ptAt = "sleep" /\ ptCounts.polls < PtPolls
        /\ UNCHANGED <<ptConfig, ptEnabled, ptValue, ptRegister, ptDelivered>>
    BY <1>1 DEF PtDue
  <2>2. CASE ptAt' = "get" /\ UNCHANGED <<ptCounts, ptResult>>
    BY <2>1, <2>2 DEF PtInv, PtTypeOK, PolledSafe, ptConfig
  <2>3. CASE Ends("connection_error", 0)
    <3>1. /\ ptAt' = "sleep" /\ ptCounts' \in PtCounters /\ ptCounts'.polls \in 0..PtPolls
          /\ ptCounts'.errors \in 0..ptCounts'.polls
          /\ ptCounts'.polls - ptCounts'.errors = ptCounts.polls - ptCounts.errors
          /\ ptResult'.status = "connection_error" /\ ptResult'.value = 0
      BY <1>0, <2>1, <2>3, PtEnds DEF Failures
    <3>2. QED
      BY <2>1, <3>1 DEF PtInv, PtTypeOK, PolledSafe, Failures, ptConfig
  <2>4. QED
    BY <1>1, <2>2, <2>3 DEF PtDue
<1>2. ASSUME NEW status \in Failures, NEW v \in Int, Ends(status, v), ptAt \in {"get", "write"},
             UNCHANGED <<ptConfig, ptEnabled, ptValue, ptDelivered>>,
             ptRegister' \in {ptRegister, ptValue},
             ptAt = "get" \/ ptSimulated => UNCHANGED ptRegister
      PROVE  PtInv'
  <2>1. /\ ptAt' = "sleep" /\ ptCounts' \in PtCounters /\ ptCounts'.polls \in 0..PtPolls
        /\ ptCounts'.errors \in 0..ptCounts'.polls
        /\ ptCounts'.polls - ptCounts'.errors = ptCounts.polls - ptCounts.errors
        /\ ptResult'.status = status /\ ptResult'.value = v
    <3>1. ptCounts.polls < PtPolls
      BY <1>2 DEF PtInv
    <3>2. status # "success"
      BY DEF Failures
    <3>3. QED
      BY <1>0, <1>2, <3>1, <3>2, PtEnds
  <2>2. status # "success" /\ status \in Failures
    BY DEF Failures
  <2>3. QED
    BY <1>2, <2>1, <2>2 DEF PtInv, PtTypeOK, PolledSafe, ptConfig
<1>3. ASSUME NEW v \in Int, Ends("success", v), ptAt \in {"get", "write"},
             UNCHANGED <<ptConfig, ptEnabled>>, ptValue' \in Int,
             \/ ~ptWrites /\ ptDelivered' = ptDelivered + 1 /\ UNCHANGED ptRegister
             \/ /\ ptAt = "write" /\ v = ptValue
                /\ IF ptSimulated THEN UNCHANGED <<ptRegister, ptDelivered>>
                   ELSE ptRegister' = ptValue /\ ptDelivered' = ptDelivered + 1
      PROVE  PtInv'
  <2>1. /\ ptAt' = "sleep" /\ ptCounts' \in PtCounters /\ ptCounts'.polls \in 0..PtPolls
        /\ ptCounts'.errors \in 0..ptCounts'.polls
        /\ ptCounts'.polls - ptCounts'.errors = (ptCounts.polls - ptCounts.errors) + 1
        /\ ptDelivered' \in 0..PtPolls
        /\ ptResult'.status = "success" /\ ptResult'.value = v
    <3>1. ptCounts.polls < PtPolls
      BY <1>3 DEF PtInv
    <3>2. QED
      BY <1>0, <1>3, <3>1, PtEnds, TargetAssumption
  <2>2. QED
    BY <1>3, <2>1 DEF PtInv, PtTypeOK, PolledSafe, ptConfig
<1>4. CASE GetFails
  <2>1. PICK status \in {"http_error", "timeout", "connection_error"} : Ends(status, 0)
    BY <1>4 DEF GetFails
  <2>2. QED
    BY <1>2, <1>4, <2>1 DEF GetFails, Failures
<1>5. CASE GetReturns
  <2>1. ptAt = "get" /\ UNCHANGED <<ptConfig, ptEnabled, ptRegister>>
    BY <1>5 DEF GetReturns
  <2>2. PICK page \in Pages :
            LET text == Parsed(page) IN
            \/ /\ Ends("parse_error", 0) /\ UNCHANGED <<ptValue, ptDelivered>>
            \/ /\ IF ptWrites
                  THEN Ends("http_error", 0) /\ UNCHANGED ptDelivered
                  ELSE Ends("success", 0) /\ ptDelivered' = ptDelivered + 1
               /\ UNCHANGED ptValue
            \/ \E v \in Transformed(text) :
                   /\ ptValue' = v
                   /\ IF ptWrites
                      THEN ptAt' = "write" /\ UNCHANGED <<ptCounts, ptResult, ptDelivered>>
                      ELSE Ends("success", v) /\ ptDelivered' = ptDelivered + 1
    BY <1>5 DEF GetReturns
  <2>3. ptValue \in Int
    BY DEF PtInv, PtTypeOK
  <2>4. CASE Ends("parse_error", 0) /\ UNCHANGED <<ptValue, ptDelivered>>
    BY <1>2, <2>1, <2>4 DEF Failures
  <2>5. CASE ptWrites /\ Ends("http_error", 0) /\ UNCHANGED ptDelivered /\ UNCHANGED ptValue
    BY <1>2, <2>1, <2>5 DEF Failures
  <2>6. CASE /\ ~ptWrites /\ Ends("success", 0) /\ ptDelivered' = ptDelivered + 1
             /\ UNCHANGED ptValue
    BY <1>3, <2>1, <2>3, <2>6
  <2>7. ASSUME NEW v \in Transformed(Parsed(page)), ptValue' = v,
               IF ptWrites
               THEN ptAt' = "write" /\ UNCHANGED <<ptCounts, ptResult, ptDelivered>>
               ELSE Ends("success", v) /\ ptDelivered' = ptDelivered + 1
        PROVE  PtInv'
    <3>1. v \in Int /\ (ptLimited => v \in PtLimits[1]..PtLimits[2])
      BY PtParsed, PtTransformed
    <3>2. CASE ptWrites
      BY <2>1, <2>7, <3>1, <3>2 DEF PtInv, PtTypeOK, PolledSafe, ptConfig
    <3>3. CASE ~ptWrites
      BY <1>3, <2>1, <2>7, <3>1, <3>3
    <3>4. QED
      BY <3>2, <3>3
  <2>8. QED
    BY <2>2, <2>4, <2>5, <2>6, <2>7
<1>6. CASE WriteEnds
  <2>1. ptAt = "write" /\ ptValue \in Int /\ UNCHANGED <<ptConfig, ptEnabled, ptValue>>
    BY <1>6 DEF WriteEnds, PtInv, PtTypeOK
  <2>2. \/ /\ Ends("success", ptValue)
           /\ IF ptSimulated THEN UNCHANGED <<ptRegister, ptDelivered>>
              ELSE ptRegister' = ptValue /\ ptDelivered' = ptDelivered + 1
        \/ /\ Ends("write_error", ptValue) /\ UNCHANGED ptDelivered
           /\ ptRegister' \in {ptRegister, ptValue} /\ (ptSimulated => UNCHANGED ptRegister)
    BY <1>6 DEF WriteEnds
  <2>3. QED
    BY <1>2, <1>3, <2>1, <2>2 DEF Failures
<1>7. CASE PtSetEnabled
  BY <1>7 DEF PtSetEnabled, PtInv, PtTypeOK, PolledSafe, ptConfig
<1>8. CASE UNCHANGED ptVars
  BY <1>8 DEF ptVars, PtInv, PtTypeOK, PolledSafe, ptConfig
<1>9. QED
  BY <1>1, <1>4, <1>5, <1>6, <1>7, <1>8 DEF PtNext

\* One target of PollingWorker: outside simulation the register holds the value that is shown
\* while its page shows a success, and every poll that did not deliver is an error; in simulation
\* nothing is written; and no page can take the register out of the limits of its target.
THEOREM TargetIsSafe == PtBehaviour => [](PtTypeOK /\ PolledSafe)
<1>1. PtInv => PtTypeOK /\ PolledSafe
  BY DEF PtInv
<1>2. QED
  BY PtInitially, PtPreserved, <1>1, PTL DEF PtBehaviour

-----------------------------------------------------------------------------
(***************************************************************************)
(* The writers of the registers.                                           *)
(***************************************************************************)
RwBehaviour == RwInit /\ [][RwNext]_rwVars

RwSteps == {"idle", "connect", "lock", "done", "failed"}
RwCalls == [step : RwSteps, words : Seq(Word)]

\* Who has not asked for the lock or has let go of it is not in its queue.
RwQueued == \A c \in RwCallers : rwCall[c].step \notin {"connect", "lock"} => c \notin Range(rwLock)

\* In simulation nobody asks for the lock to write.
RwNoneQueued == rwSimulated => \A c \in RwCallers : rwCall[c].step \in {"idle", "done"}

RwInv ==
    /\ RwTypeOK /\ rwCall \in [RwCallers -> RwCalls]
    /\ RwQueued /\ ReadsBack /\ SuccessIsTrue /\ RwNoneQueued
-----------------------------------------------------------------------------
(* A value through the words and back.                                     *)

\* The size of a word, and of two.
LEMMA RwWords ==
    /\ WordSize \in Nat \ {0} /\ Size(1) = WordSize /\ Size(2) = WordSize * WordSize
    /\ \E half \in Nat \ {0} : WordSize = 2 * half
<1>1. WordSize \in Nat \ {0} /\ WordSize % 2 = 0
  BY RegisterAssumption
<1>2. \E half \in Nat \ {0} : WordSize = 2 * half
  <2>1. WordSize \div 2 \in Nat \ {0} /\ WordSize = 2 * (WordSize \div 2)
    BY <1>1
  <2>2. QED
    BY <2>1
<1>3. QED
  BY <1>1, <1>2 DEF Size

\* Division with a remainder.
LEMMA RwDivision ==
    ASSUME NEW w \in Nat \ {0}, NEW u \in 0..w * w - 1
    PROVE  /\ u \div w \in 0..w - 1 /\ u % w \in 0..w - 1
           /\ (u \div w) * w + (u % w) = u
<1> DEFINE q == u \div w
           r == u % w
<1>1. q \in Int /\ r \in 0..w - 1 /\ u = w * q + r /\ u \in Nat /\ u < w * w
  OBVIOUS
<1> HIDE DEF q, r
<1>2. q >= 0
  <2>1. ASSUME q < 0 PROVE FALSE
    <3>1. w * q <= -w
      BY <1>1, <2>1
    <3>2. QED
      BY <1>1, <3>1
  <2>2. QED
    BY <1>1, <2>1
<1>3. q < w
  <2>1. ASSUME q >= w PROVE FALSE
    <3>1. w * q >= w * w
      BY <1>1, <2>1
    <3>2. QED
      BY <1>1, <3>1
  <2>2. QED
    BY <1>1, <2>1
<1>4. q * w = w * q
  BY <1>1
<1>5. q \in 0..w - 1 /\ r \in 0..w - 1 /\ q * w + r = u
  BY <1>1, <1>2, <1>3, <1>4
<1>6. QED
  BY <1>5 DEF q, r

\* The limits of a type, and what it takes up.
LEMMA RwTypes ==
    ASSUME NEW type \in DOMAIN Types
    PROVE  LET t == Types[type] IN
           /\ t.words \in {1, 2} /\ t.low \in Int /\ t.high \in Int /\ t.low <= t.high
           /\ Size(t.words) \in Nat /\ Size(t.words) > 0
           /\ \/ t.low = 0 /\ t.high = Size(t.words) - 1
              \/ \E half \in Nat \ {0} : /\ Size(t.words) = 2 * half
                                        /\ t.low = -half /\ t.high = half - 1
<1>1. PICK half \in Nat \ {0} : WordSize = 2 * half
  BY RwWords
<1>2. half * WordSize \in Nat \ {0} /\ WordSize * WordSize = 2 * (half * WordSize)
  BY <1>1, RwWords
<1>3. /\ Size(1) \in Nat \ {0} /\ Size(2) \in Nat \ {0}
      /\ Size(1) = 2 * half /\ Size(1) \div 2 = half
      /\ Size(2) = 2 * (half * WordSize) /\ Size(2) \div 2 = half * WordSize
  BY <1>1, <1>2, RwWords
<1>4. type \in {"u16", "s16", "u32", "s32"}
  BY DEF Types
<1>5. CASE type = "u16"
  <2>1. Types[type] = [words |-> 1, low |-> 0, high |-> Size(1) - 1]
    BY <1>5 DEF Types
  <2>2. QED
    BY <1>3, <2>1
<1>6. CASE type = "s16"
  <2>1. Types[type] = [words |-> 1, low |-> -(Size(1) \div 2), high |-> Size(1) \div 2 - 1]
    BY <1>6 DEF Types
  <2>2. QED
    BY <1>3, <2>1
<1>7. CASE type = "u32"
  <2>1. Types[type] = [words |-> 2, low |-> 0, high |-> Size(2) - 1]
    BY <1>7 DEF Types
  <2>2. QED
    BY <1>3, <2>1
<1>8. CASE type = "s32"
  <2>1. Types[type] = [words |-> 2, low |-> -(Size(2) \div 2), high |-> Size(2) \div 2 - 1]
    BY <1>8 DEF Types
  <2>2. QED
    BY <1>2, <1>3, <2>1
<1>9. QED
  BY <1>4, <1>5, <1>6, <1>7, <1>8

\* A value that is within its type is split into words that read back as it.
LEMMA RwRoundTrip ==
    ASSUME NEW type \in DOMAIN Types, rwDevice \in [1..2 -> Word],
           NEW n \in Types[type].low..Types[type].high
    PROVE  /\ Split(type, n) \in Seq(Word)
           /\ FromRegisters(type, Written(Split(type, n))) = n
<1> DEFINE t == Types[type]
           u == IF n < 0 THEN n + Size(t.words) ELSE n
<1>1. /\ t.words \in {1, 2} /\ t.low \in Int /\ t.high \in Int
      /\ Size(t.words) \in Nat /\ Size(t.words) > 0 /\ n \in Int /\ n >= t.low /\ n <= t.high
      /\ \/ t.low = 0 /\ t.high = Size(t.words) - 1
         \/ \E half \in Nat \ {0} : Size(t.words) = 2 * half /\ t.low = -half /\ t.high = half - 1
  BY RwTypes
<1>2. u \in 0..Size(t.words) - 1 /\ n = IF u > t.high THEN u - Size(t.words) ELSE u
  BY <1>1
<1>3. Split(type, n) = IF t.words = 1 THEN <<u>> ELSE <<u \div Size(1), u % Size(1)>>
  BY DEF Split
<1> HIDE DEF t, u
<1>4. ASSUME NEW words, FromRegisters(type, words) =
                 LET m == IF t.words = 1 THEN words[1] ELSE words[1] * Size(1) + words[2]
                 IN  IF m > t.high THEN m - Size(t.words) ELSE m,
             t.words = 1 => words[1] = u, t.words = 2 => words[1] * Size(1) + words[2] = u
      PROVE  FromRegisters(type, words) = n
  BY <1>1, <1>2, <1>4
<1>5. ASSUME NEW words
      PROVE  FromRegisters(type, words) =
                 LET m == IF t.words = 1 THEN words[1] ELSE words[1] * Size(1) + words[2]
                 IN  IF m > t.high THEN m - Size(t.words) ELSE m
  BY DEF FromRegisters, t
<1>6. CASE t.words = 1
  <2>1. u \in Word /\ Split(type, n) = <<u>>
    BY <1>2, <1>3, <1>6 DEF Word
  <2>2. Written(<<u>>)[1] = u
    BY DEF Written
  <2>3. QED
    BY <1>4, <1>5, <1>6, <2>1, <2>2
<1>7. CASE t.words = 2
  <2> DEFINE a == u \div Size(1)
             b == u % Size(1)
  <2>1. a \in Word /\ b \in Word /\ a * Size(1) + b = u
    BY <1>2, <1>7, RwWords, RwDivision DEF Word
  <2>2. Split(type, n) = <<a, b>>
    BY <1>3, <1>7
  <2> HIDE DEF a, b
  <2>3. Written(<<a, b>>)[1] = a /\ Written(<<a, b>>)[2] = b
    BY DEF Written
  <2>4. QED
    BY <1>4, <1>5, <1>7, <2>1, <2>2, <2>3
<1>8. QED
  BY <1>1, <1>6, <1>7

\* Rounding is off by no more than a half.
LEMMA RwRounded == ASSUME NEW d \in Int PROVE Rounded(d) \in Int /\ 2 * Rounded(d) - d \in -1..1
BY DEF Rounded

\* A value that is clamped is within its type, and moved only to the bound that it exceeds.
LEMMA RwClamped ==
    ASSUME NEW type \in DOMAIN Types, NEW r \in Int
    PROVE  /\ Clamped(type, r) \in Types[type].low..Types[type].high
           /\ \/ Clamped(type, r) = r
              \/ r < Types[type].low /\ Clamped(type, r) = Types[type].low
              \/ r > Types[type].high /\ Clamped(type, r) = Types[type].high
<1>1. /\ Types[type].low \in Int /\ Types[type].high \in Int
      /\ Types[type].low <= Types[type].high
  BY RwTypes
<1>2. QED
  BY <1>1 DEF Clamped

\* Scaling yields a number.
LEMMA RwDivided == ASSUME NEW in \in Inputs PROVE Divided(in) \in Int /\ Multiplied(in) \in Int
<1>1. /\ in.value \in Int /\ in.offset \in Int
      /\ in.scale[1] \in {0, 1, 2} /\ in.scale[2] \in {1, 2}
  <2>1. in.value \in Int /\ in.offset \in Int /\ in.scale \in Scales
    <3>1. in.value \in RwValues /\ in.offset \in {0, 1} /\ in.scale \in Scales
      BY DEF Inputs
    <3>2. RwValues \subseteq Int
      BY RegisterAssumption
    <3>3. in.offset \in Int
      BY <3>1
    <3>4. QED
      BY <3>1, <3>2, <3>3
  <2>2. \A s \in Scales : s[1] \in {0, 1, 2} /\ s[2] \in {1, 2}
    BY DEF Scales
  <2>3. QED
    BY <2>1, <2>2
<1>2. QED
  BY <1>1 DEF Divided, Multiplied

\* What a write that is reported done leaves in the device.
LEMMA RwReadsBack ==
    ASSUME NEW in \in Inputs, rwDevice \in [1..2 -> Word]
    PROVE  LET n == FromRegisters(in.type, Written(ToRegisters(in.type, Rounded(Divided(in)))))
               t == Types[in.type]
           IN  \/ 2 * n - Divided(in) \in -1..1
               \/ n = t.low /\ Divided(in) < 2 * n
               \/ n = t.high /\ Divided(in) > 2 * n
<1> DEFINE type == in.type
           d == Divided(in)
           r == Rounded(d)
           m == Clamped(type, r)
<1>1. type \in DOMAIN Types /\ d \in Int
  BY RwDivided DEF Inputs
<1>2. r \in Int /\ 2 * r - d \in -1..1
  BY <1>1, RwRounded
<1>3. /\ m \in Types[type].low..Types[type].high
      /\ \/ m = r
         \/ r < Types[type].low /\ m = Types[type].low
         \/ r > Types[type].high /\ m = Types[type].high
  BY <1>1, <1>2, RwClamped
<1>4. FromRegisters(type, Written(Split(type, m))) = m
  BY <1>1, <1>3, RwRoundTrip
<1>5. ToRegisters(type, r) = Split(type, m)
  BY DEF ToRegisters
<1>6. Types[type].low \in Int /\ Types[type].high \in Int
  BY <1>1, RwTypes
<1> HIDE DEF type, d, r, m
<1>7. \/ 2 * m - d \in -1..1
      \/ m = Types[type].low /\ d < 2 * m
      \/ m = Types[type].high /\ d > 2 * m
  BY <1>1, <1>2, <1>3, <1>6
<1>8. QED
  BY <1>4, <1>5, <1>7 DEF type, d, r

-----------------------------------------------------------------------------
(* The lock and the calls that wait for it.                                *)

\* A sequence without repetitions that one more is appended to has none.
LEMMA RwAppended ==
    ASSUME NEW S, NEW s \in Seq(S), NEW x \in S, x \notin Range(s), IsInjective(s)
    PROVE  /\ Append(s, x) \in Seq(S) /\ IsInjective(Append(s, x))
           /\ Range(Append(s, x)) = Range(s) \cup {x}
<1>1. /\ Append(s, x) \in Seq(S) /\ Len(s) \in Nat /\ DOMAIN s = 1..Len(s)
      /\ DOMAIN Append(s, x) = 1..Len(s) + 1 /\ Append(s, x)[Len(s) + 1] = x
      /\ \A i \in 1..Len(s) : Append(s, x)[i] = s[i]
  OBVIOUS
<1> DEFINE a == Append(s, x)
<1> HIDE DEF a
<1>2. \A i \in 1..Len(s) + 1 : a[i] = IF i <= Len(s) THEN s[i] ELSE x
  BY <1>1 DEF a
<1>3. IsInjective(a)
  BY <1>1, <1>2 DEF IsInjective, Range, a
<1>4. Range(a) = Range(s) \cup {x}
  BY <1>1, <1>2 DEF Range, a
<1>5. QED
  BY <1>1, <1>3, <1>4 DEF a

\* Nor has one that the first is taken from.
LEMMA RwShortened ==
    ASSUME NEW S, NEW s \in Seq(S), s # << >>, IsInjective(s)
    PROVE  /\ Tail(s) \in Seq(S) /\ IsInjective(Tail(s))
           /\ Range(Tail(s)) = Range(s) \ {Head(s)} /\ Head(s) \in Range(s)
<1>1. /\ Tail(s) \in Seq(S) /\ Len(s) \in Nat \ {0} /\ DOMAIN s = 1..Len(s)
      /\ Len(Tail(s)) = Len(s) - 1 /\ DOMAIN Tail(s) = 1..Len(s) - 1 /\ Head(s) = s[1]
      /\ \A i \in 1..Len(s) - 1 : Tail(s)[i] = s[i + 1]
  BY EmptySeq, HeadTailProperties
<1> DEFINE a == Tail(s)
<1> HIDE DEF a
<1>2. /\ DOMAIN a = 1..Len(s) - 1
      /\ \A i \in 1..Len(s) - 1 : a[i] = s[i + 1] /\ i + 1 \in 1..Len(s)
  BY <1>1 DEF a
<1>3. \A i, j \in 1..Len(s) : s[i] = s[j] => i = j
  BY <1>1 DEF IsInjective
<1>4. IsInjective(a)
  <2>1. ASSUME NEW i \in 1..Len(s) - 1, NEW j \in 1..Len(s) - 1, a[i] = a[j] PROVE i = j
    <3>1. i + 1 = j + 1
      BY <1>1, <1>2, <1>3, <2>1
    <3>2. QED
      BY <1>1, <3>1
  <2>2. QED
    BY <1>2, <2>1 DEF IsInjective
<1>5. Range(a) = Range(s) \ {Head(s)}
  <2>1. ASSUME NEW v \in Range(a) PROVE v \in Range(s) /\ v # Head(s)
    <3>1. PICK i \in 1..Len(s) - 1 : v = s[i + 1]
      BY <1>2 DEF Range
    <3>2. i + 1 \in 1..Len(s) /\ i + 1 # 1 /\ 1 \in 1..Len(s)
      BY <1>1
    <3>3. QED
      BY <1>1, <1>3, <3>1, <3>2 DEF Range
  <2>2. ASSUME NEW v \in Range(s), v # Head(s) PROVE v \in Range(a)
    <3>1. PICK i \in 1..Len(s) : v = s[i]
      BY <1>1 DEF Range
    <3>2. i - 1 \in 1..Len(s) - 1 /\ (i - 1) + 1 = i
      BY <1>1, <2>2, <3>1
    <3>3. a[i - 1] = v
      BY <1>2, <3>1, <3>2
    <3>4. QED
      BY <1>2, <3>2, <3>3 DEF Range
  <2>3. QED
    BY <2>1, <2>2
<1>6. Head(s) \in Range(s)
  BY <1>1 DEF Range
<1>7. QED
  BY <1>1, <1>4, <1>5, <1>6 DEF a

\* What is written into the registers are words.
LEMMA RwWritten ==
    ASSUME rwDevice \in [1..2 -> Word], NEW words \in Seq(Word)
    PROVE  Written(words) \in [1..2 -> Word]
BY DEF Written

\* What a value is converted to are words.
LEMMA RwConverted ==
    ASSUME NEW type \in DOMAIN Types, NEW n \in Int, rwDevice \in [1..2 -> Word]
    PROVE  ToRegisters(type, n) \in Seq(Word)
BY RwClamped, RwRoundTrip DEF ToRegisters

\* What a caller's step does to it.
LEMMA RwCallSet ==
    ASSUME NEW k \in RwCalls, NEW step \in RwSteps
    PROVE  [k EXCEPT !.step = step] \in RwCalls /\ [k EXCEPT !.step = step].step = step
BY DEF RwCalls

\* Nothing is written at first.
LEMMA RwInitially == RwInit => RwInv
<1> SUFFICES ASSUME RwInit PROVE RwInv
  OBVIOUS
<1>1. Idle \in RwCalls /\ Idle.step = "idle"
  BY DEF Idle, RwCalls, RwSteps
<1>2. rwCall \in [RwCallers -> RwCalls] /\ \A c \in RwCallers : rwCall[c].step = "idle"
  BY <1>1 DEF RwInit
<1>3. rwDevice \in [1..2 -> Word]
  <2>1. 0 \in Word
    BY RwWords DEF Word
  <2>2. QED
    BY <2>1 DEF RwInit
<1>4. rwLock = << >> /\ rwLock \in Seq(RwCallers \cup {"close"}) /\ IsInjective(rwLock)
      /\ Range(rwLock) = {}
  BY DEF RwInit, IsInjective, Range
<1>5. RwTypeOK
  BY <1>2, <1>3, <1>4 DEF RwInit, RwTypeOK, RwCalls, RwSteps
<1>6. QED
  BY <1>2, <1>4, <1>5 DEF RwInit, RwInv, RwQueued, ReadsBack, SuccessIsTrue, RwNoneQueued

\* Every call and every step of the writing thread keeps the order of the writes.
LEMMA RwPreserved == RwInv /\ [RwNext]_rwVars => RwInv'
<1> SUFFICES ASSUME RwInv, [RwNext]_rwVars PROVE RwInv'
  OBVIOUS
<1> DEFINE Queuers == RwCallers \cup {"close"}
<1>1. /\ rwDevice \in [1..2 -> Word] /\ rwCall \in [RwCallers -> RwCalls]
      /\ rwLock \in Seq(Queuers) /\ IsInjective(rwLock)
      /\ RwQueued /\ ReadsBack /\ SuccessIsTrue /\ RwNoneQueued
      /\ rwWriter \in {"blocking", "asynchronous"} /\ rwSimulated \in BOOLEAN
      /\ rwUp \in BOOLEAN /\ rwClient \in BOOLEAN
      /\ rwLast \in {NoWrite} \cup [of : Inputs] /\ rwPut \subseteq RwCallers
  BY DEF RwInv, RwTypeOK
\* What has to be shown of a step.
<1>2. ASSUME rwDevice' \in [1..2 -> Word], rwCall' \in [RwCallers -> RwCalls],
             rwLock' \in Seq(Queuers), IsInjective(rwLock'), RwQueued', ReadsBack', SuccessIsTrue',
             RwNoneQueued', UNCHANGED rwConfig, rwUp' \in BOOLEAN, rwClient' \in BOOLEAN,
             rwLast' \in {NoWrite} \cup [of : Inputs], rwPut' \subseteq RwCallers
      PROVE  RwInv'
  <2>1. \A c \in RwCallers : rwCall'[c] \in RwCalls
    BY <1>2
  <2>2. \A c \in RwCallers : rwCall'[c].step \in RwSteps /\ rwCall'[c].words \in Seq(Word)
    BY <2>1 DEF RwCalls
  <2>3. QED
    BY <1>1, <1>2, <2>2 DEF RwInv, RwTypeOK, RwSteps, rwConfig
<1>3. ASSUME UNCHANGED <<rwDevice, rwLast, rwConfig>> PROVE ReadsBack'
  BY <1>1, <1>3 DEF ReadsBack, rwConfig
<1>4. CASE SyncConnect \/ SyncClose \/ UNCHANGED rwVars
  <2>1. /\ UNCHANGED <<rwConfig, rwDevice, rwLock, rwCall, rwLast, rwPut>>
        /\ rwUp' \in BOOLEAN /\ rwClient' \in BOOLEAN
    BY <1>1, <1>4 DEF SyncConnect, SyncClose, rwVars
  <2>2. RwQueued' /\ SuccessIsTrue' /\ RwNoneQueued'
    BY <1>1, <2>1 DEF RwQueued, SuccessIsTrue, RwNoneQueued, rwConfig
  <2>3. QED
    BY <1>1, <1>2, <1>3, <2>1, <2>2
<1>5. CASE WriteRegister
  <2>1. PICK in \in Inputs :
            LET device == Written(ToRegisters(in.type, Rounded(Divided(in))))
            IN  \/ rwDevice' = (IF rwSimulated THEN rwDevice ELSE device) /\ rwLast' = [of |-> in]
                \/ ~rwSimulated /\ rwDevice' \in {device, rwDevice} /\ rwLast' = NoWrite
    BY <1>5 DEF WriteRegister
  <2>2. Written(ToRegisters(in.type, Rounded(Divided(in)))) \in [1..2 -> Word]
    <3>1. in.type \in DOMAIN Types /\ Rounded(Divided(in)) \in Int
      BY RwDivided, RwRounded DEF Inputs
    <3>2. QED
      BY <1>1, <3>1, RwConverted, RwWritten
  <2>3. ReadsBack'
    <3> SUFFICES ASSUME ~rwSimulated' PROVE ReadsBack'
      BY DEF ReadsBack
    <3>0. ~rwSimulated
      BY <1>5 DEF WriteRegister, rwConfig
    <3>1. CASE rwLast' = NoWrite
      BY <3>1 DEF ReadsBack
    <3>2. CASE /\ rwDevice' = Written(ToRegisters(in.type, Rounded(Divided(in))))
               /\ rwLast' = [of |-> in]
      <4>1. rwLast'.of = in
        BY <3>2
      <4>2. QED
        BY <1>1, <3>2, <4>1, RwReadsBack DEF ReadsBack
    <3>3. QED
      BY <2>1, <3>0, <3>1, <3>2
  <2>4. UNCHANGED <<rwConfig, rwUp, rwClient, rwLock, rwCall, rwPut>>
    BY <1>5 DEF WriteRegister
  <2>5. RwQueued' /\ SuccessIsTrue' /\ RwNoneQueued'
    BY <1>1, <2>1, <2>4 DEF RwQueued, SuccessIsTrue, RwNoneQueued, rwConfig
  <2>6. QED
    BY <1>1, <1>2, <2>1, <2>2, <2>3, <2>4, <2>5
\* A caller goes on.
<1>6. ASSUME NEW c \in RwCallers, NEW k \in RwCalls, rwCall' = [rwCall EXCEPT ![c] = k]
      PROVE  /\ rwCall' \in [RwCallers -> RwCalls] /\ rwCall'[c] = k
             /\ \A e \in RwCallers : e # c => rwCall'[e] = rwCall[e]
  BY <1>1, <1>6
<1>7. ASSUME NEW c \in RwCallers, WriteBegins(c) PROVE RwInv'
  <2>1. PICK in \in Samples :
            rwCall' = [rwCall EXCEPT ![c] =
                          [step |-> IF rwSimulated THEN "done"
                                    ELSE IF rwUp THEN "lock" ELSE "connect",
                           words |-> ToRegisters(in.type, Truncated(Multiplied(in)))]]
    BY <1>7 DEF WriteBegins
  <2> DEFINE words == ToRegisters(in.type, Truncated(Multiplied(in)))
             k == [step |-> IF rwSimulated THEN "done" ELSE IF rwUp THEN "lock" ELSE "connect",
                   words |-> words]
  <2>2. words \in Seq(Word)
    <3>1. in.type \in DOMAIN Types /\ in.value = -1 /\ in.offset = 0 /\ in.scale = <<1, 1>>
      BY DEF Samples, Types
    <3>2. Truncated(Multiplied(in)) \in Int
      BY <3>1 DEF Multiplied, Truncated
    <3>3. QED
      BY <1>1, <3>1, <3>2, RwConverted
  <2>3. k \in RwCalls /\ (IF rwSimulated THEN k.step = "done" ELSE k.step \in {"lock", "connect"})
    <3> HIDE DEF words
    <3>1. QED
      BY <2>2 DEF RwCalls, RwSteps
  <2>4. /\ rwCall[c].step = "idle" /\ rwPut' = rwPut \ {c}
        /\ rwLock' = IF rwSimulated THEN rwLock ELSE Append(rwLock, c)
        /\ UNCHANGED <<rwConfig, rwDevice, rwUp, rwClient, rwLast>>
    BY <1>7 DEF WriteBegins
  <2> HIDE DEF k
  <2>5. /\ rwCall' \in [RwCallers -> RwCalls] /\ rwCall'[c] = k
        /\ \A e \in RwCallers : e # c => rwCall'[e] = rwCall[e]
    BY <1>6, <2>1, <2>3 DEF k
  <2>6. c \notin Range(rwLock)
    BY <1>1, <2>4 DEF RwQueued
  <2>7. /\ rwLock' \in Seq(Queuers) /\ IsInjective(rwLock')
        /\ Range(rwLock') = IF rwSimulated THEN Range(rwLock) ELSE Range(rwLock) \cup {c}
    <3>1. CASE rwSimulated
      <4>1. rwLock' = rwLock
        BY <2>4, <3>1
      <4>2. QED
        BY <1>1, <3>1, <4>1
    <3>2. CASE ~rwSimulated
      <4>1. rwLock' = Append(rwLock, c)
        BY <2>4, <3>2
      <4>2. QED
        BY <1>1, <2>6, <3>2, <4>1, RwAppended
    <3>3. QED
      BY <3>1, <3>2
  <2>8. RwQueued' /\ RwNoneQueued'
    BY <1>1, <2>3, <2>4, <2>5, <2>7 DEF RwQueued, RwNoneQueued, rwConfig
  <2>9. SuccessIsTrue'
    BY <1>1, <2>3, <2>4, <2>5 DEF SuccessIsTrue, rwConfig
  <2>10. QED
    BY <1>1, <1>2, <1>3, <2>4, <2>5, <2>7, <2>8, <2>9
<1>8. ASSUME NEW c \in RwCallers, Connected(c) PROVE RwInv'
  <2>1. /\ rwLock # << >> /\ Head(rwLock) = c /\ rwCall[c] \in RwCalls
        /\ rwUp' \in BOOLEAN /\ rwClient' \in BOOLEAN
        /\ UNCHANGED <<rwConfig, rwDevice, rwLast, rwPut>>
    BY <1>1, <1>8 DEF Connected
  <2>2. PICK step \in {"lock", "failed"} :
            /\ rwCall' = [rwCall EXCEPT ![c] = [rwCall[c] EXCEPT !.step = step]]
            /\ rwLock' = IF step = "lock" THEN Append(Tail(rwLock), c) ELSE Tail(rwLock)
    <3>1. \/ /\ rwCall' = [rwCall EXCEPT ![c] = [rwCall[c] EXCEPT !.step = "lock"]]
             /\ rwLock' = Append(Tail(rwLock), c)
          \/ /\ rwCall' = [rwCall EXCEPT ![c] = [rwCall[c] EXCEPT !.step = "failed"]]
             /\ rwLock' = Tail(rwLock)
      BY <1>8 DEF Connected
    <3>2. QED
      BY <3>1
  <2> DEFINE k == [rwCall[c] EXCEPT !.step = step]
  <2>3. k \in RwCalls /\ k.step = step
    <3>1. step \in RwSteps
      BY DEF RwSteps
    <3>2. QED
      BY <2>1, <3>1, RwCallSet
  <2> HIDE DEF k
  <2>4. /\ rwCall' \in [RwCallers -> RwCalls] /\ rwCall'[c] = k
        /\ \A e \in RwCallers : e # c => rwCall'[e] = rwCall[e]
    BY <1>6, <2>2, <2>3 DEF k
  <2>5. /\ Tail(rwLock) \in Seq(Queuers) /\ IsInjective(Tail(rwLock))
        /\ Range(Tail(rwLock)) = Range(rwLock) \ {c}
    BY <1>1, <2>1, RwShortened
  <2>6. /\ rwLock' \in Seq(Queuers) /\ IsInjective(rwLock')
        /\ Range(rwLock') = IF step = "lock" THEN (Range(rwLock) \ {c}) \cup {c}
                            ELSE Range(rwLock) \ {c}
    <3>1. CASE step = "lock"
      <4>1. c \in Queuers /\ c \notin Range(Tail(rwLock)) /\ rwLock' = Append(Tail(rwLock), c)
        BY <2>2, <2>5, <3>1
      <4> DEFINE tail == Tail(rwLock)
      <4> HIDE DEF tail
      <4>2. /\ tail \in Seq(Queuers) /\ IsInjective(tail) /\ Range(tail) = Range(rwLock) \ {c}
            /\ c \in Queuers /\ c \notin Range(tail) /\ rwLock' = Append(tail, c)
        BY <2>5, <4>1 DEF tail
      <4>3. /\ Append(tail, c) \in Seq(Queuers) /\ IsInjective(Append(tail, c))
            /\ Range(Append(tail, c)) = Range(tail) \cup {c}
        BY <4>2, RwAppended
      <4>4. QED
        BY <3>1, <4>2, <4>3
    <3>2. CASE step = "failed"
      BY <2>2, <2>5, <3>2
    <3>3. QED
      BY <3>1, <3>2
  <2>7. RwQueued' /\ RwNoneQueued'
    <3>1. ~rwSimulated
      BY <1>1, <1>8 DEF Connected, RwNoneQueued
    <3>2. QED
      BY <1>1, <2>1, <2>2, <2>3, <2>4, <2>6, <3>1 DEF RwQueued, RwNoneQueued, rwConfig
  <2>8. SuccessIsTrue'
    BY <1>1, <2>1, <2>3, <2>4 DEF SuccessIsTrue, rwConfig
  <2>9. QED
    BY <1>1, <1>2, <1>3, <2>1, <2>4, <2>6, <2>7, <2>8
<1>9. ASSUME NEW c \in RwCallers, WriteReturns(c) PROVE RwInv'
  <2>1. /\ rwLock # << >> /\ Head(rwLock) = c /\ rwCall[c] \in RwCalls /\ rwLock' = Tail(rwLock)
        /\ rwLast' = IF rwDevice' = rwDevice THEN rwLast ELSE NoWrite
        /\ UNCHANGED <<rwConfig, rwUp, rwClient>>
    BY <1>1, <1>9 DEF WriteReturns
  <2>2. PICK step \in {"done", "failed"} :
            /\ rwCall' = [rwCall EXCEPT ![c] = [rwCall[c] EXCEPT !.step = step]]
            /\ \/ rwDevice' = Written(rwCall[c].words) /\ rwPut' = rwPut \cup {c}
               \/ step = "failed" /\ UNCHANGED <<rwDevice, rwPut>>
    BY <1>9 DEF WriteReturns
  <2> DEFINE k == [rwCall[c] EXCEPT !.step = step]
  <2>3. k \in RwCalls /\ k.step = step
    <3>1. step \in RwSteps
      BY DEF RwSteps
    <3>2. QED
      BY <2>1, <3>1, RwCallSet
  <2> HIDE DEF k
  <2>4. /\ rwCall' \in [RwCallers -> RwCalls] /\ rwCall'[c] = k
        /\ \A e \in RwCallers : e # c => rwCall'[e] = rwCall[e]
    BY <1>6, <2>2, <2>3 DEF k
  <2>5. /\ rwLock' \in Seq(Queuers) /\ IsInjective(rwLock')
        /\ Range(rwLock') = Range(rwLock) \ {c}
    BY <1>1, <2>1, RwShortened
  <2>6. rwDevice' \in [1..2 -> Word] /\ rwPut' \subseteq RwCallers
    <3>1. rwCall[c].words \in Seq(Word)
      BY <2>1 DEF RwCalls
    <3>2. QED
      BY <1>1, <2>2, <3>1, RwWritten
  <2>7. RwQueued'
    BY <1>1, <2>4, <2>5 DEF RwQueued
  <2>8. SuccessIsTrue' /\ RwNoneQueued'
    <3>1. ~rwSimulated
      BY <1>1, <1>9 DEF WriteReturns, RwNoneQueued
    <3>2. QED
      BY <1>1, <2>1, <2>2, <2>3, <2>4, <3>1 DEF SuccessIsTrue, RwNoneQueued, rwConfig
  <2>9. ReadsBack' /\ rwLast' \in {NoWrite} \cup [of : Inputs]
    <3>1. CASE rwDevice' = rwDevice
      BY <1>1, <1>3, <2>1, <3>1 DEF rwConfig
    <3>2. CASE rwDevice' # rwDevice
      BY <2>1, <3>2 DEF ReadsBack
    <3>3. QED
      BY <3>1, <3>2
  <2>10. QED
    BY <1>1, <1>2, <2>1, <2>4, <2>5, <2>6, <2>7, <2>8, <2>9
<1>10. ASSUME NEW c \in RwCallers, Reported(c) PROVE RwInv'
  <2>1. /\ rwCall' = [rwCall EXCEPT ![c] = Idle] /\ rwCall[c].step \in {"done", "failed"}
        /\ UNCHANGED <<rwConfig, rwDevice, rwUp, rwClient, rwLock, rwLast, rwPut>>
    BY <1>10 DEF Reported
  <2>2. Idle \in RwCalls /\ Idle.step = "idle"
    BY DEF Idle, RwCalls, RwSteps
  <2>3. /\ rwCall' \in [RwCallers -> RwCalls] /\ rwCall'[c] = Idle
        /\ \A e \in RwCallers : e # c => rwCall'[e] = rwCall[e]
    BY <1>6, <2>1, <2>2
  <2>4. RwQueued' /\ SuccessIsTrue' /\ RwNoneQueued'
    BY <1>1, <2>1, <2>2, <2>3 DEF RwQueued, SuccessIsTrue, RwNoneQueued, rwConfig
  <2>5. QED
    BY <1>1, <1>2, <1>3, <2>1, <2>3, <2>4
<1>11. CASE CloseAsked
  <2>1. /\ "close" \notin Range(rwLock) /\ rwLock' = Append(rwLock, "close")
        /\ UNCHANGED <<rwConfig, rwDevice, rwUp, rwClient, rwCall, rwLast, rwPut>>
    BY <1>11 DEF CloseAsked
  <2>2. /\ rwLock' \in Seq(Queuers) /\ IsInjective(rwLock')
        /\ Range(rwLock') = Range(rwLock) \cup {"close"}
    BY <1>1, <2>1, RwAppended
  <2>3. RwQueued' /\ SuccessIsTrue' /\ RwNoneQueued'
    BY <1>1, <2>1, <2>2, RegisterAssumption DEF RwQueued, SuccessIsTrue, RwNoneQueued, rwConfig
  <2>4. QED
    BY <1>1, <1>2, <1>3, <2>1, <2>2, <2>3
<1>12. CASE Closed
  <2>1. /\ rwLock # << >> /\ rwLock' = Tail(rwLock) /\ rwUp' = FALSE /\ rwClient' = FALSE
        /\ UNCHANGED <<rwConfig, rwDevice, rwCall, rwLast, rwPut>>
    BY <1>12 DEF Closed
  <2>2. /\ rwLock' \in Seq(Queuers) /\ IsInjective(rwLock')
        /\ Range(rwLock') \subseteq Range(rwLock)
    BY <1>1, <2>1, RwShortened
  <2>3. RwQueued' /\ SuccessIsTrue' /\ RwNoneQueued'
    BY <1>1, <2>1, <2>2 DEF RwQueued, SuccessIsTrue, RwNoneQueued, rwConfig
  <2>4. QED
    BY <1>1, <1>2, <1>3, <2>1, <2>2, <2>3
<1>13. QED
  BY <1>4, <1>5, <1>7, <1>8, <1>9, <1>10, <1>11, <1>12 DEF RwNext

\* ModbusWriter and ModbusRegisterWriter: outside simulation what was reported written reads back
\* as the scaled value within half a unit or as the limit it is beyond, for words of any even
\* number of values, and a write that reports success has put its words into the device; in
\* simulation nothing is written.
THEOREM WritersAreSafe == RwBehaviour => [](RwTypeOK /\ WritersSafe)
<1>1. RwInv => RwTypeOK /\ WritersSafe
  BY DEF RwInv, WritersSafe
<1>2. QED
  BY RwInitially, RwPreserved, <1>1, PTL DEF RwBehaviour

-----------------------------------------------------------------------------
(***************************************************************************)
(* The collector.                                                          *)
(***************************************************************************)
DcBehaviour == DcInit /\ [][DcNext]_dcVars

\* What HealthIsTrue rests on: no reading was missed before the first one, the two counts are
\* one, and outside the long interval they are below its threshold.
DcInv ==
    /\ HealthIsTrue
    /\ dcFailures \in Nat /\ dcFailures = dcMissed
    /\ dcAt \in {"new", "connect"} => dcMissed = 0 /\ dcHealth = "disconnected"
    /\ dcAt \notin {"degraded", "retry", "stopped"} => dcMissed < DegradedThreshold
    /\ dcHealth = "disconnected" => dcAt = "stopped" \/ dcMissed < UnstableThreshold
    /\ dcAt = "stopped" => dcHealth = "disconnected"

\* Nothing was read or missed at first.
LEMMA DcInitially == DcInit => DcInv
BY DcAssumption DEF DcInit, DcInv, HealthIsTrue

\* Every step keeps the health true.
LEMMA DcPreserved == DcInv /\ [DcNext]_dcVars => DcInv'
<1> USE DcAssumption DEF DcInv, HealthIsTrue
<1> SUFFICES ASSUME DcInv, [DcNext]_dcVars PROVE DcInv'
  OBVIOUS
<1>1. CASE DcStart
  BY <1>1 DEF DcStart
<1>2. CASE DcConnected
  BY <1>2 DEF DcConnected
<1>3. CASE DcRead
  <2>1. ASSUME Success("rest"), dcAt = "read" PROVE DcInv'
    BY <2>1 DEF Success
  <2>2. ASSUME Failure, dcAt = "read" PROVE DcInv'
    BY <2>2 DEF Failure, OneMore
  <2>3. QED
    BY <1>3, <2>1, <2>2 DEF DcRead
<1>4. CASE DcReadRaises \/ DcRested \/ DcBackedOff \/ DcReconnected
  BY <1>4 DEF DcReadRaises, DcRested, DcBackedOff, DcReconnected
<1>5. CASE DcRetry
  BY <1>5 DEF DcRetry
<1>6. CASE DcConfirm
  BY <1>6 DEF DcConfirm, Success
<1>7. CASE DcStop \/ DeviceChanges
  BY <1>7 DEF DcStop, DeviceChanges
<1>8. CASE UNCHANGED dcVars
  BY <1>8 DEF dcVars
<1>9. QED
  BY <1>1, <1>2, <1>3, <1>4, <1>5, <1>6, <1>7, <1>8 DEF DcNext, DcStep

\* Every step keeps the types of the collector.
LEMMA DcTypesKept == DcTypeOK /\ [DcNext]_dcVars => DcTypeOK'
<1> USE DcAssumption DEF DcTypeOK
<1> SUFFICES ASSUME DcTypeOK, [DcNext]_dcVars PROVE DcTypeOK'
  OBVIOUS
<1>1. CASE DcStart
  BY <1>1 DEF DcStart
<1>2. CASE DcConnected
  BY <1>2 DEF DcConnected
<1>3. CASE DcRead
  <2>1. CASE Success("rest")
    BY <1>3, <2>1 DEF DcRead, Success
  <2>2. CASE Failure
    <3>1. OneMore(dcFailures) \in 0..DegradedThreshold /\ OneMore(dcMissed) \in 0..DegradedThreshold
      BY DEF OneMore
    <3>2. QED
      BY <1>3, <2>2, <3>1 DEF DcRead, Failure
  <2>3. QED
    BY <1>3, <2>1, <2>2 DEF DcRead
<1>4. CASE DcReadRaises \/ DcRested \/ DcReconnected
  BY <1>4 DEF DcReadRaises, DcRested, DcReconnected
<1>5. CASE DcBackedOff
  BY <1>5 DEF DcBackedOff
<1>6. CASE DcRetry
  BY <1>6 DEF DcRetry
<1>7. CASE DcConfirm
  BY <1>7 DEF DcConfirm, Success
<1>8. CASE DcStop \/ DeviceChanges
  BY <1>8 DEF DcStop, DeviceChanges
<1>9. CASE UNCHANGED dcVars
  BY <1>9 DEF dcVars
<1>10. QED
  BY <1>1, <1>2, <1>3, <1>4, <1>5, <1>6, <1>7, <1>8, <1>9 DEF DcNext, DcStep

\* The health that the web pages and the reporting loop look at tells the number of missed
\* readings, and the counts and the back-off keep their bounds; for every choice of the thresholds.
THEOREM CollectorIsSafe == DcBehaviour => [](DcTypeOK /\ HealthIsTrue)
<1>1. DcInit => DcTypeOK
  <2>1. 0 \in 0..DegradedThreshold /\ 0 \in 0..MaxDelay
    BY DcAssumption
  <2>2. QED
    BY <2>1, Zenon DEF DcInit, DcTypeOK
<1>2. DcInv => HealthIsTrue
  BY DEF DcInv
<1>3. QED
  BY <1>1, <1>2, DcTypesKept, DcInitially, DcPreserved, PTL DEF DcBehaviour

-----------------------------------------------------------------------------
(***************************************************************************)
(* The counting of cycles.                                                 *)
(***************************************************************************)
CtBehaviour == CtInit /\ [][CtNext]_ctVars

\* What a record, in memory or in a file, says of the battery is true.
CtBalanced(data) ==
    data.charge - data.discharge = IF data.last = NoSoc THEN 0 ELSE data.last - ctFirst

\* A file that says something, by itself and beside the others: it is balanced, and has the
\* cycles of the last save that wrote both files.
CtWhole(file) == file.kind = "ok" => CtBalanced(file.data) /\ file.data.count >= ctKept

\* The primary file is missing only before the first save; when it is damaged the backup is whole;
\* it is whole while it is copied.
CtFiles ==
    /\ CtWhole(ctPrimary) /\ CtWhole(ctBackup)
    /\ ctPrimary.kind = "missing" => ctBackup.kind = "missing" /\ ctKept = 0
    /\ ctPrimary.kind = "damaged" => ctBackup.kind = "ok"
    /\ ctAt = "copy" => ctPrimary.kind = "ok"

\* The primary file that is being copied has the record in memory.
CtCopied == ctAt = "copy" => ctPrimary.data = ctData

\* Without a state of charge in memory there is none in a file, and without one in the primary
\* file there is none in the backup: the first one that is recorded is the first for all.
CtFirstKnown ==
    /\ ctPrimary.kind = "ok" /\ ctPrimary.data.last = NoSoc /\ ctBackup.kind = "ok" =>
           ctBackup.data.last = NoSoc
    /\ ctAt # "load" /\ ctData.last = NoSoc =>
           /\ ctPrimary.kind = "ok" => ctPrimary.data.last = NoSoc
           /\ ctBackup.kind = "ok" => ctBackup.data.last = NoSoc

CtInv ==
    /\ CtTypeOK /\ CtFiles /\ CtCopied /\ CtFirstKnown
    /\ CtBalanced(ctData)
    /\ ctAt # "load" => ctData.count >= ctKept

-----------------------------------------------------------------------------

\* Cycles that are full are not more than the charge allows.
LEMMA CtCounting ==
    ASSUME NEW count \in Int, NEW charge \in Nat, count * Full + charge <= MaxCycles * Full
    PROVE  count <= MaxCycles
<1>1. Full \in Nat \ {0} /\ MaxCycles \in Nat
  BY CtAssumption
<1>2. ASSUME count >= MaxCycles + 1 PROVE FALSE
  <2> DEFINE more == count - MaxCycles - 1
  <2>1. more \in Nat /\ count = MaxCycles + 1 + more
    BY <1>1, <1>2
  <2> HIDE DEF more
  <2>2. more * Full \in Nat /\ MaxCycles * Full \in Nat
    BY <1>1, <2>1
  <2>3. count * Full = MaxCycles * Full + Full + more * Full
    BY <1>1, <2>1
  <2>4. QED
    BY <1>1, <2>2, <2>3
<1>3. QED
  BY <1>1, <1>2

\* What a sample makes of a record, in numbers: what the charge gains over the discharge is what
\* the state of charge gained, and a cycle takes as much of both.
LEMMA CtTracking ==
    ASSUME NEW d \in CycleData, NEW soc \in 0..MaxSoc,
           Tracked(d, soc).count * Full + Tracked(d, soc).charge <= MaxCycles * Full,
           Tracked(d, soc).count * Full + Tracked(d, soc).discharge <= MaxCycles * Full
    PROVE  /\ Tracked(d, soc) \in CycleData
           /\ Tracked(d, soc).count >= d.count
           /\ Tracked(d, soc).last = soc
           /\ Tracked(d, soc).charge - Tracked(d, soc).discharge =
                  d.charge - d.discharge + (IF d.last = NoSoc THEN 0 ELSE soc - d.last)
<1> DEFINE rise == IF d.last # NoSoc /\ soc > d.last THEN soc - d.last ELSE 0
           fall == IF d.last # NoSoc /\ soc < d.last THEN d.last - soc ELSE 0
           charge == d.charge + rise
           discharge == d.discharge + fall
           turn == IF charge >= Full /\ discharge >= Full THEN 1 ELSE 0
           count1 == d.count + turn
           charge1 == charge - turn * Full
           discharge1 == discharge - turn * Full
<1>1. Full \in Nat \ {0} /\ MaxCycles \in Nat /\ MaxSoc \in Nat /\ MaxCycles * Full \in Nat
  BY CtAssumption
<1>2. /\ d.count \in Nat /\ d.charge \in Nat /\ d.discharge \in Nat /\ d.last \in NoSoc..MaxSoc
      /\ d.last \in Int /\ soc \in Nat
  BY <1>1 DEF CycleData, NoSoc
<1>3. /\ rise \in Nat /\ fall \in Nat
      /\ rise - fall = IF d.last = NoSoc THEN 0 ELSE soc - d.last
  BY <1>1, <1>2 DEF NoSoc
<1>4. Tracked(d, soc) = [count |-> count1, charge |-> charge1, discharge |-> discharge1, last |-> soc]
  BY DEF Tracked
<1> HIDE DEF rise, fall
<1>5. charge \in Nat /\ discharge \in Nat /\ turn \in {0, 1}
  BY <1>2, <1>3
<1>6. /\ count1 \in Nat /\ count1 >= d.count /\ charge1 \in Nat /\ discharge1 \in Nat
      /\ charge1 - discharge1 = charge - discharge
  <2>1. CASE charge >= Full /\ discharge >= Full
    BY <1>1, <1>2, <1>5, <2>1
  <2>2. CASE ~(charge >= Full /\ discharge >= Full)
    BY <1>1, <1>2, <1>5, <2>2
  <2>3. QED
    BY <2>1, <2>2
<1> HIDE DEF count1, charge1, discharge1
<1>7. /\ count1 * Full + charge1 <= MaxCycles * Full
      /\ count1 * Full + discharge1 <= MaxCycles * Full
  BY <1>4
<1>8. count1 <= MaxCycles
  BY <1>6, <1>7, CtCounting
<1>9. charge1 <= MaxCycles * Full + MaxSoc /\ discharge1 <= MaxCycles * Full + MaxSoc
  <2>1. count1 * Full \in Nat
    BY <1>1, <1>6
  <2>2. QED
    BY <1>1, <1>6, <1>7, <2>1
<1>10. Tracked(d, soc) \in CycleData
  <2>1. soc \in NoSoc..MaxSoc
    BY <1>1, <1>2 DEF NoSoc
  <2>2. count1 \in 0..MaxCycles /\ charge1 \in 0..MaxCycles * Full + MaxSoc
        /\ discharge1 \in 0..MaxCycles * Full + MaxSoc
    BY <1>1, <1>6, <1>8, <1>9
  <2>3. QED
    BY <1>4, <2>1, <2>2 DEF CycleData
<1>11. /\ Tracked(d, soc).count = count1 /\ Tracked(d, soc).last = soc
       /\ Tracked(d, soc).charge = charge1 /\ Tracked(d, soc).discharge = discharge1
  BY <1>4
<1>12. charge1 - discharge1 = d.charge - d.discharge + (rise - fall)
  BY <1>2, <1>3, <1>5, <1>6
<1>13. QED
  BY <1>3, <1>6, <1>10, <1>11, <1>12

\* The cycles that a file can hold, and those of a program without one.
LEMMA CtEmpty ==
    /\ NewCycles \in CycleData /\ NewCycles.last = NoSoc /\ NewCycles.count = 0
    /\ \A kind \in {"missing", "damaged"} :
           Broken(kind) \in CycleFile /\ Broken(kind).kind = kind
    /\ \A d \in CycleData : File(d) \in CycleFile /\ File(d).kind = "ok" /\ File(d).data = d
<1>1. MaxCycles * Full \in Nat /\ MaxSoc \in Nat /\ MaxCycles \in Nat
  BY CtAssumption
<1>2. 0 \in 0..MaxCycles /\ 0 \in 0..MaxCycles * Full + MaxSoc /\ NoSoc \in NoSoc..MaxSoc
  BY <1>1 DEF NoSoc
<1>3. NewCycles \in CycleData /\ NewCycles.last = NoSoc /\ NewCycles.count = 0
  BY <1>2 DEF NewCycles, CycleData
<1>4. \A kind \in {"missing", "damaged"} :
          Broken(kind) \in CycleFile /\ Broken(kind).kind = kind
  BY <1>3 DEF Broken, CycleFile
<1>5. \A d \in CycleData : File(d) \in CycleFile /\ File(d).kind = "ok" /\ File(d).data = d
  BY DEF File, CycleFile
<1>6. QED
  BY <1>3, <1>4, <1>5

\* No cycle is counted or saved at first.
LEMMA CtInitially == CtInit => CtInv
<1> SUFFICES ASSUME CtInit PROVE CtInv
  OBVIOUS
<1>1. CtTypeOK
  <2>1. ctFirst \in NoSoc..MaxSoc /\ ctKept \in 0..MaxCycles /\ ctFaults \in 0..MaxFaults
    BY CtAssumption DEF CtInit, NoSoc
  <2>2. QED
    BY <2>1, CtEmpty DEF CtInit, CtTypeOK
<1>2. /\ ctPrimary.kind = "missing" /\ ctBackup.kind = "missing" /\ ctKept = 0 /\ ctAt = "load"
      /\ ctData.last = NoSoc
  BY CtEmpty DEF CtInit
<1>3. CtFiles
  BY <1>2 DEF CtFiles, CtWhole
<1>4. CtFirstKnown
  BY <1>2 DEF CtFirstKnown
<1>6. CtBalanced(ctData)
  BY DEF CtInit, NewCycles, CtBalanced
<1>5. QED
  BY <1>1, <1>2, <1>3, <1>4, <1>6 DEF CtInv, CtCopied

\* Every reading, save, crash, damage and restart keeps what the files hold of the cycles.
LEMMA CtPreserved == CtInv /\ [CtNext]_ctVars => CtInv'
<1> SUFFICES ASSUME CtInv, [CtNext]_ctVars PROVE CtInv'
  OBVIOUS
<1>1. /\ CtTypeOK /\ CtFiles /\ CtCopied /\ CtFirstKnown /\ CtBalanced(ctData)
      /\ ctAt # "load" => ctData.count >= ctKept
  BY DEF CtInv
<1>2. /\ ctData \in CycleData /\ ctPrimary \in CycleFile /\ ctBackup \in CycleFile
      /\ ctPrimary.data \in CycleData /\ ctBackup.data \in CycleData
      /\ ctPrimary.kind \in {"missing", "damaged", "ok"}
      /\ ctBackup.kind \in {"missing", "damaged", "ok"}
      /\ ctFirst \in NoSoc..MaxSoc /\ ctKept \in 0..MaxCycles /\ ctFaults \in 0..MaxFaults
      /\ ctAt \in {"load", "run", "replace", "copy"}
  BY <1>1 DEF CtTypeOK, CycleFile
<1>3. ctKept \in Nat /\ \A d \in CycleData : d.count \in 0..MaxCycles /\ d.count \in Nat
  BY <1>2, CtAssumption DEF CycleData
<1>4. /\ NewCycles \in CycleData /\ NewCycles.last = NoSoc /\ NewCycles.count = 0
      /\ Broken("damaged") \in CycleFile /\ Broken("damaged").kind = "damaged"
      /\ File(ctData) \in CycleFile /\ File(ctData).kind = "ok" /\ File(ctData).data = ctData
  BY <1>2, CtEmpty
<1>5. CASE CtLoad
  <2>1. /\ ctAt = "load"
        /\ UNCHANGED <<ctPrimary, ctBackup, ctFirst, ctKept, ctFaults>>
    BY <1>5 DEF CtLoad
  <2>2. \/ /\ ctPrimary.kind = "ok" /\ ctData' = ctPrimary.data /\ ctAt' = "run"
        \/ /\ ctPrimary.kind = "missing" /\ ctData' = NewCycles /\ ctAt' = "replace"
        \/ /\ ctPrimary.kind = "damaged" /\ ctBackup.kind = "ok" /\ ctData' = ctBackup.data
           /\ ctAt' = "run"
    BY <1>1, <1>2, <1>5 DEF CtLoad, Loaded, CtFiles
  <2>3. ctData' \in CycleData /\ ctAt' \in {"run", "replace"}
    BY <1>2, <1>4, <2>2
  <2>4. CtTypeOK'
    BY <1>1, <2>1, <2>3 DEF CtTypeOK
  <2>5. CtFiles'
    BY <1>1, <2>1, <2>3 DEF CtFiles, CtWhole, CtBalanced
  <2>6. CtFirstKnown'
    BY <1>1, <2>1, <2>2 DEF CtFirstKnown, CtFiles
  <2>7. CtBalanced(ctData)' /\ ctData'.count >= ctKept'
    <3>1. CASE ctPrimary.kind = "ok" /\ ctData' = ctPrimary.data
      BY <1>1, <2>1, <3>1 DEF CtBalanced, CtFiles, CtWhole
    <3>2. CASE ctPrimary.kind = "missing" /\ ctData' = NewCycles
      <4>1. ctKept = 0
        BY <1>1, <3>2 DEF CtFiles
      <4>2. QED
        BY <2>1, <3>2, <4>1 DEF CtBalanced, NewCycles
    <3>3. CASE ctBackup.kind = "ok" /\ ctData' = ctBackup.data
      BY <1>1, <2>1, <3>3 DEF CtBalanced, CtFiles, CtWhole
    <3>4. QED
      BY <2>2, <3>1, <3>2, <3>3
  <2>8. QED
    BY <2>3, <2>4, <2>5, <2>6, <2>7 DEF CtInv, CtCopied
<1>6. ASSUME NEW soc \in 0..MaxSoc, CtSample(soc) PROVE CtInv'
  <2> DEFINE d == Tracked(ctData, soc)
  <2>1. /\ ctAt = "run" /\ ctAt' = "replace" /\ ctData' = d
        /\ d.count * Full + d.charge <= MaxCycles * Full
        /\ d.count * Full + d.discharge <= MaxCycles * Full
        /\ ctFirst' = IF ctData.last = NoSoc THEN soc ELSE ctFirst
        /\ UNCHANGED <<ctPrimary, ctBackup, ctKept, ctFaults>>
    BY <1>6 DEF CtSample
  <2>2. /\ d \in CycleData /\ d.count >= ctData.count /\ d.last = soc
        /\ d.charge - d.discharge =
               ctData.charge - ctData.discharge + (IF ctData.last = NoSoc THEN 0 ELSE soc - ctData.last)
    BY <1>2, <1>6, <2>1, CtTracking
  <2> HIDE DEF d
  <2>3. soc \in NoSoc..MaxSoc /\ soc # NoSoc /\ soc \in Int
    BY CtAssumption DEF NoSoc
  <2>4. CtTypeOK'
    BY <1>1, <2>1, <2>2, <2>3 DEF CtTypeOK
  <2>5. ASSUME NEW file \in {ctPrimary, ctBackup}, file.kind = "ok"
        PROVE  /\ file.data.last # NoSoc => ctFirst' = ctFirst
    BY <1>1, <2>1, <2>5 DEF CtFirstKnown
  <2>6. CtFiles'
    BY <1>1, <2>1, <2>5 DEF CtFiles, CtWhole, CtBalanced
  <2>7. CtFirstKnown'
    BY <1>1, <2>1, <2>2, <2>3 DEF CtFirstKnown
  <2>8. CtBalanced(ctData)'
    <3>1. /\ ctData.last \in Int /\ ctData.charge \in Int /\ ctData.discharge \in Int
          /\ d.charge \in Int /\ d.discharge \in Int /\ ctFirst \in Int
      BY <1>2, <2>2, CtAssumption DEF CycleData, NoSoc
    <3>2. CASE ctData.last = NoSoc
      <4>1. ctData.charge - ctData.discharge = 0
        BY <1>1, <3>2 DEF CtBalanced
      <4>2. QED
        BY <2>1, <2>2, <2>3, <3>1, <3>2, <4>1 DEF CtBalanced
    <3>3. CASE ctData.last # NoSoc
      BY <1>1, <2>1, <2>2, <2>3, <3>1, <3>3 DEF CtBalanced
    <3>4. QED
      BY <3>2, <3>3
  <2>9. ctData'.count >= ctKept'
    BY <1>1, <1>2, <1>3, <2>1, <2>2
  <2>10. QED
    BY <2>1, <2>4, <2>6, <2>7, <2>8, <2>9 DEF CtInv, CtCopied
<1>7. CASE CtReplace
  <2>1. /\ ctAt = "replace" /\ ctAt' = "copy" /\ ctPrimary' = File(ctData)
        /\ UNCHANGED <<ctData, ctBackup, ctFirst, ctKept, ctFaults>>
    BY <1>7 DEF CtReplace
  <2>2. CtTypeOK'
    BY <1>1, <1>4, <2>1 DEF CtTypeOK
  <2>3. CtFiles'
    BY <1>1, <1>4, <2>1 DEF CtFiles, CtWhole, CtBalanced
  <2>4. CtFirstKnown'
    BY <1>1, <1>4, <2>1 DEF CtFirstKnown
  <2>5. QED
    BY <1>1, <1>4, <2>1, <2>2, <2>3, <2>4 DEF CtInv, CtBalanced, CtCopied
<1>8. CASE CtCopy
  <2>1. /\ ctAt = "copy" /\ ctAt' = "run" /\ ctBackup' = ctPrimary
        /\ ctKept' = ctPrimary.data.count
        /\ UNCHANGED <<ctData, ctPrimary, ctFirst, ctFaults>>
    BY <1>8 DEF CtCopy
  <2>2. ctPrimary.kind = "ok" /\ ctKept' \in 0..MaxCycles /\ ctKept' \in Nat
    BY <1>1, <1>2, <1>3, <2>1 DEF CtFiles
  <2>3. CtTypeOK'
    BY <1>1, <2>1, <2>2 DEF CtTypeOK
  <2>4. CtFiles'
    BY <1>1, <1>3, <2>1, <2>2 DEF CtFiles, CtWhole, CtBalanced
  <2>5. CtFirstKnown'
    BY <1>1, <2>1, <2>2 DEF CtFirstKnown
  <2>6. ctData'.count >= ctKept'
    BY <1>1, <1>2, <1>3, <2>1 DEF CtCopied
  <2>7. QED
    BY <1>1, <2>1, <2>3, <2>4, <2>5, <2>6 DEF CtInv, CtBalanced, CtCopied
<1>9. CASE CtSaveFails
  <2>1. /\ ctAt \in {"replace", "copy"} /\ ctAt' = "run" /\ ctFaults < MaxFaults
        /\ ctFaults' = ctFaults + 1
        /\ UNCHANGED <<ctData, ctPrimary, ctFirst, ctKept>>
    BY <1>9 DEF CtSaveFails
  <2>2. \/ ctBackup' = ctBackup
        \/ ctAt = "copy" /\ ctBackup' = Broken("damaged")
        \/ ctAt = "copy" /\ ctBackup' = ctPrimary
    BY <1>9 DEF CtSaveFails
  <2>3. ctBackup' \in CycleFile /\ ctFaults' \in 0..MaxFaults
    BY <1>2, <1>4, <2>1, <2>2, CtAssumption
  <2>4. CtTypeOK'
    BY <1>1, <2>1, <2>3 DEF CtTypeOK
  <2>5. CtFiles'
    BY <1>1, <1>4, <2>1, <2>2 DEF CtFiles, CtWhole, CtBalanced
  <2>6. CtFirstKnown'
    BY <1>1, <1>4, <2>1, <2>2 DEF CtFirstKnown
  <2>7. QED
    BY <1>1, <2>1, <2>4, <2>5, <2>6 DEF CtInv, CtBalanced, CtCopied
<1>10. CASE CtCrash
  <2>1. /\ ctAt # "load" /\ ctAt' = "load" /\ ctFaults < MaxFaults /\ ctFaults' = ctFaults + 1
        /\ ctData' = NewCycles
        /\ UNCHANGED <<ctPrimary, ctFirst, ctKept>>
    BY <1>10 DEF CtCrash
  <2>2. \/ ctBackup' = ctBackup
        \/ ctAt = "copy" /\ ctBackup' = Broken("damaged")
    BY <1>10 DEF CtCrash
  <2>3. ctBackup' \in CycleFile /\ ctFaults' \in 0..MaxFaults
    BY <1>2, <1>4, <2>1, <2>2, CtAssumption
  <2>4. CtTypeOK'
    BY <1>1, <1>4, <2>1, <2>3 DEF CtTypeOK
  <2>5. CtFiles'
    BY <1>1, <1>4, <2>1, <2>2 DEF CtFiles, CtWhole, CtBalanced
  <2>6. CtFirstKnown'
    BY <1>1, <1>4, <2>1, <2>2 DEF CtFirstKnown
  <2>7. CtBalanced(ctData)'
    BY <2>1 DEF CtBalanced, NewCycles
  <2>8. QED
    BY <2>1, <2>4, <2>5, <2>6, <2>7 DEF CtInv, CtCopied
<1>11. CASE CtDamage
  <2>1. /\ ctAt = "load" /\ ctPrimary.kind = "ok" /\ ctBackup.kind = "ok"
        /\ ctFaults < MaxFaults /\ ctFaults' = ctFaults + 1
        /\ ctPrimary' = Broken("damaged")
        /\ UNCHANGED <<ctAt, ctData, ctBackup, ctFirst, ctKept>>
    BY <1>11 DEF CtDamage
  <2>2. ctFaults' \in 0..MaxFaults
    BY <1>2, <2>1, CtAssumption
  <2>3. CtTypeOK'
    BY <1>1, <1>4, <2>1, <2>2 DEF CtTypeOK
  <2>4. CtFiles'
    BY <1>1, <1>4, <2>1 DEF CtFiles, CtWhole, CtBalanced
  <2>5. CtFirstKnown'
    BY <1>1, <1>4, <2>1 DEF CtFirstKnown
  <2>6. QED
    BY <1>1, <2>1, <2>3, <2>4, <2>5 DEF CtInv, CtBalanced, CtCopied
<1>12. CASE UNCHANGED ctVars
  BY <1>1, <1>12 DEF ctVars, CtInv, CtTypeOK, CtFiles, CtWhole, CtFirstKnown, CtBalanced, CtCopied
<1>13. QED
  BY <1>5, <1>6, <1>7, <1>8, <1>9, <1>10, <1>11, <1>12 DEF CtNext

\* A step that ends a load loads what the last complete save wrote, or a later record.
LEMMA CtLoads == CtInv /\ [CtNext]_ctVars => [ctAt = "load" /\ ctAt' # "load" => ctData'.count >= ctKept]_ctVars
<1> SUFFICES ASSUME CtInv, CtNext, ctAt = "load", ctAt' # "load"
             PROVE  ctData'.count >= ctKept
  OBVIOUS
<1>1. CtLoad
  BY DEF CtNext, CtSample, CtReplace, CtCopy, CtSaveFails, CtCrash, CtDamage
<1>2. ctKept' = ctKept
  BY <1>1 DEF CtLoad
<1>3. CtInv'
  BY CtPreserved
<1>4. QED
  BY <1>2, <1>3 DEF CtInv

\* CycleStorage and the tracking of BMSClient: the record of the cycles is balanced, and what a
\* save wrote to both files survives crashes, failed copies and a damaged file; for any scale of
\* the state of charge, any size of a cycle and any number of faults.
THEOREM CyclesAreSafe == CtBehaviour => []CtTypeOK /\ CyclesSafe
<1>1. CtInv => CtTypeOK /\ Balanced
  BY DEF CtInv, CtBalanced, Balanced
<1>2. QED
  BY <1>1, CtInitially, CtPreserved, CtLoads, PTL DEF CtBehaviour, CyclesSafe, CountSurvives

-----------------------------------------------------------------------------
(***************************************************************************)
(* The mailbox of the external program.                                    *)
(***************************************************************************)
XaBehaviour == XaInit /\ [][XaNext]_xaVars

\* The program holds a command that was sent, and what it executed is what it applied; what is
\* acknowledged was sent, and when that is the current command the program holds no older one
\* that it could still execute.
XaSafe ==
    /\ xaProgram.command <= xaSent
    /\ xaProgram.at \in {"got", "executed", "failed"} => xaProgram.command # 0
    /\ xaProgram.at = "executed" => xaApplied = xaProgram.command
    /\ \A n \in xaConfirmed : n <= xaSent
    /\ xaSent \in xaConfirmed /\ xaProgram.at = "got" => xaProgram.command = xaSent

XaInv == XaTypeOK /\ XaSafe /\ MailboxSafe

-----------------------------------------------------------------------------

\* Nothing is exchanged at first.
LEMMA XaInitially == XaInit => XaInv
<1> SUFFICES ASSUME XaInit PROVE XaInv
  OBVIOUS
<1>1. /\ xaSent = 0 /\ xaAcked = 0 /\ xaApplied = 0 /\ xaConfirmed = {}
      /\ xaActive = {} /\ xaTimed = {}
      /\ xaProgram = [at |-> "idle", command |-> 0]
  BY DEF XaInit, Program, NoCommand
<1>2. xaHistory \in Seq(Numbers) /\ Len(xaHistory) <= History
  BY MailboxAssumption, EmptySeq DEF XaInit
<1>3. xaStopped \in BOOLEAN /\ xaController \in BOOLEAN
  BY DEF XaInit
<1>4. xaSoc \in [{"reported", "controller"} -> XaSocs]
  BY DEF XaInit
<1>5. XaTypeOK
  BY <1>1, <1>2, <1>3, <1>4, MailboxAssumption DEF XaTypeOK
<1>6. QED
  BY <1>1, <1>5 DEF XaInv, XaSafe, MailboxSafe

\* A new command is the newest, and nobody has acknowledged it.
LEMMA XaNewCommand ==
    ASSUME XaInv, NEW timed \in BOOLEAN, NewCommand(timed), xaStopped' \in BOOLEAN,
           UNCHANGED <<xaStatus, xaProgram, xaApplied>>
    PROVE  XaInv'
<1>1. /\ xaSent' = xaSent + 1 /\ xaSent' <= XaCommands
      /\ xaActive' = xaActive \cup {xaSent + 1}
      /\ xaTimed' = IF timed THEN xaTimed \cup {xaSent + 1} ELSE xaTimed
      /\ UNCHANGED <<xaAcked, xaConfirmed, xaController, xaSoc, xaProgram, xaApplied>>
  BY DEF NewCommand, xaStatus
<1>2. xaSent \in 0..XaCommands /\ XaCommands \in Nat
  BY MailboxAssumption DEF XaInv, XaTypeOK
<1>3. xaHistory' \in Seq(Numbers) /\ Len(xaHistory') <= History
  <2> DEFINE all == Append(xaHistory, xaSent + 1)
  <2>1. xaHistory \in Seq(Numbers) /\ Len(xaHistory) <= History /\ History \in Nat \ {0}
    BY MailboxAssumption DEF XaInv, XaTypeOK
  <2>2. xaSent + 1 \in Numbers
    BY <1>1, <1>2 DEF Numbers
  <2>3. all \in Seq(Numbers) /\ Len(all) = Len(xaHistory) + 1 /\ Len(xaHistory) \in Nat
    BY <2>1, <2>2, AppendProperties, LenProperties
  <2>4. all # << >>
    BY <2>3
  <2>5. Tail(all) \in Seq(Numbers) /\ Len(Tail(all)) = Len(all) - 1
    BY <2>3, <2>4, HeadTailProperties
  <2>6. xaHistory' = IF Len(all) > History THEN Tail(all) ELSE all
    BY DEF NewCommand
  <2> HIDE DEF all
  <2>7. QED
    BY <2>1, <2>3, <2>5, <2>6
<1>4. xaActive' \subseteq 1..xaSent' /\ xaTimed' \subseteq 1..xaSent'
  BY <1>1, <1>2 DEF XaInv, XaTypeOK
<1>5. XaTypeOK'
  BY <1>1, <1>2, <1>3, <1>4 DEF XaInv, XaTypeOK
<1>6. /\ xaProgram.command \in 0..XaCommands /\ xaConfirmed \subseteq 1..XaCommands
      /\ XaSafe
  BY DEF XaInv, XaTypeOK, Numbers
<1>7. xaSent' \notin xaConfirmed'
  BY <1>1, <1>2, <1>6 DEF XaSafe
<1>8. QED
  BY <1>1, <1>2, <1>5, <1>6, <1>7 DEF XaInv, XaSafe, MailboxSafe

\* Every reading and writing of a file keeps the commands apart.
LEMMA XaPreserved == XaInv /\ [XaNext]_xaVars => XaInv'
<1> SUFFICES ASSUME XaInv, [XaNext]_xaVars PROVE XaInv'
  OBVIOUS
<1> USE MailboxAssumption
<1>1. CASE SetPowerCommand
  <2>1. PICK timed \in BOOLEAN : NewCommand(timed)
    BY <1>1 DEF SetPowerCommand
  <2>2. xaStopped' \in BOOLEAN /\ UNCHANGED <<xaStatus, xaProgram, xaApplied>>
    BY <1>1 DEF SetPowerCommand, XaInv, XaTypeOK
  <2>3. QED
    BY <2>1, <2>2, XaNewCommand
<1>2. CASE XaEmergencyStop
  BY <1>2, XaNewCommand DEF XaEmergencyStop
<1>3. CASE CancelCommand
  <2>1. /\ xaActive' \subseteq xaActive
        /\ UNCHANGED <<xaSent, xaAcked, xaTimed, xaHistory, xaConfirmed, xaStopped, xaController,
                       xaSoc, xaProgram, xaApplied>>
    BY <1>3 DEF CancelCommand, xaStatus
  <2>2. QED
    BY <2>1 DEF XaInv, XaTypeOK, XaSafe, MailboxSafe
<1>4. CASE GetPowerCommand
  <2>1. /\ xaActive' \subseteq xaActive
        /\ UNCHANGED <<xaSent, xaAcked, xaTimed, xaHistory, xaConfirmed, xaStopped, xaController,
                       xaSoc, xaApplied>>
        /\ \/ /\ xaProgram' = [at |-> "got", command |-> xaSent]
              /\ xaSent \in xaActive
           \/ xaProgram' = xaProgram
    BY <1>4 DEF GetPowerCommand, xaStatus, Program
  <2>2. XaTypeOK /\ XaSafe /\ MailboxSafe
    BY DEF XaInv
  <2>3. xaSent \in 0..XaCommands /\ (xaSent \in xaActive => xaSent # 0)
    BY <2>2 DEF XaTypeOK
  <2>4. XaTypeOK'
    BY <2>1, <2>2, <2>3 DEF XaTypeOK
  <2>5. QED
    BY <2>1, <2>2, <2>3, <2>4 DEF XaInv, XaSafe, MailboxSafe
<1>5. CASE Execute
  <2>1. UNCHANGED <<xaSent, xaAcked, xaActive, xaTimed, xaHistory, xaConfirmed, xaStopped,
                    xaController, xaSoc>>
    BY <1>5 DEF Execute, xaMailbox, xaStatus
  <2>2. /\ xaProgram.at = "got"
        /\ \/ xaApplied' = xaProgram.command /\ xaProgram' = [xaProgram EXCEPT !.at = "executed"]
           \/ /\ xaProgram' \in {[at |-> "idle", command |-> 0], [xaProgram EXCEPT !.at = "failed"]}
              /\ xaApplied' = xaApplied
    BY <1>5 DEF Execute, Program, NoCommand
  <2>3. XaTypeOK /\ XaSafe /\ MailboxSafe
    BY DEF XaInv
  <2>4. xaProgram \in [at : {"idle", "got", "executed", "failed"}, command : 0..XaCommands]
    BY <2>3 DEF XaTypeOK
  <2>5. /\ xaProgram' \in [at : {"idle", "got", "executed", "failed"}, command : 0..XaCommands]
        /\ xaApplied' \in 0..XaCommands
    BY <2>2, <2>3, <2>4 DEF XaTypeOK
  <2>6. XaTypeOK'
    BY <2>1, <2>3, <2>5 DEF XaTypeOK
  <2>7. \/ /\ xaApplied' = xaProgram.command /\ xaProgram'.at = "executed"
           /\ xaProgram'.command = xaProgram.command
        \/ /\ \/ xaProgram'.at = "idle" /\ xaProgram'.command = 0
              \/ xaProgram'.at = "failed" /\ xaProgram'.command = xaProgram.command
           /\ xaApplied' = xaApplied
    BY <2>2, <2>4
  <2>8. XaSafe' /\ MailboxSafe'
    BY <2>1, <2>2, <2>3, <2>7 DEF XaSafe, MailboxSafe, XaTypeOK
  <2>9. QED
    BY <2>6, <2>8 DEF XaInv
<1>6. CASE AcknowledgeCommand
  <2>1. UNCHANGED <<xaSent, xaActive, xaTimed, xaHistory, xaStopped, xaController, xaSoc, xaApplied>>
    BY <1>6 DEF AcknowledgeCommand, xaStatus
  <2>2. /\ xaProgram.at \in {"executed", "failed"} /\ xaAcked <= XaCommands
        /\ xaAcked' \in {xaAcked, xaAcked + 1}
        /\ \/ xaConfirmed' = xaConfirmed
           \/ /\ xaConfirmed' = xaConfirmed \cup {xaSent} /\ xaSent # 0
              /\ xaProgram.command = xaSent /\ xaProgram.at = "executed"
        /\ \/ xaProgram' = [at |-> "idle", command |-> 0]
           \/ xaProgram' = xaProgram
    BY <1>6 DEF AcknowledgeCommand, Program, NoCommand, Accepted
  <2>3. XaTypeOK /\ XaSafe /\ MailboxSafe
    BY DEF XaInv
  <2>7. /\ xaAcked' \in 0..XaCommands + 1
        /\ xaConfirmed' \subseteq Numbers
    <3>1. /\ xaAcked \in 0..XaCommands + 1 /\ xaSent \in 0..XaCommands
          /\ xaConfirmed \subseteq Numbers
      BY <2>3 DEF XaTypeOK
    <3>2. xaAcked' \in 0..XaCommands + 1
      BY <2>2, <3>1
    <3>3. xaSent # 0 => xaSent \in Numbers
      BY <3>1 DEF Numbers
    <3>4. QED
      BY <2>2, <3>1, <3>2, <3>3
  <2>8. xaProgram' \in [at : {"idle", "got", "executed", "failed"}, command : 0..XaCommands]
    BY <2>2, <2>3 DEF XaTypeOK
  <2>4. XaTypeOK'
    BY <2>1, <2>7, <2>8, <2>3 DEF XaTypeOK
  <2>9. xaSent \in xaConfirmed' => xaApplied = xaSent
    BY <2>2, <2>3 DEF XaSafe, MailboxSafe
  <2>10. \A n \in xaConfirmed' : n <= xaSent
    BY <2>2, <2>3 DEF XaSafe, XaTypeOK
  <2>11. /\ xaProgram'.command <= xaSent /\ xaProgram'.at # "got"
         /\ xaProgram'.at \in {"executed", "failed"} => xaProgram'.command # 0
         /\ xaProgram'.at = "executed" => xaApplied = xaProgram'.command
    BY <2>2, <2>3 DEF XaSafe, XaTypeOK
  <2>5. XaSafe' /\ MailboxSafe'
    BY <2>1, <2>9, <2>10, <2>11 DEF XaSafe, MailboxSafe
  <2>6. QED
    BY <2>4, <2>5 DEF XaInv
<1>7. CASE ReportStatus
  <2>1. UNCHANGED <<xaSent, xaAcked, xaActive, xaTimed, xaHistory, xaConfirmed, xaStopped,
                    xaController, xaProgram, xaApplied>>
    BY <1>7 DEF ReportStatus, xaMailbox
  <2>2. XaTypeOK /\ XaSafe /\ MailboxSafe
    BY DEF XaInv
  <2>3. xaSoc' \in [{"reported", "controller"} -> XaSocs]
    <3>1. PICK soc \in XaSocs : xaSoc' = [reported |-> soc,
                     controller |-> IF xaController THEN soc ELSE xaSoc.controller]
      BY <1>7 DEF ReportStatus
    <3>2. xaSoc.controller \in XaSocs
      BY <2>2 DEF XaTypeOK
    <3>3. QED
      BY <3>1, <3>2
  <2>4. QED
    BY <2>1, <2>2, <2>3 DEF XaInv, XaTypeOK, XaSafe, MailboxSafe
<1>8. CASE SetController
  <2>1. /\ UNCHANGED <<xaSent, xaAcked, xaActive, xaTimed, xaHistory, xaConfirmed, xaStopped,
                    xaSoc, xaProgram, xaApplied>>
        /\ xaController' \in BOOLEAN
    BY <1>8 DEF SetController, xaMailbox
  <2>2. QED
    BY <2>1 DEF XaInv, XaTypeOK, XaSafe, MailboxSafe
<1>9. CASE UNCHANGED xaVars
  BY <1>9 DEF xaVars, xaMailbox, xaStatus, XaInv, XaTypeOK, XaSafe, MailboxSafe
<1>10. QED
  BY <1>1, <1>2, <1>3, <1>4, <1>5, <1>6, <1>7, <1>8, <1>9 DEF XaNext

\* ExternalIntegrationAPI: a command counts as acknowledged only if the program applied it last,
\* though commands are replaced, cancelled and run out between the steps of the program; for any
\* number of commands and any size of the history.
THEOREM MailboxIsSafe == XaBehaviour => [](XaTypeOK /\ MailboxSafe)
<1>1. XaInv => XaTypeOK /\ MailboxSafe
  BY DEF XaInv
<1>2. QED
  BY <1>1, XaInitially, XaPreserved, PTL DEF XaBehaviour
=============================================================================
