----------------------------- MODULE Web_proofs -----------------------------
(***************************************************************************)
(* What stands behind the pages: for any threads, tokens, hosts, records   *)
(* and uploads the managers run what they show, a reload reaches every     *)
(* part, nothing writes to the PCS that was not unlocked, and the pages    *)
(* show what happened.                                                     *)
(***************************************************************************)
EXTENDS ClientManager, WorkerManager, WebControl, Configuration, Recorders, Integers,
        SequenceTheorems, FiniteSetTheorems, TLAPS

-----------------------------------------------------------------------------
(***************************************************************************)
(* The manager of the client.                                              *)
(***************************************************************************)
CmBehaviour == CmInit /\ [][CmNext]_cmVars

CmLives(t) == cmPc[t] \notin {"unused", "over"}
CmAllIdle == \A c \in CmCallers : cmCaller[c] = CmIdle

\* In orderly surroundings only the latest thread lives, and the state says where it stands.
CmLatestLives == cmOrderly => \A t \in CmThreads : CmLives(t) => cmThread = t
CmStateTells == cmOrderly =>
    /\ \A t \in CmThreads :
           /\ cmPc[t] = "spawned" => cmState = "stopped" /\ CmAllIdle
           /\ cmPc[t] \in {"loading", "connecting"} => cmState = "starting" /\ CmAllIdle
           /\ cmPc[t] = "running" => cmState \in {"running", "stopping"}
           /\ cmPc[t] \in {"final", "ending"} => cmState \in {"error", "stopping"}
    /\ (\A t \in CmThreads : ~CmLives(t)) => cmState = "stopped"

\* One request is under way at a time; the one that starts a thread has seen the last one end.
CmOneRequest == cmOrderly =>
    \A c \in CmCallers :
        /\ cmCaller[c] # CmIdle => \A d \in CmCallers \ {c} : cmCaller[d] = CmIdle
        /\ cmCaller[c].at = "idle" => cmCaller[c] = CmIdle
        /\ cmCaller[c].at = "spawn" => \A t \in CmThreads : ~CmLives(t)
        /\ cmCaller[c].at = "stop" => cmState = "running"
        /\ cmCaller[c].at = "join" =>
               /\ cmCaller[c].waits = cmThread /\ cmThread \in CmThreads
               /\ cmPc[cmThread] \in {"running", "final", "ending", "over"}
               /\ cmPc[cmThread] # "over" => cmState = "stopping"

\* A connected client belongs to the thread that lives.
CmConnectedLives == cmOrderly =>
    \A t \in CmThreads : /\ cmPc[t] \in {"connecting", "running"} => cmClient = t
                         /\ cmConn[t] = "up" => cmPc[t] \in {"running", "final"} /\ cmClient = t

CmInv == /\ CmTypeOK /\ CmRunningIsServed
         /\ CmLatestLives /\ CmStateTells /\ CmOneRequest /\ CmConnectedLives

CmRequests == [at : {"idle", "spawn", "stop", "join"}, again : BOOLEAN,
             waits : CmThreads \cup {NoThread}]
CmPlaces == {"unused", "spawned", "loading", "connecting", "running", "final", "ending", "over"}

\* A request that changes its place is still one.
LEMMA IdleIsRequest == CmIdle \in CmRequests /\ CmIdle.at = "idle"
BY DEF CmIdle, CmRequests

\* A request that goes on is a request.
LEMMA RequestMoves ==
    ASSUME NEW r \in CmRequests, NEW at \in {"idle", "spawn", "stop", "join"}, NEW again \in BOOLEAN
    PROVE  /\ [r EXCEPT !.at = at, !.again = again] \in CmRequests
           /\ [r EXCEPT !.at = at, !.again = again].at = at
           /\ [r EXCEPT !.at = at] \in CmRequests /\ [r EXCEPT !.at = at].at = at
           /\ r.at = at => [r EXCEPT !.at = at] = r
<1>1. [r EXCEPT !.at = at, !.again = again] \in CmRequests /\ [r EXCEPT !.at = at] \in CmRequests
  BY DEF CmRequests
<1>2. [r EXCEPT !.at = at, !.again = again].at = at /\ [r EXCEPT !.at = at].at = at
  BY DEF CmRequests
<1>3. r.at = at => [r EXCEPT !.at = at] = r
  BY DEF CmRequests
<1>4. QED
  BY <1>1, <1>2, <1>3

\* No thread runs and nothing is asked for at first.
LEMMA CmInitially == CmInit => CmInv
BY CmAssumption
   DEF CmInit, CmInv, CmTypeOK, CmRunningIsServed, CmLatestLives, CmStateTells, CmOneRequest,
       CmConnectedLives, CmLives, CmIdle, CmAllIdle

\* A request that moves leaves the others as they are.
LEMMA CallerMoves ==
    ASSUME cmCaller \in [CmCallers -> CmRequests], NEW c \in CmCallers, NEW r \in CmRequests,
           cmCaller' = [cmCaller EXCEPT ![c] = r]
    PROVE  /\ cmCaller' \in [CmCallers -> CmRequests] /\ cmCaller'[c] = r
           /\ \A d \in CmCallers \ {c} : cmCaller'[d] = cmCaller[d]
OBVIOUS

\* What one request may find of the others.
CmMayBe(c) ==
    /\ cmCaller[c].at = "idle" => cmCaller[c] = CmIdle
    /\ cmCaller[c].at = "spawn" => \A t \in CmThreads : ~CmLives(t)
    /\ cmCaller[c].at = "stop" => cmState = "running"
    /\ cmCaller[c].at = "join" =>
           /\ cmCaller[c].waits = cmThread /\ cmThread \in CmThreads
           /\ cmPc[cmThread] \in {"running", "final", "ending", "over"}
           /\ cmPc[cmThread] # "over" => cmState = "stopping"

\* When the others are idle only the request itself is to be looked at.
LEMMA CmOnlyRequest ==
    ASSUME NEW c \in CmCallers,
           cmOrderly' => (\A d \in CmCallers \ {c} : cmCaller'[d] = CmIdle) /\ CmMayBe(c)'
    PROVE  CmOneRequest'
BY IdleIsRequest DEF CmOneRequest, CmMayBe

\* A step of a request.
LEMMA CmRequestKeeps ==
    ASSUME CmInv, NEW c \in CmCallers,
           CmStart(c) \/ CmSpawn(c) \/ CmStop(c) \/ CmStopSet(c) \/ CmJoined(c)
    PROVE  CmInv'
<1>0. cmCaller \in [CmCallers -> CmRequests] /\ cmCaller[c] \in CmRequests /\ CmTypeOK
  BY DEF CmInv, CmTypeOK, CmRequests
<1>1. CASE CmStart(c)
  <2> DEFINE r == [cmCaller[c] EXCEPT !.at = "spawn"]
  <2>1. cmCaller' = [cmCaller EXCEPT ![c] = r] /\ r \in CmRequests /\ r.at = "spawn"
    BY <1>0, <1>1, RequestMoves DEF CmStart
  <2> HIDE DEF r
  <2>2. /\ cmCaller' \in [CmCallers -> CmRequests] /\ cmCaller'[c].at = "spawn"
        /\ \A d \in CmCallers \ {c} : cmCaller'[d] = cmCaller[d]
    BY <1>0, <2>1, CallerMoves
  <2>3. /\ UNCHANGED <<cmOrderly, cmState, cmThread, cmClient, cmPc, cmConn>>
        /\ cmOrderly => CmQuiet /\ cmState = "stopped"
    BY <1>1 DEF CmStart
  <2>4. CmTypeOK' /\ CmRunningIsServed' /\ CmLatestLives' /\ CmConnectedLives'
    BY <2>2, <2>3 DEF CmInv, CmTypeOK, CmRequests, CmRunningIsServed, CmLatestLives,
                      CmConnectedLives, CmLives
  <2>5. cmOrderly => \A t \in CmThreads : ~CmLives(t)
    BY <1>0, <2>3 DEF CmInv, CmStateTells, CmQuiet, CmLives, CmTypeOK
  <2>6. CmStateTells'
    BY <2>3, <2>5 DEF CmStateTells, CmLives
  <2>7. CmOneRequest'
    BY <2>2, <2>3, <2>5, CmOnlyRequest DEF CmQuiet, CmMayBe, CmLives
  <2>8. QED
    BY <2>4, <2>6, <2>7 DEF CmInv
<1>2. CASE CmSpawn(c)
  <2>1. PICK t \in CmThreads : /\ cmPc[t] = "unused"
                               /\ cmPc' = [cmPc EXCEPT ![t] = "spawned"]
                               /\ cmThread' = t
    BY <1>2 DEF CmSpawn
  <2>2. /\ cmCaller[c].at = "spawn" /\ cmCaller[c] # CmIdle
        /\ UNCHANGED <<cmOrderly, cmState, cmClient, cmConn>>
        /\ cmCaller' = [cmCaller EXCEPT ![c] = CmIdle]
    BY <1>2, IdleIsRequest DEF CmSpawn
  <2>3. /\ cmCaller' \in [CmCallers -> CmRequests] /\ cmCaller'[c] = CmIdle
        /\ \A d \in CmCallers \ {c} : cmCaller'[d] = cmCaller[d]
    BY <1>0, <2>2, IdleIsRequest, CallerMoves
  <2>4. cmOrderly => /\ \A d \in CmCallers : cmCaller'[d] = CmIdle
                     /\ \A u \in CmThreads : ~CmLives(u)
    BY <2>2, <2>3 DEF CmInv, CmOneRequest
  <2>5. /\ cmPc' \in [CmThreads -> CmPlaces]
        /\ \A u \in CmThreads : cmPc'[u] = IF u = t THEN "spawned" ELSE cmPc[u]
    BY <1>0, <2>1 DEF CmTypeOK, CmPlaces
  <2>6. CmTypeOK'
    BY <1>0, <2>1, <2>2, <2>3, <2>5 DEF CmTypeOK, CmRequests, CmPlaces
  <2>7. CmRunningIsServed'
    BY <2>1, <2>2, <2>5 DEF CmInv, CmRunningIsServed
  <2>8. CmLatestLives' /\ CmStateTells'
    BY <2>1, <2>2, <2>4, <2>5 DEF CmInv, CmLatestLives, CmStateTells, CmLives, CmAllIdle
  <2>9. CmOneRequest'
    BY <2>2, <2>4, IdleIsRequest, CmOnlyRequest DEF CmMayBe
  <2>10. CmConnectedLives'
    BY <2>1, <2>2, <2>5 DEF CmInv, CmConnectedLives
  <2>11. QED
    BY <2>6, <2>7, <2>8, <2>9, <2>10 DEF CmInv
<1>3. CASE CmStop(c)
  <2>1. PICK again \in BOOLEAN :
            cmCaller' = [cmCaller EXCEPT ![c] = [CmIdle EXCEPT !.at = "stop", !.again = again]]
    BY <1>3 DEF CmStop
  <2> DEFINE r == [CmIdle EXCEPT !.at = "stop", !.again = again]
  <2>2. r \in CmRequests /\ r.at = "stop"
    <3>1. ASSUME NEW s \in CmRequests
          PROVE  /\ [s EXCEPT !.at = "stop", !.again = again] \in CmRequests
                 /\ [s EXCEPT !.at = "stop", !.again = again].at = "stop"
      BY DEF CmRequests
    <3>2. QED
      BY <3>1, IdleIsRequest, Zenon
  <2>3. cmCaller' = [cmCaller EXCEPT ![c] = r]
    BY <2>1
  <2> HIDE DEF r
  <2>4. /\ cmCaller' \in [CmCallers -> CmRequests] /\ cmCaller'[c].at = "stop"
        /\ \A d \in CmCallers \ {c} : cmCaller'[d] = cmCaller[d]
    BY <1>0, <2>2, <2>3, CallerMoves
  <2>5. /\ UNCHANGED <<cmOrderly, cmState, cmThread, cmClient, cmPc, cmConn>>
        /\ cmOrderly => CmQuiet /\ cmState = "running"
    BY <1>3 DEF CmStop
  <2>6. CmTypeOK' /\ CmRunningIsServed' /\ CmLatestLives' /\ CmConnectedLives'
    BY <2>4, <2>5 DEF CmInv, CmTypeOK, CmRequests, CmRunningIsServed, CmLatestLives,
                      CmConnectedLives, CmLives
  <2>7. CmStateTells'
    BY <2>5 DEF CmInv, CmStateTells, CmLives
  <2>8. CmOneRequest'
    BY <2>4, <2>5, CmOnlyRequest DEF CmQuiet, CmMayBe
  <2>9. QED
    BY <2>6, <2>7, <2>8 DEF CmInv
<1>4. CASE CmStopSet(c)
  <2> DEFINE r == [cmCaller[c] EXCEPT !.at = "join", !.waits = cmThread]
  <2>1. /\ cmCaller[c].at = "stop" /\ cmCaller[c] # CmIdle /\ cmState' = "stopping"
        /\ cmCaller' = [cmCaller EXCEPT ![c] = r]
        /\ UNCHANGED <<cmOrderly, cmThread, cmClient, cmPc, cmConn>>
    BY <1>4, IdleIsRequest DEF CmStopSet
  <2>2. r \in CmRequests /\ r.at = "join" /\ r.waits = cmThread
    BY <1>0 DEF CmRequests, CmTypeOK
  <2> HIDE DEF r
  <2>3. /\ cmCaller' \in [CmCallers -> CmRequests]
        /\ cmCaller'[c].at = "join" /\ cmCaller'[c].waits = cmThread
        /\ \A d \in CmCallers \ {c} : cmCaller'[d] = cmCaller[d]
    BY <1>0, <2>1, <2>2, CallerMoves
  <2>4. cmOrderly => /\ cmState = "running" /\ cmThread \in CmThreads /\ cmPc[cmThread] = "running"
                     /\ \A d \in CmCallers \ {c} : cmCaller[d] = CmIdle
    BY <2>1 DEF CmInv, CmOneRequest, CmRunningIsServed, CmLatestLives, CmLives
  <2>5. CmTypeOK' /\ CmRunningIsServed' /\ CmLatestLives' /\ CmConnectedLives'
    BY <2>1, <2>3 DEF CmInv, CmTypeOK, CmRequests, CmRunningIsServed, CmLatestLives,
                      CmConnectedLives, CmLives
  <2>6. CmStateTells'
    BY <2>1, <2>4 DEF CmInv, CmStateTells, CmLatestLives, CmLives
  <2>7. CmOneRequest'
    BY <2>1, <2>3, <2>4, CmOnlyRequest DEF CmMayBe
  <2>8. QED
    BY <2>5, <2>6, <2>7 DEF CmInv
<1>5. CASE CmJoined(c)
  <2> DEFINE next == IF cmCaller[c].again /\ Startable THEN "spawn" ELSE "idle"
             r == [CmIdle EXCEPT !.at = next]
  <2>1. /\ cmCaller[c].at = "join" /\ cmCaller[c] # CmIdle
        /\ cmCaller' = [cmCaller EXCEPT ![c] = r]
        /\ UNCHANGED <<cmOrderly, cmState, cmClient, cmPc, cmConn>>
        /\ cmThread' \in {cmThread, NoThread}
        /\ cmOrderly /\ cmCaller[c].waits # NoThread => cmPc[cmCaller[c].waits] = "over"
    BY <1>5, IdleIsRequest DEF CmJoined
  <2>2. next \in {"spawn", "idle"}
    OBVIOUS
  <2> HIDE DEF next
  <2>3. r \in CmRequests /\ r.at = next /\ (next = "idle" => r = CmIdle)
    <3>1. ASSUME NEW s \in CmRequests
          PROVE  [s EXCEPT !.at = next] \in CmRequests /\ [s EXCEPT !.at = next].at = next
      BY <2>2 DEF CmRequests
    <3>2. ASSUME NEW s \in CmRequests, s.at = next
          PROVE  [s EXCEPT !.at = next] = s
      BY <2>2, <3>2 DEF CmRequests
    <3>3. QED
      BY <3>1, <3>2, IdleIsRequest, Zenon
  <2> HIDE DEF r
  <2>4. /\ cmCaller' \in [CmCallers -> CmRequests] /\ cmCaller'[c].at \in {"spawn", "idle"}
        /\ cmCaller'[c].at = "idle" => cmCaller'[c] = CmIdle
        /\ \A d \in CmCallers \ {c} : cmCaller'[d] = cmCaller[d]
    BY <1>0, <2>1, <2>2, <2>3, CallerMoves
  <2>5. cmOrderly => /\ \A t \in CmThreads : ~CmLives(t)
                     /\ \A d \in CmCallers \ {c} : cmCaller[d] = CmIdle
    BY <2>1, CmAssumption DEF CmInv, CmOneRequest, CmLatestLives, CmLives
  <2>6. CmTypeOK' /\ CmRunningIsServed'
    BY <1>0, <2>1, <2>4 DEF CmInv, CmTypeOK, CmRequests, CmRunningIsServed
  <2>7. CmLatestLives' /\ CmConnectedLives'
    BY <2>1, <2>5 DEF CmInv, CmLatestLives, CmConnectedLives, CmLives
  <2>8. CmStateTells'
    BY <2>1, <2>5 DEF CmInv, CmStateTells, CmLives
  <2>9. CmOneRequest'
    BY <2>1, <2>4, <2>5, CmOnlyRequest DEF CmMayBe, CmLives
  <2>10. QED
    BY <2>6, <2>7, <2>8, <2>9 DEF CmInv
<1>6. QED
  BY <1>1, <1>2, <1>3, <1>4, <1>5

\* A step of a client thread.
LEMMA CmThreadKeeps ==
    ASSUME CmInv, NEW t \in CmThreads, CmThreadStep(t)
    PROVE  CmInv'
<1> USE CmAssumption
    DEF CmInv, CmTypeOK, CmRunningIsServed, CmLatestLives, CmStateTells, CmOneRequest,
        CmConnectedLives, CmLives, CmAllIdle, CmThreadGoes
<1>1. CASE CmBegin(t)
  BY <1>1 DEF CmBegin
<1>2. CASE CmLoad(t)
  BY <1>2 DEF CmLoad
<1>3. CASE CmConnect(t)
  BY <1>3 DEF CmConnect
<1>4. CASE CmWatch(t)
  BY <1>4 DEF CmWatch
<1>5. CASE CmFinal(t)
  BY <1>5 DEF CmFinal
<1>6. CASE CmEnd(t)
  BY <1>6 DEF CmEnd
<1>7. QED
  BY <1>1, <1>2, <1>3, <1>4, <1>5, <1>6 DEF CmThreadStep

\* Every step of a request and of a thread keeps what the manager knows of its threads.
LEMMA CmPreserved == CmInv /\ [CmNext]_cmVars => CmInv'
<1> SUFFICES ASSUME CmInv, [CmNext]_cmVars PROVE CmInv'
  OBVIOUS
<1>1. CASE CmNext
  BY <1>1, CmRequestKeeps, CmThreadKeeps DEF CmNext
<1>2. CASE UNCHANGED cmVars
  BY <1>2 DEF cmVars, CmInv, CmTypeOK, CmRunningIsServed, CmLatestLives, CmStateTells,
              CmOneRequest, CmConnectedLives, CmLives, CmAllIdle
<1>3. QED
  BY <1>1, <1>2

\* A manager that shows a running client has a thread that runs one, and in orderly surroundings
\* it has one at a time; for any threads.
THEOREM ClientManagerIsSafe == CmBehaviour => [](CmTypeOK /\ CmSafe)
<1>1. ASSUME CmInv PROVE CmSafe
  <2>1. ASSUME cmOrderly
        PROVE  Cardinality({t \in CmThreads : cmPc[t] \notin {"unused", "over"}}) <= 1
    <3> DEFINE live == {t \in CmThreads : cmPc[t] \notin {"unused", "over"}}
    <3>1. live \subseteq {cmThread}
      BY <1>1, <2>1 DEF CmInv, CmLatestLives, CmLives
    <3>2. IsFiniteSet({cmThread}) /\ Cardinality({cmThread}) = 1
      BY FS_Singleton
    <3>3. Cardinality(live) <= 1
      BY <3>1, <3>2, FS_Subset
    <3>4. QED
      BY <3>3
  <2>2. QED
    BY <1>1, <2>1 DEF CmInv, CmConnectedLives, CmSafe, CmOneClient
<1>2. CmInv => CmTypeOK
  BY DEF CmInv
<1>3. QED
  BY <1>1, <1>2, CmInitially, CmPreserved, PTL DEF CmBehaviour

-----------------------------------------------------------------------------
(***************************************************************************)
(* The manager of the worker.                                              *)
(***************************************************************************)
WmBehaviour == WmInit /\ [][WmNext]_wmVars

\* In orderly surroundings only the latest worker lives, none does while another is about to
\* be started, and the state does not say stopped before it is over.
WmLatestLives == wmOrderly =>
    /\ WmLive \subseteq {wmThread}
    /\ wmUser.at = "spawn" => WmLive = {} /\ wmState = "starting"
    /\ wmState = "stopped" => WmLive = {}

WmInv == WmTypeOK /\ WmLatestLives

WmRequests == [at : {"idle", "spawn", "check", "signal", "join"}, again : BOOLEAN]

\* A request that is idle is one.
LEMMA WmIdleIsRequest == WmIdle \in WmRequests /\ WmIdle.at = "idle"
BY DEF WmIdle, WmRequests

\* A request that goes on is one.
LEMMA WmRequestGoesOn ==
    \A r \in WmRequests : \A at \in {"spawn", "signal", "join"} :
         [r EXCEPT !.at = at] \in WmRequests /\ [r EXCEPT !.at = at].at = at
BY DEF WmRequests

\* No worker runs at first.
LEMMA WmInitially == WmInit => WmInv
BY DEF WmInit, WmInv, WmTypeOK, WmLatestLives, WmLive, WmIdle

\* Every step of a request and of a worker keeps what the manager knows of its worker.
LEMMA WmPreserved == WmInv /\ [WmNext]_wmVars => WmInv'
<1> SUFFICES ASSUME WmInv, [WmNext]_wmVars PROVE WmInv'
  OBVIOUS
<1>0. wmUser \in WmRequests
  BY DEF WmInv, WmTypeOK, WmRequests
<1>5. CASE WmJoined
  <2>1. /\ wmUser' \in WmRequests
        /\ wmUser'.at = "spawn" => wmState' = "starting"
        /\ wmState' \in {"starting", "stopped"}
        /\ UNCHANGED <<wmOrderly, wmThread, wmEvent, wmSet, wmPc>>
        /\ wmOrderly => wmPc[wmThread] = "over"
    BY <1>5, WmIdleIsRequest, WmRequestGoesOn DEF WmJoined
  <2>2. wmOrderly => WmLive = {}
    BY <2>1 DEF WmInv, WmTypeOK, WmLatestLives, WmLive
  <2>3. QED
    BY <2>1, <2>2 DEF WmInv, WmTypeOK, WmLatestLives, WmLive, WmRequests
<1>4. CASE WmCheck \/ WmSignal
  <2>1. /\ wmUser' \in WmRequests /\ wmUser'.at \in {"idle", "signal", "join"}
        /\ UNCHANGED <<wmOrderly, wmState, wmThread, wmEvent, wmPc>>
        /\ wmSet' \subseteq wmSet \cup {wmEvent} /\ (wmEvent = NoWorker => wmSet' = wmSet)
    <3>1. /\ \/ \E at \in {"signal", "join"} : wmUser' = [wmUser EXCEPT !.at = at]
             \/ wmUser' = WmIdle
          /\ UNCHANGED <<wmOrderly, wmState, wmThread, wmEvent, wmPc>>
          /\ wmSet' \subseteq wmSet \cup {wmEvent} /\ (wmEvent = NoWorker => wmSet' = wmSet)
      BY <1>4 DEF WmCheck, WmSignal
    <3>2. wmUser' \in WmRequests /\ wmUser'.at \in {"idle", "signal", "join"}
      <4>1. ASSUME NEW at \in {"signal", "join"}, wmUser' = [wmUser EXCEPT !.at = at]
            PROVE  wmUser' \in WmRequests /\ wmUser'.at = at
        BY <1>0, <4>1, WmRequestGoesOn, Zenon
      <4>2. QED
        BY <3>1, <4>1, WmIdleIsRequest
    <3>3. QED
      BY <3>1, <3>2
  <2>2. QED
    BY <2>1 DEF WmInv, WmTypeOK, WmLatestLives, WmLive, WmRequests
<1> USE WmAssumption DEF WmInv, WmTypeOK, WmLatestLives, WmLive, WmIdle, WmGoes
<1>1. CASE WmStart
  BY <1>1 DEF WmStart
<1>2. CASE WmSpawn
  BY <1>2 DEF WmSpawn
<1>3. CASE WmStop
  BY <1>3 DEF WmStop
<1>6. ASSUME NEW t \in WmThreads, WmMakeLoop(t) PROVE WmInv'
  BY <1>6 DEF WmMakeLoop
<1>7. ASSUME NEW t \in WmThreads, WmRun(t) PROVE WmInv'
  BY <1>7 DEF WmRun
<1>8. ASSUME NEW t \in WmThreads, WmWake(t) \/ WmSignalled(t) PROVE WmInv'
  BY <1>8 DEF WmWake, WmSignalled
<1>9. ASSUME NEW t \in WmThreads, WmClientStopped(t) PROVE WmInv'
  BY <1>9 DEF WmClientStopped
<1>10. ASSUME NEW t \in WmThreads, WmEnd(t) PROVE WmInv'
  BY <1>10 DEF WmEnd
<1>11. CASE UNCHANGED wmVars
  BY <1>11 DEF wmVars
<1>12. QED
  BY <1>1, <1>2, <1>3, <1>4, <1>5, <1>6, <1>7, <1>8, <1>9, <1>10, <1>11 DEF WmNext, WmGoesOn

\* In orderly surroundings there is one worker at a time, and none when stop() has returned,
\* though it may raise; for any threads.
THEOREM WorkerManagerIsSafe == WmBehaviour => [](WmTypeOK /\ WmSafe)
<1>1. ASSUME WmInv PROVE WmSafe
  <2>1. ASSUME wmOrderly PROVE Cardinality(WmLive) <= 1
    <3>1. WmLive \subseteq {wmThread}
      BY <1>1, <2>1 DEF WmInv, WmLatestLives
    <3>2. IsFiniteSet({wmThread}) /\ Cardinality({wmThread}) = 1
      BY FS_Singleton
    <3>3. QED
      BY <3>1, <3>2, FS_Subset
  <2>2. QED
    BY <1>1, <2>1 DEF WmInv, WmLatestLives, WmSafe, WmOneWorker, WmStopped
<1>2. WmInv => WmTypeOK
  BY DEF WmInv
<1>3. QED
  BY <1>1, <1>2, WmInitially, WmPreserved, PTL DEF WmBehaviour

-----------------------------------------------------------------------------
(***************************************************************************)
(* The pages that reload.                                                  *)
(***************************************************************************)
WbBehaviour == WbInit /\ [][WbNext]_wbVars

WbJobs == [request : {"none", "start", "stop", "reload", "apply", "notify"},
           step : {"none", "worker", "restart", "subs", "notify", "count"},
           config : Configs, count : 0..WbRequests]
SubsStates == [made : BOOLEAN, runs : BOOLEAN, config : Configs, subscribed : BOOLEAN]
NotifyStates == [runs : BOOLEAN, version : Versions]

WbTypes ==
    /\ wbFile \in Configs /\ wbWorker \in WorkerStates /\ wbSubs \in SubsStates
    /\ wbNotify \in NotifyStates
    /\ wbAt \in [WbThreads -> WbJobs]
    /\ wbOrderly \in BOOLEAN /\ wbReloaded \in BOOLEAN

\* A count is never ahead of what was accepted, nor that of the requests there were.
CountsAreBehind ==
    /\ wbReceived \in Nat /\ wbAccepted \in Nat /\ wbRequests \in Nat
    /\ wbReceived <= wbAccepted /\ wbAccepted <= wbRequests /\ wbRequests <= WbRequests
    /\ \A t \in WbThreads :
           wbAt[t].request = "notify" => wbAt[t].count + 1 <= wbAccepted

Busy(t) == wbAt[t].request # "none"
Reloading(t, steps) == wbAt[t].request = "reload" /\ wbAt[t].step \in steps

\* One request at a time, which goes on with the file as it read it; a reload finds no worker
\* that is starting.
OneRequest == wbOrderly =>
    \A t \in WbThreads : Busy(t) =>
        /\ \A u \in WbThreads : Busy(u) => u = t
        /\ wbAt[t].request \in {"start", "stop"} => wbAt[t].config = LoadedConfig
        /\ wbAt[t].request = "reload" => wbAt[t].config = wbFile
        /\ Reloading(t, {"worker"}) => wbWorker.state \notin Beginning

\* Once a reload has passed a part it has what the file says, and since one has succeeded all
\* have.
WorkerInStep == wbWorker.state \in {"read", "running"} => wbWorker.version = wbFile.version
SubsInStep == wbSubs.made => /\ wbSubs.config = wbFile
                             /\ wbSubs.runs => wbSubs.subscribed = wbFile.subs
NotifyInStep == wbNotify.version = wbFile.version
PartsInStep == wbOrderly =>
    /\ wbReloaded => WorkerInStep /\ SubsInStep /\ NotifyInStep
    /\ \A t \in WbThreads : /\ Reloading(t, {"restart", "subs", "notify"}) => WorkerInStep
                            /\ Reloading(t, {"notify"}) => SubsInStep

\* The count lags behind only while a notification is being counted.
CountInStep == wbOrderly =>
    /\ \A t \in WbThreads : wbAt[t].request = "notify" =>
           wbAt[t].count = wbReceived /\ wbAccepted = wbReceived + 1
    /\ (\A t \in WbThreads : wbAt[t].request # "notify") => wbReceived = wbAccepted

WbInv == WbTypes /\ CountsAreBehind /\ OneRequest /\ PartsInStep /\ CountInStep

\* The thread that acts goes on with its request, and the others stay where they are.
LEMMA JobGoesOn ==
    ASSUME WbTypes, NEW t \in WbThreads,
           NEW step \in {"none", "worker", "restart", "subs", "notify", "count"}, Then(t, step)
    PROVE  /\ wbAt' \in [WbThreads -> WbJobs]
           /\ wbAt'[t].step = step
           /\ wbAt'[t].request = wbAt[t].request
           /\ wbAt'[t].config = wbAt[t].config
           /\ wbAt'[t].count = wbAt[t].count
           /\ \A u \in WbThreads : u # t => wbAt'[u] = wbAt[u]
<1> DEFINE j == [wbAt[t] EXCEPT !.step = step]
<1>1. wbAt \in [WbThreads -> WbJobs] /\ wbAt[t] \in WbJobs
  BY DEF WbTypes
<1>2. /\ j \in WbJobs /\ j.step = step /\ j.request = wbAt[t].request
      /\ j.config = wbAt[t].config /\ j.count = wbAt[t].count
  BY <1>1 DEF WbJobs
<1>3. wbAt' = [wbAt EXCEPT ![t] = j]
  BY DEF Then
<1> HIDE DEF j
<1>4. QED
  BY <1>1, <1>2, <1>3

\* A thread that is free has no request.
LEMMA FreeIsJob == Free \in WbJobs /\ Free.request = "none"
BY WebAssumption DEF Free, WbJobs, NoConfig, Configs, Kinds, Versions

\* ... or answers it.
LEMMA JobAnswers ==
    ASSUME WbTypes, NEW t \in WbThreads, Answer(t)
    PROVE  /\ wbAt' \in [WbThreads -> WbJobs]
           /\ wbAt'[t].request = "none"
           /\ \A u \in WbThreads : u # t => wbAt'[u] = wbAt[u]
BY FreeIsJob DEF WbTypes, Answer

\* What a request reads is a configuration.
LEMMA LoadedIsConfig == wbFile \in Configs => LoadedConfig \in Configs
BY WebAssumption DEF LoadedConfig, NoConfig, Configs, Kinds, Versions

\* A worker that goes to a state keeps its version.
LEMMA WorkerGoesTo ==
    ASSUME wbWorker \in WorkerStates,
           NEW state \in Beginning \cup {"stopped", "running", "stopping", "error"},
           WorkerGoes(state)
    PROVE  /\ wbWorker' \in WorkerStates
           /\ wbWorker'.state = state /\ wbWorker'.version = wbWorker.version
<1>1. ASSUME NEW States, NEW w \in [state : States, version : Versions], NEW s \in States
      PROVE  LET moved == [w EXCEPT !.state = s] IN
             /\ moved \in [state : States, version : Versions]
             /\ moved.state = s /\ moved.version = w.version
  OBVIOUS
<1>2. QED
  BY <1>1, Zenon DEF WorkerStates, WorkerGoes

\* Nothing is saved or running at first.
LEMMA WbInitially == WbInit => WbInv
<1> SUFFICES ASSUME WbInit PROVE WbInv
  OBVIOUS
<1>1. WbTypes
  BY FreeIsJob, WebAssumption
     DEF WbInit, WbTypes, WorkerStates, NotifyStates, SubsStates, Configs, Kinds, Versions,
         NoConfig, Beginning
<1>2. CountsAreBehind /\ OneRequest /\ CountInStep
  BY FreeIsJob, WebAssumption DEF WbInit, CountsAreBehind, OneRequest, CountInStep, Busy
<1>3. PartsInStep
  BY FreeIsJob DEF WbInit, PartsInStep, WorkerInStep, SubsInStep, NotifyInStep, Configs, Reloading
<1>4. QED
  BY <1>1, <1>2, <1>3 DEF WbInv

\* A thread is free, and in orderly surroundings all are, when a request comes.
LEMMA WbComes ==
    ASSUME WbInv, NEW t \in WbThreads, Comes(t)
    PROVE  /\ wbRequests' = wbRequests + 1 /\ wbRequests' <= WbRequests
           /\ wbAt[t].request = "none"
           /\ wbOrderly => /\ \A u \in WbThreads : ~Busy(u)
                           /\ wbReceived = wbAccepted
<1>1. /\ wbRequests' = wbRequests + 1 /\ wbRequests' <= WbRequests
      /\ wbAt[t].request = "none"
      /\ wbOrderly => \A u \in WbThreads : ~Busy(u)
  BY WebAssumption DEF WbInv, Comes, CountsAreBehind, Busy
<1>2. wbOrderly => wbReceived = wbAccepted
  BY <1>1 DEF WbInv, CountInStep, Busy
<1>3. QED
  BY <1>1, <1>2

\* The worker by itself, which moves on, reads the file or fails, stays in step.
LEMMA WorkerAlone ==
    ASSUME WbInv, UNCHANGED <<wbFile, wbSubs, wbNotify, wbReceived, wbAccepted, wbAt, wbRequests,
                              wbOrderly, wbReloaded>>,
           wbWorker' \in WorkerStates,
           wbWorker'.state \in {"read", "running"} =>
               \/ wbWorker'.version = wbFile.version
               \/ wbWorker.state \in {"read", "running"} /\ wbWorker'.version = wbWorker.version,
           wbWorker'.state \in Beginning => wbWorker.state \in Beginning
    PROVE  WbInv'
<1>1. WbTypes' /\ CountsAreBehind' /\ CountInStep'
  BY DEF WbInv, WbTypes, CountsAreBehind, CountInStep
<1>2. OneRequest'
  BY DEF WbInv, OneRequest, Busy, Reloading, LoadedConfig
<1>3. WorkerInStep => WorkerInStep'
  BY DEF WorkerInStep
<1>4. PartsInStep'
  BY <1>3 DEF WbInv, PartsInStep, SubsInStep, NotifyInStep, Reloading
<1>5. QED
  BY <1>1, <1>2, <1>4 DEF WbInv

\* Every request and every step of a reload keeps the parts in step with the file.
LEMMA WbPreserved == WbInv /\ [WbNext]_wbVars => WbInv'
<1> SUFFICES ASSUME WbInv, [WbNext]_wbVars PROVE WbInv'
  OBVIOUS
<1>0. WbTypes /\ CountsAreBehind /\ OneRequest /\ PartsInStep /\ CountInStep
  BY DEF WbInv
<1>1. ASSUME NEW t \in WbThreads, Requested(t) PROVE WbInv'
  <2>1. UNCHANGED <<wbFile, wbWorker, wbSubs, wbNotify, wbReceived, wbAccepted, wbOrderly,
                    wbReloaded>>
    BY <1>1 DEF Requested, wbParts, wbCounts
  <2>2. Comes(t)
    BY <1>1 DEF Requested
  <2>3. PICK request \in {"start", "stop", "reload"} :
            /\ wbOrderly /\ request = "reload" => wbWorker.state \notin Beginning
            /\ IF request = "reload" /\ wbFile.kind # "good" THEN UNCHANGED wbAt
               ELSE wbAt' = [wbAt EXCEPT ![t] = [Free EXCEPT !.request = request,
                                                             !.step = "worker",
                                                             !.config = LoadedConfig]]
    BY <1>1 DEF Requested
  <2>4. CASE request = "reload" /\ wbFile.kind # "good"
    <3>1. UNCHANGED wbAt
      BY <2>3, <2>4
    <3>2. WbTypes' /\ CountsAreBehind' /\ CountInStep'
      BY <1>0, <2>1, <2>2, <3>1, WbComes DEF WbTypes, CountsAreBehind, CountInStep
    <3>3. OneRequest' /\ PartsInStep'
      BY <1>0, <2>1, <3>1
         DEF OneRequest, PartsInStep, WorkerInStep, SubsInStep, NotifyInStep, Reloading, Busy,
             LoadedConfig
    <3>4. QED
      BY <3>2, <3>3 DEF WbInv
  <2>5. CASE ~(request = "reload" /\ wbFile.kind # "good")
    <3> DEFINE j == [Free EXCEPT !.request = request, !.step = "worker",
                                 !.config = LoadedConfig]
    <3>1. j \in WbJobs /\ j.request = request /\ j.step = "worker" /\ j.config = LoadedConfig
      <4>1. ASSUME NEW f \in WbJobs, NEW c \in Configs
            PROVE  LET i == [f EXCEPT !.request = request, !.step = "worker", !.config = c] IN
                   i \in WbJobs /\ i.request = request /\ i.step = "worker" /\ i.config = c
        BY DEF WbJobs
      <4>2. LoadedConfig \in Configs
        BY <1>0, LoadedIsConfig DEF WbTypes
      <4>3. QED
        BY <4>1, <4>2, FreeIsJob, Zenon
    <3>2. wbAt' = [wbAt EXCEPT ![t] = j]
      BY <2>3, <2>5
    <3> HIDE DEF j
    <3>3. /\ wbAt' \in [WbThreads -> WbJobs] /\ wbAt'[t] = j
          /\ \A u \in WbThreads : u # t => wbAt'[u] = wbAt[u]
      BY <1>0, <3>1, <3>2 DEF WbTypes
    <3>4. WbTypes'
      BY <1>0, <2>1, <3>3 DEF WbTypes
    <3>5. CountsAreBehind' /\ CountInStep'
      BY <1>0, <2>1, <2>2, <3>1, <3>3, WbComes DEF CountsAreBehind, CountInStep, Busy
    <3>6. LoadedConfig' = LoadedConfig
      BY <2>1 DEF LoadedConfig
    <3>7. request = "reload" => LoadedConfig = wbFile
      BY <2>5 DEF LoadedConfig
    <3>8. OneRequest'
      <4> SUFFICES ASSUME wbOrderly, NEW v \in WbThreads, Busy(v)' PROVE
                   /\ \A u \in WbThreads : Busy(u)' => u = v
                   /\ wbAt'[v].request \in {"start", "stop"} => wbAt'[v].config = LoadedConfig
                   /\ wbAt'[v].request = "reload" => wbAt'[v].config = wbFile
                   /\ Reloading(v, {"worker"})' => wbWorker.state \notin Beginning
        BY <2>1, <3>6 DEF OneRequest
      <4>1. \A u \in WbThreads : Busy(u)' => u = t
        BY <2>2, <3>3, WbComes DEF Busy
      <4>2. QED
        BY <2>3, <3>1, <3>3, <3>7, <4>1 DEF Reloading
    <3>9. PartsInStep'
      <4>1. ASSUME wbOrderly, NEW u \in WbThreads
            PROVE  ~Reloading(u, {"restart", "subs", "notify"})' /\ ~Reloading(u, {"notify"})'
        BY <2>2, <3>1, <3>3, <4>1, WbComes DEF Reloading, Busy
      <4>2. QED
        BY <1>0, <2>1, <4>1 DEF PartsInStep, WorkerInStep, SubsInStep, NotifyInStep
    <3>10. QED
      BY <3>4, <3>5, <3>8, <3>9 DEF WbInv
  <2>6. QED
    BY <2>4, <2>5
<1>2. ASSUME NEW t \in WbThreads, WbSaved(t) PROVE WbInv'
  <2>1. /\ UNCHANGED <<wbWorker, wbSubs, wbNotify, wbReceived, wbAccepted, wbOrderly>>
        /\ Comes(t) /\ wbFile' \in Configs /\ wbReloaded' = FALSE
    BY <1>2 DEF WbSaved, wbParts, wbCounts
  <2>2. /\ wbAt' \in [WbThreads -> WbJobs]
        /\ \A u \in WbThreads : u # t => wbAt'[u] = wbAt[u]
        /\ wbAt'[t].request \in {"none", "apply"}
    <3>1. CASE UNCHANGED wbAt
      BY <1>0, <2>1, <3>1, WbComes DEF WbTypes
    <3>2. CASE wbAt' = [wbAt EXCEPT ![t] = [Free EXCEPT !.request = "apply", !.step = "worker"]]
      <4> DEFINE j == [Free EXCEPT !.request = "apply", !.step = "worker"]
      <4>1. j \in WbJobs /\ j.request = "apply"
        <5>1. ASSUME NEW f \in WbJobs
              PROVE  LET i == [f EXCEPT !.request = "apply", !.step = "worker"] IN
                     i \in WbJobs /\ i.request = "apply"
          BY DEF WbJobs
        <5>2. QED
          BY <5>1, FreeIsJob, Zenon
      <4>2. wbAt' = [wbAt EXCEPT ![t] = j]
        BY <3>2
      <4> HIDE DEF j
      <4>3. QED
        BY <1>0, <4>1, <4>2 DEF WbTypes
    <3>3. QED
      BY <1>2, <3>1, <3>2 DEF WbSaved
  <2>3. WbTypes'
    BY <1>0, <2>1, <2>2 DEF WbTypes
  <2>4. CountsAreBehind' /\ OneRequest' /\ CountInStep'
    BY <1>0, <2>1, <2>2, WbComes DEF CountsAreBehind, OneRequest, CountInStep, Busy, Reloading
  <2>5. PartsInStep'
    BY <2>1, <2>2, WbComes DEF PartsInStep, Reloading, Busy
  <2>6. QED
    BY <2>3, <2>4, <2>5 DEF WbInv
<1>3. ASSUME NEW t \in WbThreads, WorkerActed(t) PROVE WbInv'
  <2>1. UNCHANGED <<wbFile, wbSubs, wbNotify, wbReceived, wbAccepted, wbRequests, wbOrderly,
                    wbReloaded>>
    BY <1>3 DEF WorkerActed, wbCounts, wbHistory
  <2>2. /\ wbAt[t].request \in {"start", "stop", "reload", "apply"}
        /\ wbAt[t].step \in {"worker", "restart"}
    BY <1>3 DEF WorkerActed, Doing
  <2>3. wbWorker \in WorkerStates
    BY <1>0 DEF WbTypes
  <2>4. /\ \/ UNCHANGED wbWorker
           \/ \E state \in Beginning \cup {"stopped", "stopping", "error"} : WorkerGoes(state)
        /\ \/ Answer(t)
           \/ \E step \in {"restart", "subs"} : Then(t, step)
    <3>1. StopLeaves \subseteq Beginning \cup {"stopped"}
      BY DEF StopLeaves
    <3>2. WorkerStarted => \/ UNCHANGED wbWorker
                           \/ WorkerGoes("starting")
      BY DEF WorkerStarted
    <3>3. StopRaises(t) => /\ \E state \in {"stopping", "error"} : WorkerGoes(state)
                           /\ Answer(t)
      BY DEF StopRaises
    <3>4. "starting" \in Beginning
      BY DEF Beginning
    <3>5. QED
      BY <1>3, <3>1, <3>2, <3>3, <3>4, Zenon DEF WorkerActed
  <2>5. /\ wbWorker' \in WorkerStates
        /\ wbWorker'.state \in {"read", "running"} =>
               wbWorker.state \in {"read", "running"} /\ wbWorker'.version = wbWorker.version
    <3>1. ASSUME NEW state \in Beginning \cup {"stopped", "stopping", "error"}, WorkerGoes(state)
          PROVE  /\ wbWorker' \in WorkerStates
                 /\ wbWorker'.state = state /\ wbWorker'.version = wbWorker.version
      BY <2>3, <3>1, WorkerGoesTo
    <3>2. WorkerGoes("read") => wbWorker.state = "read"
      BY <1>3, <2>3, <3>1 DEF WorkerActed, WorkerStarted, StopLeaves, StopRaises, WorkerGoes,
                              WorkerStates, Beginning
    <3>3. QED
      BY <2>3, <2>4, <3>1, <3>2 DEF Beginning
  <2>6. wbOrderly /\ Reloading(t, {"worker"}) => wbWorker'.state \notin {"read", "running"}
    <3> SUFFICES ASSUME wbOrderly, Reloading(t, {"worker"})
                 PROVE  wbWorker'.state \notin {"read", "running"}
      OBVIOUS
    <3>1. wbWorker.state \notin Beginning
      BY <1>0 DEF OneRequest, Busy, Reloading
    <3>2. CASE wbWorker.state = "running"
      <4>1. \E state \in {"stopped", "stopping", "error"} : WorkerGoes(state)
        BY <1>3, <3>2 DEF WorkerActed, Doing, Reloading, StopRaises
      <4>2. QED
        BY <2>3, <4>1, WorkerGoesTo
    <3>3. CASE wbWorker.state # "running"
      <4>1. UNCHANGED wbWorker
        BY <1>3, <3>3 DEF WorkerActed, Doing, Reloading
      <4>2. QED
        BY <3>1, <3>3, <4>1 DEF Beginning
    <3>4. QED
      BY <3>2, <3>3
  <2>7. /\ wbAt' \in [WbThreads -> WbJobs]
        /\ \A u \in WbThreads : u # t => wbAt'[u] = wbAt[u]
        /\ \/ wbAt'[t].request = "none"
           \/ /\ wbAt'[t].request = wbAt[t].request /\ wbAt'[t].config = wbAt[t].config
              /\ wbAt'[t].step \in {"restart", "subs"}
    <3>1. CASE Answer(t)
      BY <1>0, <3>1, JobAnswers
    <3>2. ASSUME NEW step \in {"restart", "subs"}, Then(t, step) PROVE <2>7!:
      BY <1>0, <3>2, JobGoesOn
    <3>3. QED
      BY <2>4, <3>1, <3>2
  <2>8. WbTypes'
    BY <1>0, <2>1, <2>5, <2>7 DEF WbTypes
  <2>9. CountsAreBehind' /\ CountInStep'
    BY <1>0, <2>1, <2>2, <2>7 DEF CountsAreBehind, CountInStep
  <2>10. OneRequest'
    <3>1. LoadedConfig' = LoadedConfig
      BY <2>1 DEF LoadedConfig
    <3>2. QED
      BY <1>0, <2>1, <2>2, <2>7, <3>1 DEF OneRequest, Busy, Reloading
  <2>11. PartsInStep'
    <3> SUFFICES ASSUME wbOrderly PROVE PartsInStep'
      BY <2>1 DEF PartsInStep
    <3>1. \A u \in WbThreads : Busy(u) => u = t
      BY <1>0, <2>2 DEF OneRequest, Busy
    <3>2. WorkerInStep => WorkerInStep'
      BY <2>1, <2>5 DEF WorkerInStep
    <3>3. Reloading(t, {"worker"}) => WorkerInStep'
      BY <2>6 DEF WorkerInStep
    <3>4. Reloading(t, {"restart"}) => WorkerInStep
      BY <1>0 DEF PartsInStep, Reloading
    <3>5. ASSUME NEW u \in WbThreads, Reloading(u, {"restart", "subs", "notify"})'
          PROVE  WorkerInStep' /\ ~Reloading(u, {"notify"})'
      <4>1. u = t
        BY <2>7, <3>1, <3>5 DEF Busy, Reloading
      <4>2. Reloading(t, {"worker", "restart"}) /\ wbAt'[t].step \in {"restart", "subs"}
        BY <2>2, <2>7, <3>5, <4>1 DEF Reloading
      <4>3. QED
        BY <3>2, <3>3, <3>4, <4>1, <4>2 DEF Reloading
    <3>6. wbReloaded => (WorkerInStep /\ SubsInStep /\ NotifyInStep)'
      BY <1>0, <2>1, <3>2 DEF PartsInStep, SubsInStep, NotifyInStep
    <3>7. QED
      BY <2>1, <3>5, <3>6 DEF PartsInStep, Reloading
  <2>12. QED
    BY <2>8, <2>9, <2>10, <2>11 DEF WbInv
<1>4. ASSUME NEW t \in WbThreads, SubsActed(t) PROVE WbInv'
  <2>1. /\ UNCHANGED <<wbFile, wbWorker, wbNotify, wbReceived, wbAccepted, wbRequests, wbOrderly,
                       wbReloaded>>
        /\ wbAt[t].request \in {"start", "stop", "reload"} /\ wbAt[t].step = "subs"
        /\ Then(t, "notify")
    BY <1>4 DEF SubsActed, Doing, wbCounts, wbHistory
  <2>2. /\ wbAt' \in [WbThreads -> WbJobs]
        /\ \A u \in WbThreads : u # t => wbAt'[u] = wbAt[u]
        /\ wbAt'[t].request = wbAt[t].request /\ wbAt'[t].config = wbAt[t].config
        /\ wbAt'[t].step = "notify"
    BY <1>0, <2>1, JobGoesOn
  <2>3. wbAt[t].config \in Configs /\ wbFile \in Configs /\ wbSubs \in SubsStates
    BY <1>0 DEF WbTypes, WbJobs
  <2>4. /\ Made \in SubsStates
        /\ (wbSubs.made => Made = wbSubs)
        /\ (~wbSubs.made /\ Made.made => Made.config = wbFile /\ ~Made.runs)
    BY <2>3 DEF Made, SubsStates
  <2>5. \/ ~Made.made /\ wbSubs' = wbSubs
        \/ /\ wbAt[t].request = "start" /\ wbAt[t].config.subs /\ ~Made.runs /\ Made.made
           /\ wbSubs' = [Made EXCEPT !.runs = TRUE,
                                     !.subscribed = Made.config.subs \/ Made.subscribed]
        \/ Made.made /\ wbAt[t].request = "stop" /\ wbSubs' = [Made EXCEPT !.runs = FALSE]
        \/ /\ Made.made /\ wbAt[t].request = "reload"
           /\ wbSubs' = [Made EXCEPT !.config = wbAt[t].config,
                                     !.subscribed = wbAt[t].config.subs]
        \/ Made.made /\ wbAt[t].request = "start" /\ wbSubs' = Made
    BY <1>4, <2>1 DEF SubsActed
  <2>6. /\ wbSubs' \in SubsStates
        /\ ~Made.made => wbSubs' = wbSubs
        /\ wbAt[t].request # "reload" /\ Made.made => wbSubs'.config = Made.config
        /\ wbAt[t].request = "reload" /\ Made.made =>
               /\ wbSubs'.config = wbAt[t].config
               /\ wbSubs'.subscribed = wbAt[t].config.subs
        /\ wbAt[t].request = "start" /\ Made.made /\ wbSubs'.runs =>
               \/ /\ wbAt[t].config.subs
                  /\ wbSubs'.subscribed = (Made.config.subs \/ Made.subscribed)
               \/ Made.runs /\ wbSubs'.subscribed = Made.subscribed
        /\ wbAt[t].request = "stop" /\ Made.made => ~wbSubs'.runs
    <3>1. Made \in SubsStates /\ wbAt[t].config \in Configs
      BY <2>3, <2>4
    <3>2. CASE /\ wbAt[t].request = "start" /\ wbAt[t].config.subs /\ ~Made.runs /\ Made.made
               /\ wbSubs' = [Made EXCEPT !.runs = TRUE,
                                         !.subscribed = Made.config.subs \/ Made.subscribed]
      BY <3>1, <3>2 DEF SubsStates, Configs
    <3>3. CASE Made.made /\ wbAt[t].request = "stop" /\ wbSubs' = [Made EXCEPT !.runs = FALSE]
      BY <3>1, <3>3 DEF SubsStates
    <3>4. CASE /\ Made.made /\ wbAt[t].request = "reload"
               /\ wbSubs' = [Made EXCEPT !.config = wbAt[t].config,
                                         !.subscribed = wbAt[t].config.subs]
      BY <3>1, <3>4 DEF SubsStates, Configs
    <3>5. CASE Made.made /\ wbAt[t].request = "start" /\ wbSubs' = Made
      BY <3>1, <3>5
    <3>6. CASE ~Made.made /\ wbSubs' = wbSubs
      BY <2>3, <3>6
    <3>7. QED
      BY <2>5, <3>2, <3>3, <3>4, <3>5, <3>6
  <2>7. WbTypes'
    BY <1>0, <2>1, <2>2, <2>6 DEF WbTypes
  <2>8. LoadedConfig' = LoadedConfig
    BY <2>1 DEF LoadedConfig
  <2>9. CountsAreBehind' /\ CountInStep'
    BY <1>0, <2>1, <2>2 DEF CountsAreBehind, CountInStep
  <2>10. OneRequest'
    BY <1>0, <2>1, <2>2, <2>8 DEF OneRequest, Busy, Reloading
  <2>11. PartsInStep'
    <3> SUFFICES ASSUME wbOrderly PROVE PartsInStep'
      BY <2>1 DEF PartsInStep
    <3>1. /\ \A u \in WbThreads : Busy(u) => u = t
          /\ wbAt[t].request \in {"start", "stop"} => wbAt[t].config = LoadedConfig
          /\ wbAt[t].request = "reload" => wbAt[t].config = wbFile
      BY <1>0, <2>1 DEF OneRequest, Busy
    <3>2. (WorkerInStep => WorkerInStep') /\ (NotifyInStep => NotifyInStep')
      BY <2>1 DEF WorkerInStep, NotifyInStep
    <3>3. wbAt[t].request = "reload" => SubsInStep'
      <4>1. ASSUME wbAt[t].request = "reload" PROVE SubsInStep'
        <5>1. CASE Made.made
          BY <2>1, <2>6, <3>1, <4>1, <5>1 DEF SubsInStep
        <5>2. CASE ~Made.made
          BY <2>1, <2>4, <2>6, <5>2 DEF SubsInStep
        <5>3. QED
          BY <5>1, <5>2
      <4>2. QED
        BY <4>1
    <3>4. SubsInStep /\ wbAt[t].request # "reload" => SubsInStep'
      <4> SUFFICES ASSUME SubsInStep, wbAt[t].request # "reload" PROVE SubsInStep'
        OBVIOUS
      <4>1. CASE ~Made.made
        BY <2>1, <2>6, <4>1 DEF SubsInStep
      <4>2. CASE Made.made
        <5>1. Made.config = wbFile /\ (Made.runs => Made.subscribed = wbFile.subs)
          BY <2>4, <4>2 DEF SubsInStep
        <5>2. wbSubs'.config = wbFile
          BY <2>6, <4>2, <5>1
        <5>3. ASSUME wbSubs'.runs PROVE wbSubs'.subscribed = wbFile.subs
          <6>1. wbAt[t].request = "start"
            BY <2>1, <2>6, <4>2, <5>3
          <6>2. wbFile.subs \in BOOLEAN /\ Made.subscribed \in BOOLEAN
            BY <2>3, <2>4 DEF Configs, SubsStates
          <6>3. wbAt[t].config.subs => wbFile.subs
            BY <3>1, <6>1 DEF LoadedConfig, NoConfig
          <6>4. QED
            BY <2>6, <4>2, <5>1, <5>3, <6>1, <6>2, <6>3
        <5>4. QED
          BY <2>1, <5>2, <5>3 DEF SubsInStep
      <4>3. QED
        BY <4>1, <4>2
    <3>5. Reloading(t, {"subs"}) => WorkerInStep
      BY <1>0 DEF PartsInStep, Reloading
    <3>6. ASSUME NEW u \in WbThreads, Reloading(u, {"restart", "subs", "notify"})'
          PROVE  WorkerInStep' /\ SubsInStep'
      <4>1. u = t
        BY <2>2, <3>1, <3>6 DEF Busy, Reloading
      <4>2. wbAt[t].request = "reload"
        BY <2>2, <3>6, <4>1 DEF Reloading
      <4>3. QED
        BY <2>1, <3>2, <3>3, <3>5, <4>2 DEF Reloading
    <3>7. wbReloaded => (WorkerInStep /\ SubsInStep /\ NotifyInStep)'
      BY <1>0, <3>2, <3>3, <3>4 DEF PartsInStep
    <3>8. QED
      BY <2>1, <3>6, <3>7 DEF PartsInStep, Reloading
  <2>12. QED
    BY <2>7, <2>9, <2>10, <2>11 DEF WbInv
<1>5. ASSUME NEW t \in WbThreads, NotifyActed(t) PROVE WbInv'
  <2>1. /\ UNCHANGED <<wbFile, wbWorker, wbSubs, wbReceived, wbAccepted, wbRequests, wbOrderly>>
        /\ wbAt[t].request \in {"start", "stop", "reload"} /\ wbAt[t].step = "notify"
        /\ Answer(t)
        /\ wbReloaded' \in BOOLEAN
        /\ wbAt[t].request # "reload" => wbReloaded' = wbReloaded
    BY <1>0, <1>5 DEF NotifyActed, Doing, wbCounts, WbTypes
  <2>2. /\ wbAt' \in [WbThreads -> WbJobs] /\ wbAt'[t].request = "none"
        /\ \A u \in WbThreads : u # t => wbAt'[u] = wbAt[u]
    BY <1>0, <2>1, JobAnswers
  <2>3. wbNotify \in NotifyStates /\ wbAt[t].config \in Configs /\ wbFile \in Configs
    BY <1>0 DEF WbTypes, WbJobs
  <2>4. /\ wbNotify' \in NotifyStates
        /\ wbNotify'.version = IF wbAt[t].request = "reload" THEN wbAt[t].config.version
                               ELSE wbNotify.version
    <3>1. CASE /\ wbAt[t].request = "start"
               /\ wbNotify' = [wbNotify EXCEPT !.runs = @ \/ wbAt[t].config.notify]
      BY <2>3, <3>1 DEF NotifyStates, Configs
    <3>2. CASE wbAt[t].request = "stop" /\ wbNotify' = [wbNotify EXCEPT !.runs = FALSE]
      BY <2>3, <3>2 DEF NotifyStates
    <3>3. CASE /\ wbAt[t].request = "reload"
               /\ wbNotify' = [wbNotify EXCEPT !.version = wbAt[t].config.version]
      BY <2>3, <3>3 DEF NotifyStates, Configs
    <3>4. QED
      BY <1>5, <3>1, <3>2, <3>3 DEF NotifyActed, Doing
  <2>5. WbTypes'
    BY <1>0, <2>1, <2>2, <2>4 DEF WbTypes
  <2>6. LoadedConfig' = LoadedConfig
    BY <2>1 DEF LoadedConfig
  <2>7. CountsAreBehind' /\ CountInStep'
    BY <1>0, <2>1, <2>2 DEF CountsAreBehind, CountInStep
  <2>8. OneRequest'
    BY <1>0, <2>1, <2>2, <2>6 DEF OneRequest, Busy, Reloading
  <2>9. PartsInStep'
    <3> SUFFICES ASSUME wbOrderly PROVE PartsInStep'
      BY <2>1 DEF PartsInStep
    <3>1. /\ \A u \in WbThreads : Busy(u) => u = t
          /\ wbAt[t].request = "reload" => wbAt[t].config = wbFile
      BY <1>0, <2>1 DEF OneRequest, Busy
    <3>2. (WorkerInStep => WorkerInStep') /\ (SubsInStep => SubsInStep')
      BY <2>1 DEF WorkerInStep, SubsInStep
    <3>3. wbAt[t].request = "reload" => WorkerInStep /\ SubsInStep /\ NotifyInStep'
      BY <1>0, <2>1, <2>4, <3>1 DEF PartsInStep, Reloading, NotifyInStep
    <3>4. wbAt[t].request # "reload" => (NotifyInStep => NotifyInStep')
      BY <2>1, <2>4 DEF NotifyInStep
    <3>5. \A u \in WbThreads : ~Busy(u)'
      BY <2>2, <3>1 DEF Busy
    <3>6. QED
      BY <1>0, <2>1, <3>2, <3>3, <3>4, <3>5 DEF PartsInStep, Reloading, Busy
  <2>10. QED
    BY <2>5, <2>7, <2>8, <2>9 DEF WbInv
<1>6. ASSUME NEW t \in WbThreads, Notification(t) PROVE WbInv'
  <2>1. /\ UNCHANGED <<wbFile, wbWorker, wbSubs, wbNotify, wbReceived, wbOrderly, wbReloaded>>
        /\ Comes(t)
    BY <1>6 DEF Notification, wbParts
  <2>2. wbReceived \in 0..WbRequests
    BY <1>0, WebAssumption DEF CountsAreBehind
  <2>3. CASE UNCHANGED <<wbAt, wbAccepted>>
    <3>1. WbTypes'
      BY <1>0, <2>1, <2>3 DEF WbTypes
    <3>2. CountsAreBehind' /\ OneRequest' /\ CountInStep'
      BY <1>0, <2>1, <2>3, WbComes
         DEF CountsAreBehind, OneRequest, CountInStep, Busy, Reloading, LoadedConfig
    <3>3. PartsInStep'
      BY <1>0, <2>1, <2>3
         DEF PartsInStep, WorkerInStep, SubsInStep, NotifyInStep, Reloading
    <3>4. QED
      BY <3>1, <3>2, <3>3 DEF WbInv
  <2>4. CASE ~UNCHANGED <<wbAt, wbAccepted>>
    <3> DEFINE j == [Free EXCEPT !.request = "notify", !.step = "count", !.count = wbReceived]
    <3>1. wbAccepted' = wbAccepted + 1 /\ wbAt' = [wbAt EXCEPT ![t] = j]
      BY <1>6, <2>4 DEF Notification
    <3>2. j \in WbJobs /\ j.request = "notify" /\ j.count = wbReceived
      <4>1. ASSUME NEW f \in WbJobs, NEW n \in 0..WbRequests
            PROVE  LET i == [f EXCEPT !.request = "notify", !.step = "count", !.count = n] IN
                   i \in WbJobs /\ i.request = "notify" /\ i.count = n
        BY DEF WbJobs
      <4>2. QED
        BY <2>2, <4>1, FreeIsJob, Zenon
    <3> HIDE DEF j
    <3>3. /\ wbAt' \in [WbThreads -> WbJobs] /\ wbAt'[t] = j
          /\ \A u \in WbThreads : u # t => wbAt'[u] = wbAt[u]
      BY <1>0, <3>1, <3>2 DEF WbTypes
    <3>4. WbTypes'
      BY <1>0, <2>1, <3>3 DEF WbTypes
    <3>5. CountsAreBehind'
      <4>1. /\ wbRequests' = wbRequests + 1 /\ wbRequests' <= WbRequests
            /\ wbAt'[t].count = wbReceived
        BY <2>1, <3>2, <3>3, WbComes
      <4>2. \A u \in WbThreads : wbAt[u].count \in Nat
        BY <1>0 DEF WbTypes, WbJobs
      <4>3. QED
        BY <1>0, <2>1, <3>1, <3>3, <4>1, <4>2 DEF CountsAreBehind
    <3>6. OneRequest' /\ CountInStep'
      BY <1>0, <2>1, <3>1, <3>2, <3>3, WbComes
         DEF OneRequest, CountInStep, Busy, CountsAreBehind, Reloading
    <3>7. PartsInStep'
      BY <1>0, <2>1, <3>2, <3>3, WbComes
         DEF PartsInStep, WorkerInStep, SubsInStep, NotifyInStep, Reloading
    <3>8. QED
      BY <3>4, <3>5, <3>6, <3>7 DEF WbInv
  <2>5. QED
    BY <2>3, <2>4
<1>7. ASSUME NEW t \in WbThreads, Counted(t) PROVE WbInv'
  <2>1. /\ UNCHANGED <<wbFile, wbWorker, wbSubs, wbNotify, wbAccepted, wbRequests, wbOrderly,
                       wbReloaded>>
        /\ wbAt[t].request = "notify" /\ wbReceived' = wbAt[t].count + 1 /\ Answer(t)
    BY <1>7 DEF Counted, Doing, wbParts, wbHistory
  <2>2. /\ wbAt' \in [WbThreads -> WbJobs] /\ wbAt'[t].request = "none"
        /\ \A u \in WbThreads : u # t => wbAt'[u] = wbAt[u]
    BY <1>0, <2>1, JobAnswers
  <2>3. wbAt[t].count \in Nat
    BY <1>0 DEF WbTypes, WbJobs
  <2>4. WbTypes'
    BY <1>0, <2>1, <2>2 DEF WbTypes
  <2>5. CountsAreBehind'
    BY <1>0, <2>1, <2>2, <2>3 DEF CountsAreBehind
  <2>6. OneRequest' /\ CountInStep'
    BY <1>0, <2>1, <2>2, <2>3
       DEF OneRequest, CountInStep, Busy, Reloading, LoadedConfig
  <2>7. PartsInStep'
    BY <1>0, <2>1, <2>2 DEF PartsInStep, WorkerInStep, SubsInStep, NotifyInStep, Reloading
  <2>8. QED
    BY <2>4, <2>5, <2>6, <2>7 DEF WbInv
<1>8. CASE WorkerReads \/ WorkerRuns \/ WorkerFails
  <2>1. UNCHANGED <<wbFile, wbSubs, wbNotify, wbReceived, wbAccepted, wbAt, wbRequests, wbOrderly,
                    wbReloaded>>
    BY <1>8 DEF WorkerReads, WorkerRuns, WorkerFails, wbCounts, wbHistory
  <2>2. wbWorker \in WorkerStates /\ wbFile.version \in Versions
    BY <1>0 DEF WbTypes, Configs
  <2>3. CASE WorkerReads
    <3>1. /\ wbWorker.state = "starting"
          /\ wbWorker' = [state |-> "read", version |-> wbFile.version]
      BY <2>3 DEF WorkerReads
    <3>2. wbWorker' \in WorkerStates
      BY <2>2, <3>1 DEF WorkerStates, Beginning
    <3>3. QED
      BY <2>1, <3>1, <3>2, WorkerAlone DEF Beginning
  <2>4. CASE WorkerRuns
    <3>1. wbWorker.state = "read" /\ WorkerGoes("running")
      BY <2>4 DEF WorkerRuns
    <3>2. /\ wbWorker' \in WorkerStates
          /\ wbWorker'.state = "running" /\ wbWorker'.version = wbWorker.version
      BY <2>2, <3>1, WorkerGoesTo
    <3>3. QED
      BY <2>1, <3>1, <3>2, WorkerAlone DEF Beginning
  <2>5. CASE WorkerFails
    <3>1. /\ wbWorker' \in WorkerStates
          /\ wbWorker'.state = "error" /\ wbWorker'.version = wbWorker.version
      BY <2>2, <2>5, WorkerGoesTo DEF WorkerFails
    <3>2. QED
      BY <2>1, <3>1, WorkerAlone DEF Beginning
  <2>6. QED
    BY <1>8, <2>3, <2>4, <2>5
<1>9. CASE StatusAsked
  <2>1. /\ UNCHANGED <<wbFile, wbWorker, wbNotify, wbReceived, wbAccepted, wbAt, wbRequests,
                       wbOrderly, wbReloaded>>
        /\ wbSubs' = Made
    BY <1>9 DEF StatusAsked, wbCounts, wbHistory
  <2>2. /\ wbSubs' \in SubsStates
        /\ SubsInStep => SubsInStep'
    BY <1>0, <2>1 DEF Made, WbTypes, SubsStates, SubsInStep
  <2>3. WbTypes' /\ CountsAreBehind' /\ CountInStep'
    BY <1>0, <2>1, <2>2 DEF WbTypes, CountsAreBehind, CountInStep
  <2>4. OneRequest'
    BY <1>0, <2>1 DEF OneRequest, Busy, Reloading, LoadedConfig
  <2>5. PartsInStep'
    BY <1>0, <2>1, <2>2 DEF PartsInStep, WorkerInStep, NotifyInStep, Reloading
  <2>6. QED
    BY <2>3, <2>4, <2>5 DEF WbInv
<1>10. CASE UNCHANGED wbVars
  BY <1>0, <1>10
     DEF wbVars, wbParts, wbCounts, wbHistory, WbInv, WbTypes, CountsAreBehind, OneRequest,
         PartsInStep, CountInStep, WorkerInStep, SubsInStep, NotifyInStep, Reloading, Busy,
         LoadedConfig
<1>11. QED
  BY <1>1, <1>2, <1>3, <1>4, <1>5, <1>6, <1>7, <1>8, <1>9, <1>10 DEF WbNext

\* In orderly surroundings a reload that succeeds reaches every part of the program, whatever
\* was saved before it, failed or raised, and every notification is counted; for any number of
\* threads, saves and requests.
THEOREM WebIsSafe == WbBehaviour => [](WbTypeOK /\ WebSafe)
<1>1. ASSUME WbInv PROVE WbTypeOK
  BY <1>1, WebAssumption
     DEF WbInv, WbTypes, CountsAreBehind, WbTypeOK, NotifyStates, SubsStates, WbJobs
<1>2. ASSUME WbInv PROVE ReloadReachesAll
  BY <1>2 DEF WbInv, PartsInStep, WorkerInStep, SubsInStep, NotifyInStep, ReloadReachesAll
<1>3. ASSUME WbInv PROVE AllCounted
  BY <1>3 DEF WbInv, CountInStep, AllCounted, WbIdle
<1>4. QED
  BY <1>1, <1>2, <1>3, WbInitially, WbPreserved, PTL DEF WbBehaviour, WebSafe

-----------------------------------------------------------------------------
(***************************************************************************)
(* The configuration.                                                      *)
(***************************************************************************)
CfBehaviour == CfInit /\ [][CfNext]_cfVars

\* A lock file that is there was confirmed on the host that it names.
LockWasConfirmed == cfLock # << >> => cfLock \in cfConfirmed

CfInv ==
    /\ cfFile \in Files /\ LockWasConfirmed
    /\ ProductionWasUnlocked /\ LimitsAreSane

\* A controller for production has a token that the lock file of this host is signed with, and
\* any other is harmless.
LEMMA MadeForProduction ==
    ASSUME NEW mode, NEW limits, NEW token
    PROVE  LET made == MadeFrom(mode, limits, token) IN
           /\ made.limits = "sane"
           /\ made.mode = "production" => cfLock = <<made.token, cfHost>>
<1> DEFINE signed == IF token # NoToken THEN token ELSE cfEnv.token
           refused == \/ limits # "sane"
                      \/ mode = "production" /\ ~(signed # NoToken /\ VerifyLockfile(signed))
           made == MadeFrom(mode, limits, token)
<1>1. CASE refused
  BY <1>1 DEF MadeFrom, NoController
<1>2. CASE ~refused
  <2>1. made = [mode |-> mode, limits |-> limits, host |-> cfHost,
                token |-> IF mode = "production" THEN signed ELSE NoToken]
    BY <1>2 DEF MadeFrom
  <2>2. made.limits = limits /\ made.mode = mode
    BY <2>1
  <2>3. mode = "production" => made.token = signed
    BY <2>1
  <2>4. QED
    BY <1>2, <2>2, <2>3 DEF VerifyLockfile
<1>3. QED
  BY <1>1, <1>2

\* A file that is read and written again is one that may be there.
LEMMA RewrittenIsFile == ASSUME NEW f \in Files PROVE Rewritten(f) \in Files
<1>1. /\ f.other \in {"valid", "invalid"} /\ f.mode \in {"dry_run", "production"}
      /\ f.limits \in {"sane", "nan"} /\ f.token \in Tokens \cup {NoToken}
  BY DEF Files
<1>2. f.other = "valid" \/ f.limits = "sane"
  BY DEF Files
<1>3. QED
  BY <1>1, <1>2 DEF Files, Rewritten

\* Nothing is running, and nothing is unlocked, at first.
LEMMA CfInitially == CfInit => CfInv
BY DEF CfInit, CfInv, NoController, LockWasConfirmed, ProductionWasUnlocked, LimitsAreSane

\* Every change of a file and every start keeps what was unlocked apart from what was not.
LEMMA CfPreserved == CfInv /\ [CfNext]_cfVars => CfInv'
<1> SUFFICES ASSUME CfInv, [CfNext]_cfVars PROVE CfInv'
  OBVIOUS
<1> USE DEF CfInv, LockWasConfirmed, ProductionWasUnlocked, LimitsAreSane
<1>1. CASE ConfigSaved \/ Edited \/ UnlockAsked
  BY <1>1 DEF ConfigSaved, Edited, UnlockAsked, cfClient
<1>2. CASE Converted
  BY <1>2, RewrittenIsFile DEF Converted, cfClient
<1>3. CASE UnlockAnswered
  BY <1>3 DEF UnlockAnswered, cfClient, cfSurroundings
<1>4. CASE Revoked \/ Moved \/ ClientStops
  BY <1>4 DEF Revoked, Moved, ClientStops, cfClient, NoController
<1>5. CASE WorkerStarts \/ ManagerStarts
  <2>1. UNCHANGED <<cfFile, cfHost, cfLock, cfConfirmed>> /\ cfUnlocked' = WasUnlocked
    BY <1>5 DEF WorkerStarts, ManagerStarts, cfSurroundings
  <2>2. /\ cfController'.limits = "sane"
        /\ cfController'.mode = "production" => cfLock = <<cfController'.token, cfHost>>
    <3>1. cfController' \in {FromFile, FromEnv, NoController}
      BY <1>5 DEF WorkerStarts, ManagerStarts
    <3>2. CASE cfController' = FromFile
      BY <3>2, MadeForProduction DEF FromFile
    <3>3. CASE cfController' = FromEnv
      BY <3>3, MadeForProduction DEF FromEnv
    <3>4. CASE cfController' = NoController
      BY <3>4 DEF NoController
    <3>5. QED
      BY <3>1, <3>2, <3>3, <3>4
  <2>3. cfController'.mode = "production" => WasUnlocked
    <3>1. cfController'.mode = "production" =>
              cfLock = <<cfController'.token, cfHost>> /\ cfLock # << >>
      BY <2>2
    <3>2. QED
      BY <3>1 DEF WasUnlocked
  <2>4. ProductionWasUnlocked'
    BY <2>1, <2>3, Zenon
  <2>5. QED
    BY <2>1, <2>2, <2>4
<1>6. CASE UNCHANGED cfVars
  BY <1>6 DEF cfVars, cfClient
<1>7. QED
  BY <1>1, <1>2, <1>3, <1>4, <1>5, <1>6 DEF CfNext

\* A controller has the type of one, whatever it is made from.
LEMMA ControllersHaveType ==
    ASSUME NEW mode \in {"dry_run", "production"}, NEW limits \in {"sane", "nan"},
           NEW token \in Tokens \cup {NoToken}, CfTypeOK
    PROVE  LET made == MadeFrom(mode, limits, token) IN
           /\ made.mode \in {"none", "dry_run", "production"}
           /\ made.limits \in {"sane", "nan"}
           /\ made.token \in Tokens \cup {NoToken} /\ made.host \in Hosts \cup {"none"}
<1> DEFINE signed == IF token # NoToken THEN token ELSE cfEnv.token
           made == MadeFrom(mode, limits, token)
<1>1. signed \in Tokens \cup {NoToken} /\ cfHost \in Hosts
  BY DEF CfTypeOK
<1>2. \/ made = NoController
      \/ made = [mode |-> mode, limits |-> limits, host |-> cfHost,
                 token |-> IF mode = "production" THEN signed ELSE NoToken]
  BY DEF MadeFrom
<1>3. QED
  BY <1>1, <1>2 DEF NoController

\* Every change and every start keeps the types of the configuration.
LEMMA CfTypesKept == CfTypeOK /\ [CfNext]_cfVars => CfTypeOK'
<1> SUFFICES ASSUME CfTypeOK, [CfNext]_cfVars PROVE CfTypeOK'
  OBVIOUS
<1> USE ConfigurationAssumption DEF CfTypeOK
<1>1. CASE ConfigSaved \/ Edited
  BY <1>1 DEF ConfigSaved, Edited, cfClient, Changes
<1>2. CASE Converted
  BY <1>2, RewrittenIsFile DEF Converted, cfClient, cfSurroundings
<1>3. CASE UnlockAsked
  <2>1. cfFile.token \in Tokens \cup {NoToken}
    BY DEF Files
  <2>2. QED
    BY <1>3, <2>1 DEF UnlockAsked, cfClient, cfSurroundings
<1>4. CASE UnlockAnswered
  <2>1. PICK token \in cfCli :
           /\ cfCli' = cfCli \ {token}
           /\ \/ /\ cfLock' = <<token, cfHost>>
                 /\ cfConfirmed' = cfConfirmed \cup {<<token, cfHost>>}
              \/ UNCHANGED <<cfLock, cfConfirmed>>
    BY <1>4 DEF UnlockAnswered
  <2>2. <<token, cfHost>> \in Locks /\ <<token, cfHost>> \in Tokens \X Hosts
    BY DEF Locks
  <2>3. QED
    BY <1>4, <2>1, <2>2 DEF UnlockAnswered, cfClient, cfSurroundings
<1>5. CASE Revoked
  BY <1>5 DEF Revoked, cfClient, Changes, Locks
<1>6. CASE Moved \/ ClientStops
  <2>1. /\ cfRunning' = "none" /\ cfController' = NoController /\ cfUnlocked' \in BOOLEAN
        /\ cfCli' \subseteq Tokens /\ UNCHANGED <<cfFile, cfEnv, cfLock, cfConfirmed>>
    BY <1>6, Zenon DEF Moved, ClientStops, cfSurroundings
  <2>2. cfHost' \in Hosts /\ cfChanges' \in 0..CfChanges
    BY <1>6 DEF Moved, ClientStops, Changes, cfSurroundings
  <2>3. QED
    BY <2>1, <2>2 DEF NoController
<1>7. CASE WorkerStarts \/ ManagerStarts
  <2>1. UNCHANGED <<cfFile, cfSurroundings, cfLock, cfCli, cfConfirmed>>
    BY <1>7 DEF WorkerStarts, ManagerStarts
  <2>2. cfRunning' \in {"none", "file", "defaults", "legacyFile"} /\ cfUnlocked' \in BOOLEAN
    <3>1. cfUnlocked' = WasUnlocked /\ cfRunning' \in {"file", "none", "defaults", "legacyFile"}
      BY <1>7 DEF WorkerStarts, ManagerStarts, LegacyReads
    <3>2. cfUnlocked' \in BOOLEAN
      BY <3>1, SMT DEF WasUnlocked
    <3>3. QED
      BY <3>1, <3>2
  <2>3. cfController' \in {FromFile, FromEnv, NoController}
    BY <1>7 DEF WorkerStarts, ManagerStarts
  <2>4. /\ cfFile.mode \in {"dry_run", "production"} /\ cfFile.limits \in {"sane", "nan"}
        /\ cfFile.token \in Tokens \cup {NoToken}
    BY DEF Files
  <2>5. /\ cfController'.mode \in {"none", "dry_run", "production"}
        /\ cfController'.limits \in {"sane", "nan"}
        /\ cfController'.token \in Tokens \cup {NoToken} /\ cfController'.host \in Hosts \cup {"none"}
    <3>1. CASE cfController' = FromFile
      BY <2>4, <3>1, ControllersHaveType DEF FromFile
    <3>2. CASE cfController' = FromEnv
      BY <3>2, ControllersHaveType DEF FromEnv
    <3>3. CASE cfController' = NoController
      BY <3>3 DEF NoController
    <3>4. QED
      BY <2>3, <3>1, <3>2, <3>3
  <2>6. QED
    BY <2>1, <2>2, <2>5 DEF cfSurroundings
<1>8. CASE UNCHANGED cfVars
  BY <1>8 DEF cfVars, cfClient, cfSurroundings
<1>9. QED
  BY <1>1, <1>2, <1>3, <1>4, <1>5, <1>6, <1>7, <1>8 DEF CfNext

\* A controller that may write to the PCS has been unlocked on its host, no controller enforces
\* limits that are none, and rewriting a file changes nothing but the rotation of the log; for
\* any tokens, hosts and number of changes.
THEOREM ConfigurationIsSafe == CfBehaviour => [](CfTypeOK /\ ConfigurationSafe)
<1>1. CfInit => CfTypeOK
  <2> SUFFICES ASSUME CfInit PROVE CfTypeOK
    OBVIOUS
  <2>1. cfHost \in Hosts
    BY ConfigurationAssumption DEF CfInit
  <2>2. cfEnv \in [mode : {"dry_run", "production"}, token : Tokens \cup {NoToken}]
    BY DEF CfInit
  <2>3. cfChanges \in 0..CfChanges
    BY ConfigurationAssumption DEF CfInit
  <2>4. /\ cfFile \in Files /\ cfLock \in Locks /\ cfCli \subseteq Tokens
        /\ cfRunning \in {"none", "file", "defaults", "legacyFile"}
        /\ cfConfirmed \subseteq Tokens \X Hosts
    BY DEF CfInit, Locks
  <2>5. cfUnlocked \in BOOLEAN
    BY Zenon DEF CfInit
  <2>6. QED
    BY <2>1, <2>2, <2>3, <2>4, <2>5 DEF CfInit, CfTypeOK, NoController
<1>2. CfInv => ConfigurationSafe
  BY DEF CfInv, ConfigurationSafe, RewritingKeeps, Readable, Rewritten, Meant
<1>3. QED
  BY <1>1, <1>2, CfInitially, CfPreserved, CfTypesKept, PTL DEF CfBehaviour

-----------------------------------------------------------------------------
(***************************************************************************)
(* The recorders.                                                          *)
(***************************************************************************)
HiBehaviour == HiInit /\ [][HiNext]_hiVars

\* The identifiers under which a record is found.
HiFound(byId) == {i \in HiIds : byId[i] # {}}

\* Every record shown was made and has an identifier and a status.
HiRecorded ==
    hiPart = "controls" =>
        /\ Len(hiId) = hiMade /\ Len(hiStatus) = hiMade
        /\ \A i \in 1..Len(hiShown) : hiShown[i] \in 1..hiMade
        /\ \A id \in HiIds : \A n \in hiById[id] : n \in 1..hiMade
        /\ IsFiniteSet(HiFound(hiById))

HiSteps == {"idle", "write", "read", "append", "latest", "count"}

\* Where the threads may be, and what they hold.
HiThreadsAt ==
    /\ hiAt \in [HiWorkers -> [step : HiSteps, n : 0..HiRecords]]
    /\ hiPart = "requests" =>
           /\ hiAt["web"].step = "idle"
           /\ hiCounter <= hiMade
           /\ \A t \in HiWorkers : hiAt[t].step = "write" => hiAt[t].n < hiMade

\* One call at a time.
HiOneAtATime ==
    hiOrderly => \A t, u \in HiWorkers : t = u \/ hiAt[t].step = "idle" \/ hiAt[u].step = "idle"

\* A request that is being logged has the highest number, and no other has it.
HiRequestsOrderly ==
    hiOrderly /\ hiPart = "requests" =>
        /\ \A i, j \in 1..Len(hiShown) : hiShown[i] = hiShown[j] => i = j
        /\ \A i \in 1..Len(hiShown) : hiShown[i] <= hiCounter
        /\ \A t \in HiWorkers :
               /\ hiAt[t].step \in {"write", "append"} => hiAt[t].n = hiCounter
               /\ hiAt[t].step \in {"read", "append"} =>
                      \A i \in 1..Len(hiShown) : hiShown[i] < hiCounter

HiAgree == hiLatest = IF hiShown = << >> THEN 0 ELSE hiShown[Len(hiShown)]

\* An upload or a clear that is under way knows what it has done so far.
HiUploadsOrderly ==
    hiOrderly =>
        /\ ~hiErrors
        /\ hiPart = "uploads" =>
               /\ \A t \in HiThreads :
                      /\ hiAt[t].step = "append" => hiKnown
                      /\ hiAt[t].step = "latest" =>
                             hiShown # << >> /\ hiAt[t].n = hiShown[Len(hiShown)]
               /\ hiAt["web"].step \in {"latest", "count"} => hiShown = << >>
               /\ (\A t \in HiWorkers : hiAt[t].step # "latest") => HiAgree

HiInv == HiTypeOK /\ HiRecorded /\ HiThreadsAt /\ HiOneAtATime /\ HiRequestsOrderly
         /\ HiUploadsOrderly /\ UpdatesReachNewest /\ ShownIsTracked

-----------------------------------------------------------------------------

\* A deque of bounded length drops its first element or none.
LEMMA HiPushed ==
    ASSUME NEW shown \in Seq(0..HiRecords), Len(shown) <= HiMax, NEW n \in 0..HiRecords
    PROVE  /\ Pushed(shown, n) \in Seq(0..HiRecords)
           /\ Len(Pushed(shown, n)) \in Nat /\ Len(Pushed(shown, n)) > 0
           /\ Len(Pushed(shown, n)) <= HiMax
           /\ Pushed(shown, n)[Len(Pushed(shown, n))] = n
           /\ \E d \in {0, 1} :
                  /\ Len(Pushed(shown, n)) + d = Len(shown) + 1
                  /\ \A i \in 1..Len(Pushed(shown, n)) :
                        i # Len(Pushed(shown, n)) =>
                            i + d \in 1..Len(shown) /\ Pushed(shown, n)[i] = shown[i + d]
<1> DEFINE all == Append(shown, n)
           last == Len(shown) + 1
<1>1. /\ all \in Seq(0..HiRecords) /\ all # << >> /\ Len(all) = last
      /\ \A i \in 1..Len(shown) : all[i] = shown[i]
      /\ all[last] = n
  BY AppendProperties
<1>2. Len(shown) \in Nat /\ HiMax \in Nat \ {0}
  BY RecordersAssumption, LenProperties
<1>3. /\ Tail(all) \in Seq(0..HiRecords) /\ Len(Tail(all)) = Len(all) - 1
      /\ \A i \in 1..Len(Tail(all)) : Tail(all)[i] = all[i + 1]
  BY <1>1, HeadTailProperties
<1>4. Pushed(shown, n) = IF Len(all) > HiMax THEN Tail(all) ELSE all
  BY DEF Pushed
<1> HIDE DEF all
<1>5. CASE Len(all) > HiMax
  <2>1. Pushed(shown, n) = Tail(all) /\ Len(Tail(all)) = Len(shown) /\ Len(shown) > 0
    BY <1>1, <1>2, <1>3, <1>4, <1>5
  <2>2. \A i \in 1..Len(shown) : i # Len(shown) =>
            i + 1 \in 1..Len(shown) /\ Tail(all)[i] = shown[i + 1]
    BY <1>1, <1>2, <1>3, <2>1
  <2>3. Tail(all)[Len(shown)] = n
    BY <1>1, <1>2, <1>3, <2>1
  <2>4. QED
    BY <1>2, <1>3, <2>1, <2>2, <2>3
<1>6. CASE ~(Len(all) > HiMax)
  <2>1. Pushed(shown, n) = all /\ Len(all) = Len(shown) + 1 /\ Len(all) <= HiMax
    BY <1>1, <1>2, <1>4, <1>6
  <2>2. \A i \in 1..Len(all) : i # Len(all) => i + 0 \in 1..Len(shown) /\ all[i] = shown[i + 0]
    BY <1>1, <1>2, <2>1
  <2>3. QED
    BY <1>1, <1>2, <2>1, <2>2
<1>7. QED
  BY <1>5, <1>6

\* Nothing is recorded or shown at first.
LEMMA HiInitially == HiInit => HiInv
<1> SUFFICES ASSUME HiInit PROVE HiInv
  OBVIOUS
<1>1. /\ hiShown = << >> /\ hiId = << >> /\ hiStatus = << >> /\ hiMade = 0 /\ hiCounter = 0
      /\ hiLatest = 0 /\ hiKnown = FALSE /\ hiErrors = FALSE /\ hiTracked = {}
      /\ hiPart \in {"controls", "resources", "requests", "uploads"}
      /\ hiById = [i \in HiIds |-> {}] /\ hiResource = [i \in HiIds |-> "none"]
      /\ hiAt = [t \in HiWorkers |-> [step |-> "idle", n |-> 0]]
  BY DEF HiInit, HiAt
<1>2. /\ Len(hiShown) = 0 /\ hiShown \in Seq(0..HiRecords) /\ hiId \in Seq(HiIds)
      /\ hiStatus \in Seq(Statuses) /\ Len(hiId) = 0 /\ Len(hiStatus) = 0
  BY <1>1, EmptySeq
<1>3. HiMax \in Nat \ {0} /\ HiRecords \in Nat
  BY RecordersAssumption
<1>4. \A t \in HiWorkers : hiAt[t].step = "idle" /\ hiAt[t].n = 0
  BY <1>1
<1>5. "web" \in HiWorkers /\ HiThreads \subseteq HiWorkers
  BY DEF HiWorkers
<1>6. HiTypeOK
  <2>1. hiOrderly \in BOOLEAN
    BY DEF HiInit
  <2>2. hiById \in [HiIds -> {{}} \cup {{n} : n \in Numbered}]
    BY <1>1
  <2>3. hiResource \in [HiIds -> {"none", "active", "removed"}]
    BY <1>1
  <2>4. /\ hiMade \in 0..HiRecords /\ hiCounter \in 0..HiRecords /\ hiLatest \in 0..HiRecords
        /\ Len(hiShown) <= HiMax
    BY <1>1, <1>2, <1>3
  <2>5. hiTracked \subseteq HiIds /\ hiKnown \in BOOLEAN /\ hiErrors \in BOOLEAN
        /\ DOMAIN hiAt = HiWorkers
    BY <1>1
  <2>6. QED
    BY <1>1, <1>2, <2>1, <2>2, <2>3, <2>4, <2>5 DEF HiTypeOK
<1>7. HiFound(hiById) = {}
  BY <1>1 DEF HiFound
<1>8. HiRecorded
  <2>1. IsFiniteSet(HiFound(hiById))
    BY <1>7, FS_EmptySet
  <2>2. \A id \in HiIds : hiById[id] = {}
    BY <1>1
  <2>3. 1..Len(hiShown) = {}
    BY <1>2
  <2>4. QED
    BY <1>1, <1>2, <2>1, <2>2, <2>3 DEF HiRecorded
<1>9. HiThreadsAt
  <2>1. hiAt \in [HiWorkers -> [step : HiSteps, n : 0..HiRecords]]
    BY <1>1, <1>3 DEF HiSteps
  <2>2. QED
    BY <1>1, <1>4, <1>5, <2>1 DEF HiThreadsAt
<1>10. HiOneAtATime
  BY <1>4 DEF HiOneAtATime
<1>11. HiRequestsOrderly
  BY <1>2, <1>4 DEF HiRequestsOrderly
<1>12. HiUploadsOrderly
  BY <1>1, <1>4, <1>5 DEF HiUploadsOrderly, HiAgree
<1>13. UpdatesReachNewest
  <2>1. DOMAIN hiShown = {}
    BY <1>1
  <2>2. Cardinality({i \in HiIds : hiById[i] # {}}) <= 2 * HiMax
    BY <1>3, <1>7, FS_EmptySet DEF HiFound
  <2>3. QED
    BY <2>1, <2>2 DEF UpdatesReachNewest
<1>14. ShownIsTracked
  BY <1>1 DEF ShownIsTracked
<1>15. QED
  BY <1>6, <1>8, <1>9, <1>10, <1>11, <1>12, <1>13, <1>14 DEF HiInv

-----------------------------------------------------------------------------
(* The steps.                                                              *)

\* What the parts of the invariant say of a state in which only the part that a step is of
\* has moved.
LEMMA HiOtherParts ==
    ASSUME HiInv, UNCHANGED <<hiPart, hiAt, hiOrderly, hiCounter, hiLatest, hiKnown, hiErrors>>,
           hiPart \notin {"requests", "uploads"}
    PROVE  HiThreadsAt' /\ HiOneAtATime' /\ HiRequestsOrderly' /\ HiUploadsOrderly'
<1>1. HiThreadsAt /\ HiOneAtATime /\ HiUploadsOrderly
  BY DEF HiInv
<1>2. HiThreadsAt'
  BY <1>1 DEF HiThreadsAt
<1>3. HiOneAtATime'
  BY <1>1 DEF HiOneAtATime
<1>4. HiRequestsOrderly'
  BY DEF HiRequestsOrderly
<1>5. HiUploadsOrderly'
  BY <1>1 DEF HiUploadsOrderly
<1>6. QED
  BY <1>2, <1>3, <1>4, <1>5

\* A control that is received is the newest record of its mRID.
LEMMA HiReceived ==
    ASSUME HiInv, ControlReceived
    PROVE  HiInv'
<1> DEFINE m == hiMade + 1
           shown == Pushed(hiShown, m)
           last == Len(shown)
<1>1. /\ hiPart = "controls" /\ hiMade < HiRecords /\ hiMade' = m /\ hiShown' = shown
      /\ hiStatus' = Append(hiStatus, "open")
      /\ UNCHANGED <<hiPart, hiResource, hiTracked, hiCounter, hiLatest, hiKnown, hiErrors, hiAt,
                     hiOrderly>>
  BY DEF ControlReceived, hiResources, hiBuffers
<1>2. PICK id \in HiIds : /\ hiId' = Append(hiId, id)
                          /\ hiById' = Cleaned([hiById EXCEPT ![id] = {m}])
  BY DEF ControlReceived
<1>3. HiTypeOK /\ HiRecorded /\ UpdatesReachNewest /\ ShownIsTracked
  BY DEF HiInv
<1>4. hiMade \in Nat /\ HiRecords \in Nat /\ HiMax \in Nat \ {0} /\ m \in 0..HiRecords /\ m \in Numbered
  BY <1>1, <1>3, RecordersAssumption DEF HiTypeOK, Numbered
<1>5. /\ shown \in Seq(0..HiRecords) /\ last \in Nat /\ last > 0 /\ last <= HiMax
      /\ shown[last] = m
      /\ \E d \in {0, 1} :
             /\ last + d = Len(hiShown) + 1
             /\ \A i \in 1..last :
                    i # last => i + d \in 1..Len(hiShown) /\ shown[i] = hiShown[i + d]
  BY <1>3, <1>4, HiPushed DEF HiTypeOK
<1> HIDE DEF shown, last
<1>6. /\ hiId' \in Seq(HiIds) /\ Len(hiId') = m /\ hiId'[m] = id
      /\ \A n \in 1..hiMade : hiId'[n] = hiId[n]
      /\ hiStatus' \in Seq(Statuses) /\ Len(hiStatus') = m
  <2>1. hiId \in Seq(HiIds) /\ Len(hiId) = hiMade /\ hiStatus \in Seq(Statuses) /\ Len(hiStatus) = hiMade
        /\ "open" \in Statuses
    BY <1>1, <1>3 DEF HiTypeOK, HiRecorded, Statuses
  <2>2. QED
    BY <1>1, <1>2, <2>1, AppendProperties
<1>7. PICK d \in {0, 1} :
         /\ last + d = Len(hiShown) + 1
         /\ \A i \in 1..last :
                i # last => i + d \in 1..Len(hiShown) /\ shown[i] = hiShown[i + d]
  BY <1>5
<1>8. \A i \in 1..last : shown[i] \in 1..m
  <2>1. ASSUME NEW i \in 1..last, i # last PROVE shown[i] \in 1..hiMade
    BY <1>1, <1>3, <1>7, <2>1 DEF HiRecorded
  <2>2. QED
    BY <1>4, <1>5, <2>1
\* The identifiers of the records that are shown, and the index before and after the cleanup.
<1> DEFINE kept == {hiId'[shown[i]] : i \in 1..last}
           added == [hiById EXCEPT ![id] = {m}]
<1>9. DOMAIN shown = 1..last
  BY <1>5 DEF last
<1>10. hiById' = IF Cardinality(HiFound(added)) > 2 * HiMax
                 THEN [i \in HiIds |-> IF i \in kept THEN added[i] ELSE {}]
                 ELSE added
  BY <1>1, <1>2, <1>9 DEF Cleaned, HiFound
<1>11. /\ hiById \in [HiIds -> {{}} \cup {{n} : n \in Numbered}]
       /\ added \in [HiIds -> {{}} \cup {{n} : n \in Numbered}]
       /\ added[id] = {m} /\ \A i \in HiIds : i # id => added[i] = hiById[i]
  BY <1>3, <1>4 DEF HiTypeOK
<1>12. IsFiniteSet(kept) /\ Cardinality(kept) <= HiMax /\ Cardinality(kept) \in Nat
  <2> DEFINE f == [i \in 1..last |-> hiId'[shown[i]]]
  <2>1. f \in Surjection(1..last, kept)
    BY DEF Surjection, Injection
  <2>2. IsFiniteSet(1..last) /\ Cardinality(1..last) = last
    BY <1>5, FS_Interval
  <2> HIDE DEF f, kept
  <2>3. IsFiniteSet(kept) /\ Cardinality(kept) <= last
    BY <2>1, <2>2, FS_Surjection
  <2>4. QED
    BY <1>4, <1>5, <2>3, FS_CardinalityType
<1>13. IsFiniteSet(HiFound(added))
  <2>1. IsFiniteSet(HiFound(hiById))
    BY <1>1, <1>3 DEF HiRecorded
  <2>2. HiFound(added) \subseteq HiFound(hiById) \cup {id}
    BY <1>11 DEF HiFound
  <2>3. IsFiniteSet(HiFound(hiById) \cup {id})
    BY <2>1, FS_AddElement
  <2>4. QED
    BY <2>2, <2>3, FS_Subset
<1> HIDE DEF added
<1>14. /\ hiById' \in [HiIds -> {{}} \cup {{n} : n \in Numbered}]
       /\ \A i \in HiIds : hiById'[i] = {} \/ hiById'[i] = added[i]
       /\ \A i \in HiIds : i \in kept => hiById'[i] = added[i]
  <2> HIDE DEF kept
  <2>1. QED
    BY <1>10, <1>11
<1>15. IsFiniteSet(HiFound(hiById')) /\ Cardinality(HiFound(hiById')) <= 2 * HiMax
  <2>1. CASE Cardinality(HiFound(added)) > 2 * HiMax
    <3>1. HiFound(hiById') \subseteq kept
      BY <1>10, <2>1 DEF HiFound
    <3>2. IsFiniteSet(HiFound(hiById')) /\ Cardinality(HiFound(hiById')) <= Cardinality(kept)
      BY <1>12, <3>1, FS_Subset
    <3>3. Cardinality(HiFound(hiById')) \in Nat
      BY <3>2, FS_CardinalityType
    <3>4. QED
      BY <1>4, <1>12, <3>2, <3>3
  <2>2. CASE ~(Cardinality(HiFound(added)) > 2 * HiMax)
    <3>1. hiById' = added
      BY <1>10, <2>2
    <3>2. Cardinality(HiFound(added)) \in Nat
      BY <1>13, FS_CardinalityType
    <3>3. QED
      BY <1>4, <1>13, <2>2, <3>1, <3>2
  <2>3. QED
    BY <2>1, <2>2
<1>16. HiTypeOK'
  <2>1. hiTracked \subseteq HiIds /\ DOMAIN hiAt = HiWorkers
    BY <1>3 DEF HiTypeOK
  <2>2. /\ hiShown' \in Seq(0..HiRecords) /\ Len(hiShown') <= HiMax
    BY <1>1, <1>5 DEF last
  <2>3. QED
    BY <1>1, <1>3, <1>4, <1>6, <1>14, <2>2 DEF HiTypeOK
<1>17. HiRecorded'
  <2>1. \A i \in HiIds : \A n \in hiById'[i] : n \in 1..m
    <3>1. ASSUME NEW i \in HiIds, NEW n \in added[i] PROVE n \in 1..m
      <4>1. CASE i = id
        BY <1>4, <1>11, <4>1, <3>1
      <4>2. CASE i # id
        BY <1>1, <1>3, <1>4, <1>11, <4>2, <3>1 DEF HiRecorded
      <4>3. QED
        BY <4>1, <4>2
    <3>2. QED
      BY <1>14, <3>1
  <2>2. \A i \in 1..Len(hiShown') : hiShown'[i] \in 1..hiMade'
    BY <1>1, <1>8 DEF last
  <2>3. QED
    BY <1>1, <1>6, <1>15, <2>1, <2>2 DEF HiRecorded
<1>18. UpdatesReachNewest'
  <2>1. ASSUME NEW i \in 1..last, \A j \in 1..last : j > i => hiId'[shown[j]] # hiId'[shown[i]]
        PROVE  hiById'[hiId'[shown[i]]] = {shown[i]}
    <3>1. CASE i = last
      <4>1. hiId'[shown[i]] = id /\ id \in kept
        BY <1>5, <1>6, <3>1
      <4>2. QED
        BY <1>5, <1>11, <1>14, <3>1, <4>1
    <3>2. CASE i # last
      <4> DEFINE k == i + d
      <4>1. /\ k \in 1..Len(hiShown) /\ shown[i] = hiShown[k] /\ shown[i] \in 1..hiMade
        BY <1>1, <1>3, <1>7, <3>2 DEF HiRecorded
      <4>2. hiId'[shown[i]] = hiId[hiShown[k]]
        BY <1>6, <4>1
      <4>3. hiId'[shown[i]] # id
        <5>1. last \in 1..last /\ last > i
          BY <1>5, <3>2
        <5>2. QED
          BY <1>5, <1>6, <2>1, <5>1
      <4>4. hiId[hiShown[k]] \in HiIds
        <5>1. hiId \in Seq(HiIds) /\ Len(hiId) = hiMade
          BY <1>1, <1>3 DEF HiTypeOK, HiRecorded
        <5>2. QED
          BY <4>1, <5>1
      <4>5. ASSUME NEW j \in 1..Len(hiShown), j > k
            PROVE  hiId[hiShown[j]] # hiId[hiShown[k]]
        <5>1. hiShown \in Seq(0..HiRecords) /\ Len(hiShown) \in Nat /\ Len(hiShown) <= HiMax
          BY <1>3 DEF HiTypeOK
        <5>2. j - d \in 1..last /\ j - d # last /\ (j - d) + d = j /\ j - d > i
          BY <1>5, <1>7, <4>5, <5>1
        <5>3. shown[j - d] = hiShown[j]
          BY <1>7, <5>2
        <5>4. hiId'[shown[j - d]] # hiId'[shown[i]]
          BY <2>1, <5>2
        <5>5. hiShown[j] \in 1..hiMade
          BY <1>1, <1>3 DEF HiRecorded
        <5>6. QED
          BY <1>6, <4>2, <5>3, <5>4, <5>5
      <4>6. hiById[hiId[hiShown[k]]] = {hiShown[k]}
        <5>1. DOMAIN hiShown = 1..Len(hiShown)
          BY <1>3 DEF HiTypeOK
        <5>2. QED
          BY <1>1, <1>3, <4>1, <4>5, <5>1 DEF UpdatesReachNewest
      <4>7. hiId'[shown[i]] \in kept
        OBVIOUS
      <4>8. QED
        BY <1>11, <1>14, <4>1, <4>2, <4>3, <4>4, <4>6, <4>7
    <3>3. QED
      BY <3>1, <3>2
  <2>2. Cardinality({i \in HiIds : hiById'[i] # {}}) <= 2 * HiMax
    BY <1>15 DEF HiFound
  <2>3. QED
    BY <1>1, <1>9, <2>1, <2>2 DEF UpdatesReachNewest
<1>19. ShownIsTracked'
  BY <1>1, <1>3 DEF ShownIsTracked
<1>20. HiThreadsAt' /\ HiOneAtATime' /\ HiRequestsOrderly' /\ HiUploadsOrderly'
  BY <1>1, HiOtherParts
<1>21. QED
  BY <1>16, <1>17, <1>18, <1>19, <1>20 DEF HiInv

\* The records that are shown are numbers.
LEMMA HiShownNumbers ==
    ASSUME HiTypeOK
    PROVE  \A i \in 1..Len(hiShown) : hiShown[i] \in 0..HiRecords
<1>1. hiShown \in Seq(0..HiRecords)
  BY DEF HiTypeOK
<1>2. QED
  BY <1>1, ElementOfSeq

\* A thread goes on to a step, and the others stay.
HiGone(t, step, n) ==
    /\ hiAt' \in [HiWorkers -> [step : HiSteps, n : 0..HiRecords]]
    /\ hiAt'[t].step = step /\ hiAt'[t].n = n
    /\ \A u \in HiWorkers : u # t => hiAt'[u] = hiAt[u]

\* A worker that goes on leaves the others where they are.
LEMMA HiGoes ==
    ASSUME HiThreadsAt, NEW t \in HiWorkers, NEW step \in HiSteps, NEW n \in 0..HiRecords,
           HiGo(t, step, n)
    PROVE  HiGone(t, step, n)
BY DEF HiThreadsAt, HiGo, HiGone, HiAt

\* One call at a time stays one: the thread that moves is the only one that is not idle.
LEMMA HiStaysAlone ==
    ASSUME HiOneAtATime, NEW t \in HiWorkers, HiMayRun(t), NEW step, NEW n, HiGone(t, step, n),
           UNCHANGED hiOrderly
    PROVE  /\ HiOneAtATime'
           /\ hiOrderly => \A u \in HiWorkers : u # t => /\ hiAt[u].step = "idle"
                                                       /\ hiAt'[u].step = "idle"
<1>1. hiOrderly => \A u \in HiWorkers : u # t => /\ hiAt[u].step = "idle"
                                                  /\ hiAt'[u].step = "idle"
  BY DEF HiMayRun, HiGone
<1>2. QED
  BY <1>1 DEF HiOneAtATime

\* The assignments that are shown are those that are tracked.
LEMMA HiAssignments ==
    ASSUME HiInv, ResourceRecorded \/ ResourceRemoved
    PROVE  HiInv'
<1>1. HiTypeOK /\ ShownIsTracked
  BY DEF HiInv
<1>2. PICK id \in HiIds :
        /\ \/ /\ hiResource' = [hiResource EXCEPT ![id] = IF @ = "none" THEN "active" ELSE @]
              /\ hiTracked' = hiTracked \cup {id}
           \/ /\ hiResource' = [hiResource EXCEPT ![id] = IF @ = "none" THEN "none" ELSE "removed"]
              /\ hiTracked' = hiTracked \ {id}
  BY DEF ResourceRecorded, ResourceRemoved
<1>3. /\ hiPart = "resources"
      /\ UNCHANGED <<hiPart, hiMade, hiShown, hiId, hiStatus, hiById, hiCounter, hiLatest, hiKnown,
                     hiErrors, hiAt, hiOrderly>>
  BY DEF ResourceRecorded, ResourceRemoved, hiControls, hiBuffers
<1>4. hiResource \in [HiIds -> {"none", "active", "removed"}] /\ hiTracked \subseteq HiIds
  BY <1>1 DEF HiTypeOK
<1>5. /\ hiResource' \in [HiIds -> {"none", "active", "removed"}] /\ hiTracked' \subseteq HiIds
      /\ ShownIsTracked'
  <2>1. CASE /\ hiResource' = [hiResource EXCEPT ![id] = IF @ = "none" THEN "active" ELSE @]
             /\ hiTracked' = hiTracked \cup {id}
    BY <1>1, <1>4, <2>1 DEF ShownIsTracked
  <2>2. CASE /\ hiResource' = [hiResource EXCEPT ![id] = IF @ = "none" THEN "none" ELSE "removed"]
             /\ hiTracked' = hiTracked \ {id}
    BY <1>1, <1>4, <2>2 DEF ShownIsTracked
  <2>3. QED
    BY <1>2, <2>1, <2>2
<1>6. HiTypeOK'
  BY <1>1, <1>3, <1>5 DEF HiTypeOK
<1>7. HiThreadsAt' /\ HiOneAtATime' /\ HiRequestsOrderly' /\ HiUploadsOrderly'
  BY <1>3, HiOtherParts
<1>8. HiRecorded' /\ UpdatesReachNewest'
  BY <1>3 DEF HiRecorded, UpdatesReachNewest
<1>9. QED
  BY <1>5, <1>6, <1>7, <1>8 DEF HiInv

\* A change of status reaches the newest record.
LEMMA HiStatusUpdated ==
    ASSUME HiInv, StatusUpdated
    PROVE  HiInv'
<1>1. HiTypeOK /\ HiRecorded /\ ShownIsTracked /\ UpdatesReachNewest
  BY DEF HiInv
<1>2. PICK id \in HiIds, status \in Statuses : \E n \in hiById[id] :
           hiStatus' = [hiStatus EXCEPT ![n] = status]
  BY DEF StatusUpdated
<1>3. PICK n \in hiById[id] : hiStatus' = [hiStatus EXCEPT ![n] = status]
  BY <1>2
<1>4. /\ hiPart = "controls"
      /\ UNCHANGED <<hiPart, hiMade, hiShown, hiId, hiById, hiResource, hiTracked, hiCounter, hiLatest,
                     hiKnown, hiErrors, hiAt, hiOrderly>>
  BY DEF StatusUpdated, hiResources, hiBuffers
<1>5. hiStatus' \in Seq(Statuses) /\ Len(hiStatus') = Len(hiStatus)
  <2>1. hiStatus \in Seq(Statuses) /\ n \in 1..Len(hiStatus)
    BY <1>1, <1>4 DEF HiTypeOK, HiRecorded
  <2>2. QED
    BY <1>3, <2>1, ExceptSeq
<1>6. HiTypeOK'
  BY <1>1, <1>4, <1>5 DEF HiTypeOK
<1>7. HiThreadsAt' /\ HiOneAtATime' /\ HiRequestsOrderly' /\ HiUploadsOrderly'
  BY <1>4, HiOtherParts
<1>8. HiRecorded'
  BY <1>1, <1>4, <1>5 DEF HiRecorded
<1>9. UpdatesReachNewest' /\ ShownIsTracked'
  BY <1>1, <1>4 DEF UpdatesReachNewest, ShownIsTracked
<1>10. QED
  BY <1>6, <1>7, <1>8, <1>9 DEF HiInv

\* Clearing the history forgets all of it at once.
LEMMA HiCleared ==
    ASSUME HiInv, HistoryCleared
    PROVE  HiInv'
<1>1. HiTypeOK /\ HiRecorded /\ HiThreadsAt /\ HiOneAtATime /\ HiRequestsOrderly /\ HiUploadsOrderly
  BY DEF HiInv
<1>2. /\ hiPart # "uploads" /\ HiMayRun("web") /\ hiShown' = << >> /\ hiCounter' = 0
      /\ hiById' = [i \in HiIds |-> {}] /\ hiResource' = [i \in HiIds |-> "none"]
      /\ hiTracked' = {}
      /\ UNCHANGED <<hiPart, hiMade, hiId, hiStatus, hiLatest, hiKnown, hiErrors, hiAt, hiOrderly>>
  BY DEF HistoryCleared
<1>3. Len(hiShown') = 0 /\ hiShown' \in Seq(0..HiRecords) /\ 1..Len(hiShown') = {}
  BY <1>2, EmptySeq
<1>4. HiRecords \in Nat /\ HiMax \in Nat \ {0} /\ hiMade \in Nat
  BY <1>1, RecordersAssumption DEF HiTypeOK
<1>5. \A i \in HiIds : hiById'[i] = {} /\ hiResource'[i] = "none"
  BY <1>2
<1>6. HiTypeOK'
  <2>1. hiById' \in [HiIds -> {{}} \cup {{n} : n \in Numbered}]
    BY <1>2
  <2>2. hiResource' \in [HiIds -> {"none", "active", "removed"}]
    BY <1>2
  <2>3. hiCounter' \in 0..HiRecords /\ Len(hiShown') <= HiMax /\ hiTracked' \subseteq HiIds
    BY <1>2, <1>3, <1>4
  <2>4. QED
    BY <1>1, <1>2, <1>3, <2>1, <2>2, <2>3 DEF HiTypeOK
<1>7. HiFound(hiById') = {}
  BY <1>5 DEF HiFound
<1>8. HiRecorded'
  BY <1>1, <1>2, <1>3, <1>5, <1>7, FS_EmptySet DEF HiRecorded
<1>9. UpdatesReachNewest'
  <2>1. DOMAIN hiShown' = {}
    BY <1>2
  <2>2. Cardinality({i \in HiIds : hiById'[i] # {}}) <= 2 * HiMax
    BY <1>4, <1>7, FS_EmptySet DEF HiFound
  <2>3. QED
    BY <2>1, <2>2 DEF UpdatesReachNewest
<1>10. ShownIsTracked'
  BY <1>5 DEF ShownIsTracked
<1>11. HiThreadsAt'
  BY <1>1, <1>2, <1>4 DEF HiThreadsAt
<1>12. HiOneAtATime' /\ HiUploadsOrderly'
  BY <1>1, <1>2 DEF HiOneAtATime, HiUploadsOrderly
<1>13. HiRequestsOrderly'
  <2>1. hiOrderly /\ hiPart = "requests" => \A t \in HiWorkers : hiAt[t].step = "idle"
    BY <1>1, <1>2 DEF HiMayRun, HiThreadsAt, HiWorkers
  <2>2. QED
    BY <1>2, <1>3, <2>1 DEF HiRequestsOrderly
<1>14. QED
  BY <1>6, <1>8, <1>9, <1>10, <1>11, <1>12, <1>13 DEF HiInv

\* A request or an upload leaves the controls and the resources alone.
LEMMA HiOtherRecords ==
    ASSUME HiInv, hiPart \in {"requests", "uploads"},
           UNCHANGED <<hiPart, hiById, hiResource, hiTracked>>
    PROVE  HiRecorded' /\ UpdatesReachNewest' /\ ShownIsTracked'
<1>1. ShownIsTracked
  BY DEF HiInv
<1>2. QED
  BY <1>1 DEF HiRecorded, UpdatesReachNewest, ShownIsTracked

\* An upload that is counted keeps what the pages show.
LEMMA HiCounted ==
    ASSUME HiInv, NEW t \in HiThreads, RequestCounted(t)
    PROVE  HiInv'
<1>1. HiTypeOK /\ HiThreadsAt /\ HiOneAtATime /\ HiRequestsOrderly /\ HiUploadsOrderly
  BY DEF HiInv
<1>2. /\ hiPart = "requests" /\ HiMayRun(t)
      /\ UNCHANGED <<hiPart, hiShown, hiId, hiStatus, hiById, hiResource, hiTracked, hiLatest, hiKnown,
                     hiErrors, hiOrderly>>
  BY DEF RequestCounted, HiAtStep, hiControls, hiResources
<1>3. /\ t \in HiWorkers /\ "web" \in HiWorkers /\ t # "web" /\ HiRecords \in Nat
      /\ hiMade \in 0..HiRecords /\ hiCounter \in 0..HiRecords /\ hiAt[t].n \in 0..HiRecords
  BY <1>1, RecordersAssumption DEF HiWorkers, HiTypeOK, HiThreadsAt
<1>4. \/ /\ hiAt[t].step = "idle" /\ hiMade < HiRecords /\ hiMade' = hiMade + 1
         /\ HiGo(t, "write", hiCounter) /\ hiCounter' = hiCounter
      \/ /\ hiAt[t].step = "write" /\ hiCounter' = hiAt[t].n + 1
         /\ HiGo(t, "read", 0) /\ hiMade' = hiMade
      \/ /\ hiAt[t].step = "read" /\ HiGo(t, "append", hiCounter)
         /\ hiMade' = hiMade /\ hiCounter' = hiCounter
  BY DEF RequestCounted, HiAtStep
<1>5. \/ /\ hiAt[t].step = "idle" /\ hiMade < HiRecords /\ hiMade' = hiMade + 1
         /\ HiGone(t, "write", hiCounter) /\ hiCounter' = hiCounter
      \/ /\ hiAt[t].step = "write" /\ hiCounter' = hiAt[t].n + 1
         /\ HiGone(t, "read", 0) /\ hiMade' = hiMade
      \/ /\ hiAt[t].step = "read" /\ HiGone(t, "append", hiCounter)
         /\ hiMade' = hiMade /\ hiCounter' = hiCounter
  BY <1>1, <1>3, <1>4, HiGoes DEF HiSteps
<1>6. PICK step \in {"write", "read", "append"}, n \in 0..HiRecords : HiGone(t, step, n)
  BY <1>3, <1>5
<1>7. /\ HiOneAtATime'
      /\ hiOrderly => \A u \in HiWorkers : u # t => hiAt[u].step = "idle" /\ hiAt'[u].step = "idle"
  BY <1>1, <1>2, <1>3, <1>6, HiStaysAlone
<1>8. /\ hiCounter <= hiMade
      /\ \A u \in HiWorkers : hiAt[u].step = "write" => hiAt[u].n < hiMade
      /\ hiAt["web"].step = "idle"
  BY <1>1, <1>2 DEF HiThreadsAt
<1>9. /\ hiMade' \in 0..HiRecords /\ hiCounter' \in 0..HiRecords /\ hiCounter' <= hiMade'
      /\ hiMade' >= hiMade
  BY <1>3, <1>5, <1>8
<1>10. HiTypeOK'
  <2>1. DOMAIN hiAt' = HiWorkers
    BY <1>6 DEF HiGone
  <2>2. QED
    BY <1>1, <1>2, <1>9, <2>1 DEF HiTypeOK
<1>11. HiThreadsAt'
  <2>1. hiAt'["web"].step = "idle"
    BY <1>3, <1>6, <1>8 DEF HiGone
  <2>2. ASSUME NEW u \in HiWorkers, hiAt'[u].step = "write" PROVE hiAt'[u].n < hiMade'
    <3>1. CASE u = t
      BY <1>3, <1>5, <1>8, <2>2, <3>1 DEF HiGone
    <3>2. CASE u # t
      <4>1. hiAt[u].n < hiMade /\ hiAt'[u].n = hiAt[u].n /\ hiAt[u].n \in 0..HiRecords
        BY <1>1, <1>6, <1>8, <2>2, <3>2 DEF HiGone, HiThreadsAt
      <4>2. QED
        BY <1>3, <1>9, <4>1
    <3>3. QED
      BY <3>1, <3>2
  <2>3. QED
    BY <1>6, <1>9, <2>1, <2>2 DEF HiThreadsAt, HiGone
<1>12. HiRequestsOrderly'
  <2> SUFFICES ASSUME hiOrderly
               PROVE  HiRequestsOrderly'
    BY <1>2 DEF HiRequestsOrderly
  <2>1. /\ \A i, j \in 1..Len(hiShown) : hiShown[i] = hiShown[j] => i = j
        /\ \A i \in 1..Len(hiShown) : hiShown[i] <= hiCounter
        /\ hiAt[t].step \in {"write", "append"} => hiAt[t].n = hiCounter
        /\ hiAt[t].step \in {"read", "append"} =>
               \A i \in 1..Len(hiShown) : hiShown[i] < hiCounter
    BY <1>1, <1>2, <1>3 DEF HiRequestsOrderly
  <2>2. \A i \in 1..Len(hiShown) : hiShown[i] \in 0..HiRecords
    BY <1>1, HiShownNumbers
  <2>3. /\ \A i \in 1..Len(hiShown) : hiShown[i] <= hiCounter'
        /\ hiAt'[t].step \in {"write", "append"} => hiAt'[t].n = hiCounter'
        /\ hiAt'[t].step \in {"read", "append"} =>
               \A i \in 1..Len(hiShown) : hiShown[i] < hiCounter'
    BY <1>3, <1>5, <2>1, <2>2 DEF HiGone
  <2>4. \A u \in HiWorkers : u # t => hiAt'[u].step = "idle"
    BY <1>7
  <2>5. QED
    BY <1>2, <2>1, <2>3, <2>4 DEF HiRequestsOrderly
<1>13. HiUploadsOrderly'
  BY <1>1, <1>2 DEF HiUploadsOrderly
<1>14. HiRecorded' /\ UpdatesReachNewest' /\ ShownIsTracked'
  BY <1>2, HiOtherRecords
<1>15. QED
  BY <1>7, <1>10, <1>11, <1>12, <1>13, <1>14 DEF HiInv

\* An upload that is logged comes after those that are shown.
LEMMA HiLogged ==
    ASSUME HiInv, NEW t \in HiThreads, RequestLogged(t)
    PROVE  HiInv'
<1> DEFINE shown == Pushed(hiShown, hiAt[t].n)
           last == Len(shown)
<1>1. HiTypeOK /\ HiThreadsAt /\ HiOneAtATime /\ HiRequestsOrderly /\ HiUploadsOrderly
  BY DEF HiInv
<1>2. /\ hiPart = "requests" /\ HiMayRun(t) /\ hiAt[t].step = "append" /\ hiShown' = shown
      /\ HiGo(t, "idle", 0)
      /\ UNCHANGED <<hiPart, hiMade, hiId, hiStatus, hiById, hiResource, hiTracked, hiCounter, hiLatest,
                     hiKnown, hiErrors, hiOrderly>>
  BY DEF RequestLogged, HiAtStep, hiControls, hiResources, hiBuffers
<1>3. /\ t \in HiWorkers /\ "web" \in HiWorkers /\ t # "web" /\ HiRecords \in Nat
      /\ hiAt[t].n \in 0..HiRecords /\ hiCounter \in 0..HiRecords
  BY <1>1, RecordersAssumption DEF HiWorkers, HiTypeOK, HiThreadsAt
<1>4. HiGone(t, "idle", 0)
  BY <1>1, <1>2, <1>3, HiGoes DEF HiSteps
<1>5. /\ HiOneAtATime'
      /\ hiOrderly => \A u \in HiWorkers : u # t => hiAt[u].step = "idle" /\ hiAt'[u].step = "idle"
  BY <1>1, <1>2, <1>3, <1>4, HiStaysAlone
<1>6. /\ shown \in Seq(0..HiRecords) /\ last \in Nat /\ last > 0 /\ last <= HiMax
      /\ shown[last] = hiAt[t].n
      /\ \E d \in {0, 1} :
             /\ last + d = Len(hiShown) + 1
             /\ \A i \in 1..last :
                    i # last => i + d \in 1..Len(hiShown) /\ shown[i] = hiShown[i + d]
  BY <1>1, <1>3, HiPushed DEF HiTypeOK
<1> HIDE DEF shown, last
<1>7. PICK d \in {0, 1} :
         \A i \in 1..last :
             i # last => i + d \in 1..Len(hiShown) /\ shown[i] = hiShown[i + d]
  BY <1>6
<1>8. HiTypeOK'
  <2>1. DOMAIN hiAt' = HiWorkers
    BY <1>4 DEF HiGone
  <2>2. hiShown' \in Seq(0..HiRecords) /\ Len(hiShown') <= HiMax
    BY <1>2, <1>6 DEF last
  <2>3. QED
    BY <1>1, <1>2, <2>1, <2>2 DEF HiTypeOK
<1>9. HiThreadsAt'
  <2>1. /\ hiAt["web"].step = "idle" /\ hiCounter <= hiMade
        /\ \A u \in HiWorkers : hiAt[u].step = "write" => hiAt[u].n < hiMade
    BY <1>1, <1>2 DEF HiThreadsAt
  <2>2. hiAt'["web"].step = "idle"
    BY <1>3, <1>4, <2>1 DEF HiGone
  <2>3. \A u \in HiWorkers : hiAt'[u].step = "write" => hiAt'[u].n < hiMade
    BY <1>4, <2>1 DEF HiGone
  <2>4. QED
    BY <1>2, <1>4, <2>1, <2>2, <2>3 DEF HiThreadsAt, HiGone
<1>10. HiRequestsOrderly'
  <2> SUFFICES ASSUME hiOrderly
               PROVE  HiRequestsOrderly'
    BY <1>2 DEF HiRequestsOrderly
  <2>1. /\ \A i, j \in 1..Len(hiShown) : hiShown[i] = hiShown[j] => i = j
        /\ \A i \in 1..Len(hiShown) : hiShown[i] < hiCounter
        /\ \A i \in 1..Len(hiShown) : hiShown[i] \in 0..HiRecords
        /\ hiAt[t].n = hiCounter
    BY <1>1, <1>2, <1>3, HiShownNumbers DEF HiRequestsOrderly
  <2>2. \A i \in 1..last : i # last => shown[i] < hiCounter /\ shown[i] \in 0..HiRecords
    BY <1>7, <2>1
  <2>3. shown[last] = hiCounter
    BY <1>6, <2>1
  <2>4. ASSUME NEW i \in 1..last, NEW j \in 1..last, shown[i] = shown[j] PROVE i = j
    <3>1. CASE i # last /\ j # last
      <4>1. hiShown[i + d] = hiShown[j + d] /\ i + d \in 1..Len(hiShown) /\ j + d \in 1..Len(hiShown)
        BY <1>7, <2>4, <3>1
      <4>2. i + d = j + d
        BY <2>1, <4>1
      <4>3. QED
        BY <1>6, <4>2
    <3>2. CASE i = last \/ j = last
      BY <1>3, <2>2, <2>3, <2>4, <3>2
    <3>3. QED
      BY <3>1, <3>2
  <2>5. \A i \in 1..last : shown[i] <= hiCounter
    BY <1>3, <2>2, <2>3
  <2>6. \A u \in HiWorkers : hiAt'[u].step = "idle"
    BY <1>4, <1>5 DEF HiGone
  <2>7. QED
    BY <1>2, <2>4, <2>5, <2>6 DEF HiRequestsOrderly, last
<1>11. HiUploadsOrderly'
  BY <1>1, <1>2 DEF HiUploadsOrderly
<1>12. HiRecorded' /\ UpdatesReachNewest' /\ ShownIsTracked'
  BY <1>2, HiOtherRecords
<1>13. QED
  BY <1>5, <1>8, <1>9, <1>10, <1>11, <1>12 DEF HiInv

\* Of a rack that is not known the buffer is made once.
LEMMA HiRackKnown ==
    ASSUME HiInv, NEW t \in HiThreads, RackKnown(t)
    PROVE  HiInv'
<1>1. HiTypeOK /\ HiThreadsAt /\ HiOneAtATime /\ HiUploadsOrderly
  BY DEF HiInv
<1>2. /\ hiPart = "uploads" /\ HiMayRun(t) /\ hiAt[t].step = "idle" /\ hiMade < HiRecords
      /\ hiMade' = hiMade + 1 /\ hiKnown' = TRUE /\ HiGo(t, "append", hiMade + 1)
      /\ UNCHANGED <<hiPart, hiShown, hiId, hiStatus, hiById, hiResource, hiTracked, hiCounter, hiLatest,
                     hiErrors, hiOrderly>>
  BY DEF RackKnown, HiAtStep, hiControls, hiResources
<1>3. /\ t \in HiWorkers /\ "web" \in HiWorkers /\ t # "web" /\ HiRecords \in Nat
      /\ hiMade + 1 \in 0..HiRecords /\ HiThreads \subseteq HiWorkers
  BY <1>1, <1>2, RecordersAssumption DEF HiWorkers, HiTypeOK
<1>4. HiGone(t, "append", hiMade + 1)
  BY <1>1, <1>2, <1>3, HiGoes DEF HiSteps
<1>5. /\ HiOneAtATime'
      /\ hiOrderly => \A u \in HiWorkers : u # t => hiAt[u].step = "idle" /\ hiAt'[u].step = "idle"
  BY <1>1, <1>2, <1>3, <1>4, HiStaysAlone
<1>6. HiTypeOK'
  <2>1. DOMAIN hiAt' = HiWorkers
    BY <1>4 DEF HiGone
  <2>2. QED
    BY <1>1, <1>2, <1>3, <2>1 DEF HiTypeOK
<1>7. HiThreadsAt'
  BY <1>2, <1>4 DEF HiThreadsAt, HiGone
<1>8. HiUploadsOrderly'
  <2> SUFFICES ASSUME hiOrderly
               PROVE  HiUploadsOrderly'
    BY <1>2 DEF HiUploadsOrderly
  <2>1. \A u \in HiWorkers : hiAt[u].step # "latest"
    BY <1>2, <1>5
  <2>2. HiAgree /\ ~hiErrors
    BY <1>1, <1>2, <2>1 DEF HiUploadsOrderly
  <2>3. hiAt'[t].step = "append" /\ \A u \in HiWorkers : u # t => hiAt'[u].step = "idle"
    BY <1>4, <1>5 DEF HiGone
  <2>4. HiAgree'
    BY <1>2, <2>2 DEF HiAgree
  <2>5. QED
    BY <1>2, <1>3, <2>2, <2>3, <2>4 DEF HiUploadsOrderly
<1>9. HiRequestsOrderly'
  BY <1>2 DEF HiRequestsOrderly
<1>10. HiRecorded' /\ UpdatesReachNewest' /\ ShownIsTracked'
  BY <1>2, HiOtherRecords
<1>11. QED
  BY <1>5, <1>6, <1>7, <1>8, <1>9, <1>10 DEF HiInv

\* A reading of a rack that is appended comes after those that are shown.
LEMMA HiRackAppended ==
    ASSUME HiInv, NEW t \in HiThreads, RackAppended(t)
    PROVE  HiInv'
<1> DEFINE n == hiAt[t].n
           shown == Pushed(hiShown, n)
<1>1. HiTypeOK /\ HiThreadsAt /\ HiOneAtATime /\ HiUploadsOrderly
  BY DEF HiInv
<1>2. /\ hiPart = "uploads" /\ HiMayRun(t) /\ hiAt[t].step = "append"
      /\ UNCHANGED <<hiPart, hiMade, hiId, hiStatus, hiById, hiResource, hiTracked, hiCounter, hiLatest,
                     hiKnown, hiOrderly>>
  BY DEF RackAppended, HiAtStep, hiControls, hiResources
<1>3. \/ /\ hiKnown /\ hiShown' = shown /\ HiGo(t, "latest", n)
         /\ hiErrors' = hiErrors
      \/ /\ ~hiKnown /\ hiErrors' = TRUE /\ HiGo(t, "idle", 0) /\ hiShown' = hiShown
  BY <1>1 DEF RackAppended, HiTypeOK
<1>4. /\ t \in HiWorkers /\ "web" \in HiWorkers /\ t # "web" /\ HiRecords \in Nat
      /\ n \in 0..HiRecords /\ HiThreads \subseteq HiWorkers
  BY <1>1, RecordersAssumption DEF HiWorkers, HiThreadsAt
<1>5. \/ /\ hiKnown /\ hiShown' = shown /\ HiGone(t, "latest", n)
         /\ hiErrors' = hiErrors
      \/ /\ ~hiKnown /\ hiErrors' = TRUE /\ HiGone(t, "idle", 0) /\ hiShown' = hiShown
  BY <1>1, <1>3, <1>4, HiGoes DEF HiSteps
<1>6. /\ shown \in Seq(0..HiRecords) /\ Len(shown) \in Nat /\ Len(shown) > 0 /\ Len(shown) <= HiMax
      /\ shown[Len(shown)] = n
  BY <1>1, <1>4, HiPushed DEF HiTypeOK
<1>7. shown # << >>
  BY <1>6
<1> HIDE DEF n, shown
<1>8. PICK step \in {"latest", "idle"}, m \in 0..HiRecords : HiGone(t, step, m)
  BY <1>4, <1>5
<1>9. /\ HiOneAtATime'
      /\ hiOrderly => \A u \in HiWorkers : u # t => hiAt[u].step = "idle" /\ hiAt'[u].step = "idle"
  BY <1>1, <1>2, <1>4, <1>8, HiStaysAlone
<1>10. HiTypeOK'
  <2>1. DOMAIN hiAt' = HiWorkers
    BY <1>8 DEF HiGone
  <2>2. hiShown' \in Seq(0..HiRecords) /\ Len(hiShown') <= HiMax /\ hiErrors' \in BOOLEAN
    BY <1>1, <1>5, <1>6 DEF HiTypeOK
  <2>3. QED
    BY <1>1, <1>2, <2>1, <2>2 DEF HiTypeOK
<1>11. HiThreadsAt'
  BY <1>2, <1>8 DEF HiThreadsAt, HiGone
<1>12. HiUploadsOrderly'
  <2> SUFFICES ASSUME hiOrderly
               PROVE  HiUploadsOrderly'
    BY <1>2 DEF HiUploadsOrderly
  <2>1. hiKnown /\ ~hiErrors
    BY <1>1, <1>2 DEF HiUploadsOrderly
  <2>2. hiShown' = shown /\ HiGone(t, "latest", n) /\ ~hiErrors'
    BY <1>5, <2>1
  <2>3. /\ hiAt'[t].step = "latest" /\ hiAt'[t].n = n
        /\ \A u \in HiWorkers : u # t => hiAt'[u].step = "idle"
    BY <1>9, <2>2 DEF HiGone
  <2>4. QED
    BY <1>2, <1>4, <1>6, <1>7, <2>1, <2>2, <2>3 DEF HiUploadsOrderly
<1>13. HiRequestsOrderly'
  BY <1>2 DEF HiRequestsOrderly
<1>14. HiRecorded' /\ UpdatesReachNewest' /\ ShownIsTracked'
  BY <1>2, HiOtherRecords
<1>15. QED
  BY <1>9, <1>10, <1>11, <1>12, <1>13, <1>14 DEF HiInv

\* A reading of a rack that is noted is the latest.
LEMMA HiRackNoted ==
    ASSUME HiInv, NEW t \in HiThreads, RackNoted(t)
    PROVE  HiInv'
<1>1. HiTypeOK /\ HiThreadsAt /\ HiOneAtATime /\ HiUploadsOrderly
  BY DEF HiInv
<1>2. /\ hiPart = "uploads" /\ HiMayRun(t)
      /\ UNCHANGED <<hiPart, hiMade, hiShown, hiId, hiStatus, hiById, hiResource, hiTracked, hiKnown,
                     hiErrors, hiOrderly>>
  BY DEF RackNoted, HiAtStep, hiControls, hiResources
<1>3. \/ /\ hiAt[t].step = "latest" /\ hiLatest' = hiAt[t].n
         /\ HiGo(t, "count", 0) /\ hiCounter' = hiCounter
      \/ /\ hiAt[t].step = "count" /\ hiCounter < HiRecords /\ hiCounter' = hiCounter + 1
         /\ HiGo(t, "idle", 0) /\ hiLatest' = hiLatest
  BY DEF RackNoted, HiAtStep
<1>4. /\ t \in HiWorkers /\ "web" \in HiWorkers /\ t # "web" /\ HiRecords \in Nat
      /\ hiAt[t].n \in 0..HiRecords /\ HiThreads \subseteq HiWorkers
  BY <1>1, RecordersAssumption DEF HiWorkers, HiThreadsAt
<1>5. \/ /\ hiAt[t].step = "latest" /\ hiLatest' = hiAt[t].n
         /\ HiGone(t, "count", 0) /\ hiCounter' = hiCounter
      \/ /\ hiAt[t].step = "count" /\ hiCounter < HiRecords /\ hiCounter' = hiCounter + 1
         /\ HiGone(t, "idle", 0) /\ hiLatest' = hiLatest
  BY <1>1, <1>3, <1>4, HiGoes DEF HiSteps
<1>6. PICK step \in {"count", "idle"} : HiGone(t, step, 0)
  BY <1>5
<1>7. /\ HiOneAtATime'
      /\ hiOrderly => \A u \in HiWorkers : u # t => hiAt[u].step = "idle" /\ hiAt'[u].step = "idle"
  BY <1>1, <1>2, <1>4, <1>6, HiStaysAlone
<1>8. HiTypeOK'
  <2>1. DOMAIN hiAt' = HiWorkers
    BY <1>6 DEF HiGone
  <2>2. hiCounter' \in 0..HiRecords /\ hiLatest' \in 0..HiRecords
    BY <1>1, <1>4, <1>5 DEF HiTypeOK
  <2>3. QED
    BY <1>1, <1>2, <2>1, <2>2 DEF HiTypeOK
<1>9. HiThreadsAt'
  BY <1>2, <1>6 DEF HiThreadsAt, HiGone
<1>10. HiUploadsOrderly'
  <2> SUFFICES ASSUME hiOrderly
               PROVE  HiUploadsOrderly'
    BY <1>2 DEF HiUploadsOrderly
  <2>1. /\ hiAt'[t].step \in {"count", "idle"}
        /\ \A u \in HiWorkers : u # t => hiAt[u].step = "idle" /\ hiAt'[u].step = "idle"
    BY <1>6, <1>7 DEF HiGone
  <2>2. ~hiErrors
    BY <1>1 DEF HiUploadsOrderly
  <2>3. HiAgree'
    <3>1. CASE hiAt[t].step = "latest" /\ hiLatest' = hiAt[t].n
      BY <1>1, <1>2, <3>1 DEF HiUploadsOrderly, HiAgree
    <3>2. CASE hiAt[t].step = "count" /\ hiLatest' = hiLatest
      BY <1>1, <1>2, <2>1, <3>2 DEF HiUploadsOrderly, HiAgree
    <3>3. QED
      BY <1>5, <3>1, <3>2
  <2>4. QED
    BY <1>2, <1>4, <2>1, <2>2, <2>3 DEF HiUploadsOrderly
<1>11. HiRequestsOrderly'
  BY <1>2 DEF HiRequestsOrderly
<1>12. HiRecorded' /\ UpdatesReachNewest' /\ ShownIsTracked'
  BY <1>2, HiOtherRecords
<1>13. QED
  BY <1>7, <1>8, <1>9, <1>10, <1>11, <1>12 DEF HiInv

\* The buffers are cleared one after the other, while no upload is recorded in between.
LEMMA HiBuffersCleared ==
    ASSUME HiInv, BuffersCleared
    PROVE  HiInv'
<1>1. HiTypeOK /\ HiThreadsAt /\ HiOneAtATime /\ HiUploadsOrderly
  BY DEF HiInv
<1>2. /\ hiPart = "uploads" /\ HiMayRun("web")
      /\ UNCHANGED <<hiPart, hiMade, hiId, hiStatus, hiById, hiResource, hiTracked, hiErrors, hiOrderly>>
  BY DEF BuffersCleared, HiAtStep, hiControls, hiResources
<1>3. \/ /\ hiAt["web"].step = "idle" /\ hiShown' = << >> /\ hiKnown' = FALSE
         /\ HiGo("web", "latest", 0)
         /\ hiLatest' = hiLatest /\ hiCounter' = hiCounter
      \/ /\ hiAt["web"].step = "latest" /\ hiLatest' = 0
         /\ HiGo("web", "count", 0)
         /\ hiShown' = hiShown /\ hiKnown' = hiKnown /\ hiCounter' = hiCounter
      \/ /\ hiAt["web"].step = "count" /\ hiCounter' = 0
         /\ HiGo("web", "idle", 0)
         /\ hiShown' = hiShown /\ hiKnown' = hiKnown /\ hiLatest' = hiLatest
  BY DEF BuffersCleared, HiAtStep
<1>4. /\ "web" \in HiWorkers /\ HiRecords \in Nat /\ HiThreads \subseteq HiWorkers
      /\ \A t \in HiThreads : t # "web"
  BY RecordersAssumption DEF HiWorkers
<1>5. \/ /\ hiAt["web"].step = "idle" /\ hiShown' = << >> /\ hiKnown' = FALSE
         /\ HiGone("web", "latest", 0)
         /\ hiLatest' = hiLatest /\ hiCounter' = hiCounter
      \/ /\ hiAt["web"].step = "latest" /\ hiLatest' = 0
         /\ HiGone("web", "count", 0)
         /\ hiShown' = hiShown /\ hiKnown' = hiKnown /\ hiCounter' = hiCounter
      \/ /\ hiAt["web"].step = "count" /\ hiCounter' = 0
         /\ HiGone("web", "idle", 0)
         /\ hiShown' = hiShown /\ hiKnown' = hiKnown /\ hiLatest' = hiLatest
  BY <1>1, <1>3, <1>4, HiGoes DEF HiSteps
<1>6. PICK step \in {"latest", "count", "idle"} : HiGone("web", step, 0)
  BY <1>5
<1>7. /\ HiOneAtATime'
      /\ hiOrderly => \A u \in HiWorkers :
                          u # "web" => hiAt[u].step = "idle" /\ hiAt'[u].step = "idle"
  BY <1>1, <1>2, <1>4, <1>6, HiStaysAlone
<1>8. HiTypeOK'
  <2>1. DOMAIN hiAt' = HiWorkers
    BY <1>6 DEF HiGone
  <2>2. Len(<< >>) = 0 /\ << >> \in Seq(0..HiRecords) /\ 0 <= HiMax
    BY RecordersAssumption, EmptySeq
  <2>3. hiShown' \in Seq(0..HiRecords) /\ Len(hiShown') <= HiMax
    BY <1>1, <1>5, <2>2 DEF HiTypeOK
  <2>4. hiCounter' \in 0..HiRecords /\ hiLatest' \in 0..HiRecords /\ hiKnown' \in BOOLEAN
    <3>1. hiCounter \in 0..HiRecords /\ hiLatest \in 0..HiRecords /\ hiKnown \in BOOLEAN
      BY <1>1 DEF HiTypeOK
    <3>2. hiCounter' \in {0, hiCounter} /\ hiLatest' \in {0, hiLatest}
      BY <1>5
    <3>3. hiKnown' = FALSE \/ hiKnown' = hiKnown
      BY <1>5
    <3>4. hiKnown' \in BOOLEAN
      BY <3>1, <3>3, Zenon
    <3>5. 0 \in 0..HiRecords
      BY <1>4
    <3>6. QED
      BY <3>1, <3>2, <3>4, <3>5, Zenon
  <2>5. QED
    BY <1>1, <1>2, <2>1, <2>3, <2>4 DEF HiTypeOK
<1>9. HiThreadsAt'
  BY <1>2, <1>6 DEF HiThreadsAt, HiGone
<1>10. HiUploadsOrderly'
  <2> SUFFICES ASSUME hiOrderly
               PROVE  HiUploadsOrderly'
    BY <1>2 DEF HiUploadsOrderly
  <2>1. \A u \in HiThreads : hiAt[u].step = "idle" /\ hiAt'[u].step = "idle"
    BY <1>4, <1>7
  <2>2. ~hiErrors /\ (hiAt["web"].step \in {"latest", "count"} => hiShown = << >>)
    BY <1>1, <1>2 DEF HiUploadsOrderly
  <2>3. hiAt'["web"].step \in {"latest", "count"} => hiShown' = << >>
    BY <1>5, <2>2 DEF HiGone
  <2>4. hiAt'["web"].step # "latest" => HiAgree'
    <3>1. CASE hiAt["web"].step = "idle"
      BY <1>5, <3>1 DEF HiGone
    <3>2. CASE hiAt["web"].step = "latest"
      BY <1>5, <2>2, <3>2 DEF HiAgree
    <3>3. CASE hiAt["web"].step = "count"
      <4>1. \A u \in HiWorkers : hiAt[u].step # "latest"
        BY <2>1, <3>3 DEF HiWorkers
      <4>2. HiAgree
        BY <1>1, <1>2, <4>1 DEF HiUploadsOrderly
      <4>3. hiShown' = hiShown /\ hiLatest' = hiLatest
        BY <1>5, <3>3
      <4>4. QED
        BY <4>2, <4>3 DEF HiAgree
    <3>4. QED
      BY <1>5, <3>1, <3>2, <3>3
  <2>5. QED
    BY <1>2, <1>4, <2>1, <2>2, <2>3, <2>4 DEF HiUploadsOrderly
<1>11. HiRequestsOrderly'
  BY <1>2 DEF HiRequestsOrderly
<1>12. HiRecorded' /\ UpdatesReachNewest' /\ ShownIsTracked'
  BY <1>2, HiOtherRecords
<1>13. QED
  BY <1>7, <1>8, <1>9, <1>10, <1>11, <1>12 DEF HiInv

\* Every step of a recorder and of a page keeps what the pages show.
LEMMA HiPreserved == HiInv /\ [HiNext]_hiVars => HiInv'
<1> SUFFICES ASSUME HiInv, [HiNext]_hiVars PROVE HiInv'
  OBVIOUS
<1>1. CASE UNCHANGED hiVars
  <2>1. UNCHANGED <<hiPart, hiMade, hiShown, hiId, hiStatus, hiById, hiResource, hiTracked, hiCounter,
                    hiLatest, hiKnown, hiErrors, hiAt, hiOrderly>>
    BY <1>1 DEF hiVars, hiControls, hiResources, hiBuffers
  <2>2. HiTypeOK /\ HiRecorded /\ HiThreadsAt /\ HiOneAtATime /\ HiRequestsOrderly
        /\ HiUploadsOrderly /\ UpdatesReachNewest /\ ShownIsTracked
    BY DEF HiInv
  <2>3. HiTypeOK' /\ HiRecorded' /\ HiThreadsAt' /\ HiOneAtATime'
    BY <2>1, <2>2 DEF HiTypeOK, HiRecorded, HiThreadsAt, HiOneAtATime
  <2>4. HiRequestsOrderly' /\ HiUploadsOrderly' /\ UpdatesReachNewest' /\ ShownIsTracked'
    BY <2>1, <2>2 DEF HiRequestsOrderly, HiUploadsOrderly, HiAgree, UpdatesReachNewest, ShownIsTracked
  <2>5. QED
    BY <2>3, <2>4 DEF HiInv
<1>2. QED
  BY <1>1, HiReceived, HiStatusUpdated, HiAssignments, HiCleared, HiCounted, HiLogged,
     HiRackKnown, HiRackAppended, HiRackNoted, HiBuffersCleared DEF HiNext

\* What is kept is what the pages promise.
LEMMA HiIsSafe == HiInv => HiTypeOK /\ HistorySafe
<1> SUFFICES ASSUME HiInv PROVE HiTypeOK /\ HistorySafe
  OBVIOUS
<1>1. HiTypeOK /\ UpdatesReachNewest /\ ShownIsTracked /\ HiRequestsOrderly /\ HiUploadsOrderly
  BY DEF HiInv
<1>2. DOMAIN hiShown = 1..Len(hiShown)
  BY <1>1 DEF HiTypeOK
<1>3. hiOrderly /\ hiPart = "requests" => IsInjective(hiShown)
  BY <1>1, <1>2 DEF HiRequestsOrderly, IsInjective
<1>4. hiOrderly => ~hiErrors
  BY <1>1 DEF HiUploadsOrderly
<1>5. hiOrderly /\ hiPart = "uploads" /\ HiIdle =>
          hiLatest = IF hiShown = << >> THEN 0 ELSE hiShown[Len(hiShown)]
  BY <1>1 DEF HiUploadsOrderly, HiAgree, HiIdle
<1>6. QED
  BY <1>1, <1>3, <1>4, <1>5 DEF HistorySafe, BuffersAgree

\* DERControlHistoryRecorder and DataRecorder: updates reach the newest record of a control
\* through evictions, cleanups and clears, the index stays bounded, what is shown as active is
\* tracked, and where calls do not overlap requests keep numbers of their own and the latest
\* record of a rack is the last of its buffer; for any size of the deques, any identifiers and
\* any threads.
THEOREM HistoryIsSafe == HiBehaviour => [](HiTypeOK /\ HistorySafe)
BY HiInitially, HiPreserved, HiIsSafe, PTL DEF HiBehaviour
=============================================================================
