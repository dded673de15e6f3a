------------------------------ MODULE Metering ------------------------------
(***************************************************************************)
(* The metering of BMSClient (client.py): how it finds, keeps and repairs  *)
(* the MirrorUsagePoint (MUP) of the battery on the server and the mRIDs   *)
(* of its readings.                                                        *)
(*                                                                         *)
(* The server is reachable or not; a request to an unreachable server      *)
(* fails, and one that creates something may have reached it all the same. *)
(* MUPs are numbered in the order of their creation, which is how the      *)
(* client compares their hrefs; a cached mRID is the pair of its MUP and   *)
(* the key of the reading.  The program may crash at any request.          *)
(***************************************************************************)
EXTENDS FiniteSets, FiniteSetsExt, Integers

CONSTANTS Keys,       \* the keys a complete upload has (expected_keys)
          RequiredKeys, \* those the registration insists on: "timestamp" is not one
          PartialThreshold,  \* _partial_upload_threshold
          MaxLosses   \* a bound on what the server loses and on the MUPs missed in an outage

ASSUME MtAssumption ==
    RequiredKeys \subseteq Keys /\ PartialThreshold \in Nat /\ MaxLosses \in Nat

Mups == 1..MaxLosses + 1
NoMup == 0

VARIABLES
    mtAt,      \* the request the client is at, or where it rests
    mtStarted, \* whether the registration is the one of the start, not a repair
    mtMup,     \* _mup_href
    mtMrid,    \* _mup_mrid
    mtMrids,   \* _reading_mrids
    mtPartial, \* _partial_upload_count
    mtLast,    \* what became of the latest upload
    mtRows,    \* the database: the MUPs ...
    mtCached,  \* ... and the mRIDs of the readings
    mtServer,  \* the MUPs on the server
    mtStored,  \* the mRIDs of the readings it knows
    mtUp,      \* whether the server can be reached
    mtLosses   \* the losses so far

clientSide == <<mtAt, mtStarted, mtMup, mtMrid, mtMrids, mtPartial, mtLast>>
database == <<mtRows, mtCached>>
server == <<mtServer, mtStored>>
world == <<mtUp, mtLosses>>
mtVars == <<clientSide, database, server, world>>

MtTypeOK ==
    /\ mtAt \in {"down", "verify", "recover", "fill", "create", "describe", "idle", "off"}
    /\ mtStarted \in BOOLEAN
    /\ mtMup \in Mups \cup {NoMup}
    /\ mtMrid \in Mups \cup {NoMup}
    /\ mtMrids \subseteq Mups \X Keys
    /\ mtPartial \in 0..PartialThreshold
    /\ mtLast \in {"none", "failed", "partial", "complete"}
    /\ mtRows \subseteq Mups
    /\ mtCached \subseteq Mups \X Keys
    /\ mtServer \subseteq Mups
    /\ mtStored \subseteq Mups \X Keys
    /\ mtUp \in BOOLEAN
    /\ mtLosses \in 0..MaxLosses

MtInit ==
    /\ mtAt = "down"
    /\ mtStarted = FALSE
    /\ mtMup = NoMup
    /\ mtMrid = NoMup
    /\ mtMrids = {}
    /\ mtPartial = 0
    /\ mtLast = "none"
    /\ mtRows = {}
    /\ mtCached = {}
    /\ mtServer = {}
    /\ mtStored = {}
    /\ mtUp = TRUE
    /\ mtLosses = 0

Of(mrids, m) == {r \in mrids : r[1] = m}
AllOf(m) == {m} \X Keys
KeysIn(mrids) == {r[2] : r \in mrids}
Missing(mrids) == Keys \ KeysIn(mrids)

\* The dictionary d updated with the readings r: one mRID for each key.
Updated(d, r) == {x \in d : x[2] \notin KeysIn(r)} \cup r

\* The readings r of MUP m are written over those in the database.
Saved(m, r) == (mtCached \ Of(mtCached, m)) \cup Updated(Of(mtCached, m), r)

-----------------------------------------------------------------------------
(* Start and registration.                                                 *)

\* _load_cached_resources(): the oldest row of the database.
MtStart ==
    /\ mtAt = "down"
    /\ mtStarted' = TRUE
    /\ mtPartial' = 0
    /\ mtLast' = "none"
    /\ IF mtRows = {}
       THEN mtMup' = NoMup /\ mtMrids' = {} /\ mtMrid' = NoMup /\ mtAt' = "recover"
       ELSE /\ mtMup' = Min(mtRows)
            /\ mtMrid' = mtMup'
            /\ mtMrids' = Of(mtCached, mtMup')
            /\ mtAt' = "verify"
    /\ UNCHANGED <<database, server, world>>

\* The registration is over.  At the start the metering loop runs only with a MUP.
Registration == mtAt' = IF mtStarted /\ mtMup' = NoMup THEN "off" ELSE "idle"

\* A request about MUP m is answered well.
Answered(m) == mtUp /\ m \in mtServer

\* GET of the readings of MUP m, kept in memory and in the database, or its failure.
FetchReadings(m) ==
    \/ /\ mtMrids' = Updated(mtMrids, Of(mtStored, m))
       /\ mtCached' = Saved(m, Of(mtStored, m))
    \/ UNCHANGED <<mtMrids, mtCached>>

\* GET of the cached MUP.  Not found is an exception too, so that its row is kept.
MtVerify ==
    /\ mtAt = "verify"
    /\ \/ /\ Answered(mtMup)
          /\ FetchReadings(mtMup)
          /\ UNCHANGED mtMup
          /\ Registration
       \/ /\ ~Answered(mtMup)
          /\ mtMup' = NoMup
          /\ mtMrids' = {}
          /\ mtAt' = "recover"
          /\ UNCHANGED mtCached
    /\ UNCHANGED <<mtStarted, mtMrid, mtPartial, mtLast, mtRows, server, world>>

\* _recover_from_server(): the newest MUP of ours, and its readings unless one of the
\* further requests fails.  An outage here may cost a second MUP and counts as a loss.
MtRecover ==
    /\ mtAt = "recover"
    /\ \/ /\ mtUp /\ mtServer # {}
          /\ LET m == Max(mtServer)
             IN  /\ mtMup' = m
                 /\ mtMrid' = m
                 /\ mtRows' = mtRows \cup {m}
                 /\ mtMrids' = Updated(mtMrids, Of(mtStored, m))
                 /\ mtCached' = Saved(m, Of(mtStored, m))
          /\ IF RequiredKeys \subseteq KeysIn(mtMrids') THEN Registration ELSE mtAt' = "fill"
          /\ UNCHANGED mtLosses
       \/ /\ ~mtUp \/ mtServer = {}
          /\ IF mtServer = {} THEN UNCHANGED mtLosses
             ELSE mtLosses < MaxLosses /\ mtLosses' = mtLosses + 1
          /\ mtAt' = "create"
          /\ UNCHANGED <<mtMup, mtMrid, mtMrids, database>>
    /\ UNCHANGED <<mtStarted, mtPartial, mtLast, server, mtUp>>

\* A request that stores all the readings of MUP m arrives, whether it is answered or not, or
\* does not.
StoreReadings(m) ==
    \/ m \in mtServer /\ mtStored' = mtStored \cup AllOf(m)
    \/ ~Answered(m) /\ UNCHANGED mtStored

\* Readings are missing on the server: all of them are posted, and read again.
MtFill ==
    /\ mtAt = "fill"
    /\ StoreReadings(mtMup)
    /\ \/ /\ Answered(mtMup)
          /\ mtMrids' = Updated(mtMrids, Of(mtStored', mtMup))
          /\ mtCached' = Saved(mtMup, Of(mtStored', mtMup))
       \/ ~Answered(mtMup) /\ UNCHANGED <<mtMrids, mtCached>>
    /\ UNCHANGED mtMup
    /\ Registration
    /\ UNCHANGED <<mtStarted, mtMrid, mtPartial, mtLast, mtRows, mtServer, world>>

\* POST of the MUP: the server knows its mRID already or numbers a new one.
MtCreate ==
    /\ mtAt = "create"
    /\ LET m == IF mtMrid \in mtServer THEN mtMrid ELSE Max(mtServer \cup mtRows \cup {0}) + 1
       IN  /\ m \in Mups
           /\ \/ /\ mtUp
                 /\ mtServer' = mtServer \cup {m}
                 /\ mtMup' = m
                 /\ mtMrid' = m
                 /\ mtAt' = "describe"
              \/ /\ ~mtUp
                 /\ mtServer' \in {mtServer, mtServer \cup {m}}
                 /\ mtMup' = NoMup
                 /\ UNCHANGED mtMrid
                 /\ Registration
    /\ UNCHANGED <<mtStarted, mtMrids, mtPartial, mtLast, database, mtStored, world>>

\* POST of its readings, then two GETs; without the first of them it is all forgotten.
MtDescribe ==
    /\ mtAt = "describe"
    /\ StoreReadings(mtMup)
    /\ \/ /\ Answered(mtMup)
          /\ mtMrids' = Updated(mtMrids, Of(mtStored', mtMup))
          /\ mtCached' = Saved(mtMup, Of(mtStored', mtMup))
          /\ mtRows' = mtRows \cup {mtMup}
          /\ UNCHANGED mtMup
       \/ /\ ~Answered(mtMup)
          /\ mtMup' = NoMup
          /\ UNCHANGED <<mtMrids, database>>
    /\ Registration
    /\ UNCHANGED <<mtStarted, mtMrid, mtPartial, mtLast, mtServer, world>>

-----------------------------------------------------------------------------
(* _upload_meter_readings()                                                *)

\* Layer 2: the readings the server knows are added, unless it is cooling down.
Recovered ==
    {mtMrids} \cup
    (IF Answered(mtMrid)
     THEN {mtMrids \cup {r \in Of(mtStored, mtMrid) : r[2] \notin KeysIn(mtMrids)}}
     ELSE {})

\* Mutant: the old mRIDs are kept.
RegisterKeeping ==
    /\ mtMup' = NoMup
    /\ mtAt' = "recover"
    /\ mtStarted' = FALSE
    /\ mtPartial' = 0
    /\ UNCHANGED <<mtMrids, mtLast, database>>

\* Layer 4: the registration from nothing.
RegisterAgain ==
    /\ mtMrids' = {}
    /\ mtMup' = NoMup
    /\ mtAt' = "recover"
    /\ mtStarted' = FALSE
    /\ mtPartial' = 0
    /\ UNCHANGED <<mtLast, database>>

\* The mRIDs are kept after every upload that arrived.
Synced(mrids) == mtCached' = Saved(mtMup, mrids)

\* The POST of the readings that have an mRID.  One that fails is only logged: a MUP that the
\* server has no more is posted to again and again.
Post(mrids) ==
    /\ mtMrids' = mrids
    /\ \/ /\ Answered(mtMup) /\ mrids # {}
          /\ mtLast' = IF Missing(mrids) = {} THEN "complete" ELSE "partial"
          /\ Synced(mrids)
       \/ /\ ~Answered(mtMup) \/ mrids = {}
          /\ mtLast' = "failed"
          /\ UNCHANGED mtCached
    /\ UNCHANGED <<mtAt, mtMup, mtStarted, mtRows>>

MtUpload ==
    /\ mtAt = "idle"
    /\ mtMup # NoMup
    /\ \E mrids \in IF Missing(mtMrids) = {} THEN {mtMrids} ELSE Recovered :
        \/ /\ Missing(mrids) = {}
           /\ mtPartial' = 0
           /\ Post(mrids)
        \/ /\ Missing(mrids) # {}
           /\ mtPartial >= PartialThreshold
           /\ RegisterAgain
        \/ /\ Missing(mrids) # {}
           /\ mtPartial < PartialThreshold
           /\ mtPartial' = mtPartial + 1
           /\ Post(mrids)
    /\ UNCHANGED <<mtMrid, server, world>>

-----------------------------------------------------------------------------
(* The environment.                                                        *)

\* The program ends, or crashes: what is in memory is gone.
MtCrash ==
    /\ mtAt # "down"
    /\ mtAt' = "down"
    /\ mtMup' = NoMup
    /\ mtMrid' = NoMup
    /\ mtMrids' = {}
    /\ UNCHANGED <<mtStarted, mtPartial, mtLast, database, server, world>>

ServerChanges == mtUp' = ~mtUp /\ UNCHANGED <<clientSide, database, server, mtLosses>>

\* The server loses a MUP, or a reading.
ServerLoses ==
    /\ mtLosses < MaxLosses
    /\ mtLosses' = mtLosses + 1
    /\ \/ \E m \in mtServer :
          mtServer' = mtServer \ {m} /\ mtStored' = mtStored \ Of(mtStored, m)
       \/ \E r \in mtStored : mtStored' = mtStored \ {r} /\ UNCHANGED mtServer
    /\ UNCHANGED <<clientSide, database, mtUp>>

MtStep == MtVerify \/ MtRecover \/ MtFill \/ MtCreate \/ MtDescribe \/ MtUpload

MtNext == MtStart \/ MtStep \/ MtCrash \/ ServerChanges \/ ServerLoses

\* What the client has begun it goes on with; nobody has to start it.
MtFairness == WF_mtVars(MtStep)

-----------------------------------------------------------------------------
(* Properties.                                                             *)

\* The readings of one MUP are never posted to another: whatever was recovered, forgotten
\* or created, the cached mRIDs are those of the cached MUP.
MridsBelong == \A r \in mtMrids : r[1] = mtMup

\* What the metering cannot recover from while it runs: it was not started, a repair failed
\* in its middle, the server lost the MUP when nothing but the MUP was missing, or a reading
\* the registration does not insist on.
DeadEnd ==
    \/ mtAt = "off"
    \/ mtAt = "idle" /\ mtMup = NoMup
    \/ mtAt = "idle" /\ mtMup \notin mtServer /\ Missing(mtMrids) = {}
    \/ mtMup \in mtServer /\ RequiredKeys \subseteq KeysIn(Of(mtStored, mtMup))
                          /\ Missing(Of(mtStored, mtMup)) # {}

\* With a server that stays reachable and a client that stays up every reading is uploaded
\* again and again, however many uploads, registrations and restarts failed before: the
\* four layers of recovery together do recover, or come to one of the dead ends.
MeteringRecovers ==
    <>[](mtUp /\ mtAt # "down") => []<>(mtLast = "complete" \/ DeadEnd)
=============================================================================
