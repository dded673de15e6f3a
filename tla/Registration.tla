---------------------------- MODULE Registration ----------------------------
(***************************************************************************)
(* How BMSClient.start(), or the database wrapper around the HTTP client,  *)
(* comes by the EndDevice and the DER it reports for: from the SQLite      *)
(* cache, from the server's list, or by registering.  Requests may fail    *)
(* before or after they have their effect, writes to the database may      *)
(* fail, the process may crash between any two steps, the web interface    *)
(* may clear the database, and the server may lose its resources and give  *)
(* a new registration the href of an old one.                              *)
(***************************************************************************)
EXTENDS Naturals, Sequences, FiniteSets, Functions

CONSTANTS
    Devices,    \* hrefs the server gives to EndDevices with the sFDI of this client
    Nothing,    \* no href
    RgFaults,   \* bound: failures, crashes, clearings and resets
    RgStarts    \* bound: starts of the client

ASSUME RegistrationAssumption == Nothing \notin Devices /\ RgFaults \in Nat /\ RgStarts \in Nat

VARIABLES
    rgServer,   \* the EndDevices of this client on the server, in the order of the list
    rgDers,     \* how many DERs each has
    rgRows,     \* the hrefs in end_device, oldest first
    rgDerRows,  \* the EndDevices whose DER is in der
    rgAt,       \* what start() does next
    rgEdev,     \* _edev_href, or the EndDevice of the wrapper
    rgDer,      \* _der_path: the EndDevice whose DER it is
    rgKnown,    \* _end_device of the HTTP client
    rgLocation, \* the location that the last POST of an EndDevice was answered with
    rgWrapper,  \* whether the database wrapper is used
    rgStarts, rgFaults,
    \* History.
    rgMissed,   \* lists of EndDevices that were not had, or whose EndDevice the wrapper did not save
    rgKept      \* the server has lost nothing

rgRemote == <<rgServer, rgDers>>
rgDb == <<rgRows, rgDerRows>>
rgLocal == <<rgEdev, rgDer, rgKnown, rgLocation>>
rgCounts == <<rgWrapper, rgStarts, rgFaults, rgMissed, rgKept>>
rgVars == <<rgRemote, rgDb, rgAt, rgLocal, rgCounts>>

RgTypeOK ==
    /\ rgServer \in Seq(Devices) /\ IsInjective(rgServer) /\ rgDers \in [Devices -> 0..2]
    /\ rgRows \in Seq(Devices) /\ IsInjective(rgRows) /\ rgDerRows \subseteq Devices
    /\ rgAt \in {"down", "load", "validate", "find", "register", "location", "save",
                 "saveNew", "ders", "create", "created", "saveDer", "up"}
    /\ rgEdev \in Devices \cup {Nothing} /\ rgDer \in Devices \cup {Nothing}
    /\ rgKnown \in Devices \cup {Nothing} /\ rgLocation \in Devices \cup {Nothing}
    /\ rgWrapper \in BOOLEAN
    /\ rgStarts \in 0..RgStarts /\ rgFaults \in 0..RgFaults
    /\ rgMissed \in 0..RgFaults /\ rgKept \in BOOLEAN

\* The utility may have registered the device before.
RgInit ==
    /\ rgServer \in {<< >>} \cup {<<d>> : d \in Devices}
    /\ rgDers = [d \in Devices |-> 0] /\ rgRows = << >> /\ rgDerRows = {}
    /\ rgAt = "down" /\ rgEdev = Nothing /\ rgDer = Nothing /\ rgKnown = Nothing
    /\ rgLocation = Nothing
    /\ rgWrapper \in BOOLEAN /\ rgStarts = 0 /\ rgFaults = 0 /\ rgMissed = 0 /\ rgKept = TRUE

Fault == rgFaults < RgFaults /\ rgFaults' = rgFaults + 1
NoFault == UNCHANGED rgFaults
Uncounted == UNCHANGED <<rgWrapper, rgStarts, rgMissed, rgKept>>
RgGo(from, to) == rgAt = from /\ rgAt' = to

-----------------------------------------------------------------------------

\* A new client object, connected to the server.
RgStart ==
    /\ RgGo("down", "load") /\ rgStarts < RgStarts
    /\ rgStarts' = rgStarts + 1
    /\ rgEdev' = Nothing /\ rgDer' = Nothing /\ rgKnown' = Nothing /\ rgLocation' = Nothing
    /\ UNCHANGED <<rgRemote, rgDb, rgWrapper, rgFaults, rgMissed, rgKept>>

\* _load_cached_resources(), or connect() of the wrapper: the oldest row with the sFDI.  The
\* wrapper uses what it has without asking the server.
LoadCached ==
    LET d == Head(rgRows) IN
    /\ rgAt = "load"
    /\ IF rgRows = << >>
       THEN rgAt' = "find" /\ UNCHANGED <<rgEdev, rgDer>>
       ELSE /\ rgEdev' = d
            /\ rgDer' = IF d \in rgDerRows THEN d ELSE Nothing
            /\ rgAt' = CASE ~rgWrapper -> "validate"
                         [] rgWrapper /\ d \in rgDerRows -> "up"
                         [] OTHER -> "ders"
    /\ UNCHANGED <<rgRemote, rgDb, rgKnown, rgLocation, rgCounts>>

\* find_end_device_by_sfdi(): a list that cannot be had counts as one without the device.
Asked(found) ==
    \/ /\ found = IF rgServer = << >> THEN Nothing ELSE Head(rgServer)
       /\ NoFault /\ UNCHANGED rgMissed
    \/ found = Nothing /\ Fault /\ rgMissed' = rgMissed + 1

\* Of the cached resources only the EndDevice is validated.
Validate ==
    /\ rgAt = "validate"
    /\ \E found \in Devices \cup {Nothing} :
           /\ Asked(found)
           /\ rgKnown' = IF found = Nothing THEN rgKnown ELSE found
           /\ IF found = rgEdev
              THEN rgAt' = "up" /\ UNCHANGED <<rgEdev, rgDer>>
              ELSE rgAt' = "find" /\ rgEdev' = Nothing /\ rgDer' = Nothing
    /\ UNCHANGED <<rgRemote, rgDb, rgLocation, rgWrapper, rgStarts, rgKept>>

Find ==
    /\ rgAt = "find"
    /\ \E found \in Devices \cup {Nothing} :
           /\ Asked(found)
           /\ IF found = Nothing
              THEN rgAt' = "register" /\ UNCHANGED <<rgEdev, rgKnown>>
              ELSE rgAt' = "save" /\ rgEdev' = found /\ rgKnown' = found
    /\ UNCHANGED <<rgRemote, rgDb, rgDer, rgLocation, rgWrapper, rgStarts, rgKept>>

\* register_end_device(): its own look at the list finds nothing, because the answer is
\* not parsed.  A POST that fails ends the registration, whether it had its effect or not.
Register ==
    /\ rgAt = "register"
    /\ \/ \E d \in Devices \ Range(rgServer) :
              /\ rgServer' = Append(rgServer, d)
              /\ rgDers' = [rgDers EXCEPT ![d] = 0]
              /\ \/ rgAt' = "location" /\ rgLocation' = d /\ NoFault
                 \/ rgAt' = "up" /\ Fault /\ UNCHANGED rgLocation
       \/ rgAt' = "up" /\ Fault /\ UNCHANGED <<rgRemote, rgLocation>>
    /\ Uncounted
    /\ UNCHANGED <<rgDb, rgEdev, rgDer, rgKnown>>

\* The device is got from the location that the server gave.
Located ==
    /\ rgAt = "location"
    /\ \/ /\ rgLocation \in Range(rgServer) /\ rgAt' = "saveNew" /\ NoFault
          /\ rgEdev' = rgLocation /\ rgKnown' = rgLocation
       \/ rgAt' = "up" /\ Fault /\ UNCHANGED <<rgEdev, rgKnown>>
    /\ Uncounted
    /\ UNCHANGED <<rgRemote, rgDb, rgDer, rgLocation>>

\* The client logs an error of the database and goes on.  In the wrapper it leaves no EndDevice,
\* and when the EndDevice was found on the server it is taken for one that was not, and
\* registered.
SaveFails ==
    /\ Fault
    /\ IF rgWrapper
       THEN /\ rgEdev' = Nothing
            /\ IF rgAt = "save" THEN rgAt' = "register" /\ rgMissed' = rgMissed + 1
               ELSE rgAt' = "up" /\ UNCHANGED rgMissed
       ELSE rgAt' = "ders" /\ UNCHANGED <<rgEdev, rgMissed>>

\* save_end_device(): a row for each href.
SaveEndDevice ==
    /\ rgAt \in {"save", "saveNew"}
    /\ \/ /\ rgRows' = IF rgEdev \in Range(rgRows) THEN rgRows ELSE Append(rgRows, rgEdev)
          /\ rgAt' = "ders" /\ NoFault /\ UNCHANGED <<rgEdev, rgMissed>>
       \/ SaveFails /\ UNCHANGED rgRows
    /\ UNCHANGED <<rgRemote, rgDerRows, rgDer, rgKnown, rgLocation, rgWrapper, rgStarts, rgKept>>

\* Mutant: a list of DERs that cannot be had counts as empty.
ListDersLeniently ==
    /\ rgAt = "ders"
    /\ \/ /\ rgKnown \in Range(rgServer)
          /\ IF rgDers[rgKnown] > 0
             THEN rgAt' = "saveDer" /\ rgDer' = rgKnown
             ELSE rgAt' = "create" /\ UNCHANGED rgDer
          /\ NoFault
       \/ rgAt' = "create" /\ Fault /\ UNCHANGED rgDer
    /\ Uncounted
    /\ UNCHANGED <<rgRemote, rgDb, rgEdev, rgKnown, rgLocation>>

\* get_or_create_der(): get_der_list() raises when the list cannot be had, and when the HTTP
\* client knows no EndDevice, as when the wrapper took it from the cache.  The wrapper looks
\* into its database first.
ListDers ==
    /\ rgAt = "ders"
    /\ \/ rgWrapper /\ rgEdev \in rgDerRows /\ rgDer' = rgEdev /\ rgAt' = "up" /\ NoFault
       \/ /\ ~(rgWrapper /\ rgEdev \in rgDerRows)
          /\ rgKnown \in Range(rgServer)
          /\ IF rgDers[rgKnown] > 0
             THEN rgAt' = "saveDer" /\ rgDer' = rgKnown
             ELSE rgAt' = "create" /\ UNCHANGED rgDer
          /\ NoFault
       \/ /\ ~(rgWrapper /\ rgEdev \in rgDerRows)
          /\ (rgKnown = Nothing /\ NoFault) \/ Fault
          /\ rgAt' = "up" /\ UNCHANGED rgDer
    /\ Uncounted
    /\ UNCHANGED <<rgRemote, rgDb, rgEdev, rgKnown, rgLocation>>

CreateDer ==
    /\ rgAt = "create"
    /\ \/ /\ rgKnown \in Range(rgServer) /\ rgDers[rgKnown] < 2
          /\ rgDers' = [rgDers EXCEPT ![rgKnown] = @ + 1]
          /\ \/ rgAt' = "created" /\ NoFault
             \/ rgAt' = "up" /\ Fault
       \/ rgAt' = "up" /\ Fault /\ UNCHANGED rgDers
    /\ Uncounted
    /\ UNCHANGED <<rgServer, rgDb, rgLocal>>

DerLocated ==
    /\ rgAt = "created"
    /\ \/ /\ rgKnown \in Range(rgServer) /\ rgDers[rgKnown] > 0
          /\ rgDer' = rgKnown /\ rgAt' = "saveDer" /\ NoFault
       \/ rgAt' = "up" /\ Fault /\ UNCHANGED rgDer
    /\ Uncounted
    /\ UNCHANGED <<rgRemote, rgDb, rgEdev, rgKnown, rgLocation>>

\* The wrapper has no DER that it could not save.
SaveDer ==
    /\ RgGo("saveDer", "up")
    /\ \/ rgDerRows' = rgDerRows \cup {rgDer} /\ NoFault /\ UNCHANGED rgDer
       \/ /\ UNCHANGED rgDerRows /\ Fault
          /\ rgDer' = IF rgWrapper THEN Nothing ELSE rgDer
    /\ Uncounted
    /\ UNCHANGED <<rgRemote, rgRows, rgEdev, rgKnown, rgLocation>>

-----------------------------------------------------------------------------

RgStop ==
    /\ RgGo("up", "down")
    /\ UNCHANGED <<rgRemote, rgDb, rgLocal, rgCounts>>

\* What was committed stays.
RgCrash ==
    /\ rgAt \notin {"down", "up"} /\ rgAt' = "down" /\ Fault
    /\ Uncounted
    /\ UNCHANGED <<rgRemote, rgDb, rgLocal>>

\* clear_all(), asked for by the web interface.
ClearAll ==
    /\ rgRows' = << >> /\ rgDerRows' = {} /\ Fault
    /\ Uncounted
    /\ UNCHANGED <<rgRemote, rgAt, rgLocal>>

ServerReset ==
    /\ rgServer' = << >> /\ rgDers' = [d \in Devices |-> 0] /\ rgKept' = FALSE /\ Fault
    /\ UNCHANGED <<rgDb, rgAt, rgLocal, rgWrapper, rgStarts, rgMissed>>

RgNext ==
    \/ RgStart \/ LoadCached \/ Validate \/ Find \/ Register \/ Located \/ SaveEndDevice
    \/ ListDers \/ CreateDer \/ DerLocated \/ SaveDer
    \/ RgStop \/ RgCrash \/ ClearAll \/ ServerReset

-----------------------------------------------------------------------------

\* Through crashes and lost answers the device is registered once more only when a list of
\* the server could not be had, or when the wrapper could not save the EndDevice that it had
\* found in one; and no EndDevice ever gets a second DER.
RegisteredOnce ==
    /\ Len(rgServer) <= 1 + rgMissed
    /\ \A d \in Devices : rgDers[d] <= 1

\* While the server loses nothing, what the client uses and what the database remembers is
\* on the server.
UsesWhatExists ==
    rgKept =>
        /\ rgEdev # Nothing => rgEdev \in Range(rgServer)
        /\ rgDer # Nothing => rgDers[rgDer] > 0 /\ rgDer \in Range(rgServer)
        /\ Range(rgRows) \subseteq Range(rgServer)
        /\ \A d \in rgDerRows : rgDers[d] > 0

\* A client that has met no fault since the database was new reports for a DER: the cache
\* never hides one that is to be made.
HasDer == rgFaults = 0 /\ rgAt = "up" => rgEdev # Nothing /\ rgDer = rgEdev

RegistrationSafe == RegisteredOnce /\ UsesWhatExists /\ HasDer
=============================================================================
