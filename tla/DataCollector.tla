--------------------------- MODULE DataCollector ----------------------------
(***************************************************************************)
(* BMSDataCollector (modbus/modbus_client.py): the loop that reads the BMS *)
(* and keeps the health of the connection.                                 *)
(*                                                                         *)
(* The device comes and goes; while it is gone, connecting and reading     *)
(* fail.  A stop cancels the loop at whatever it awaits.                   *)
(***************************************************************************)
EXTENDS Naturals

CONSTANTS UnstableThreshold,   \* UNSTABLE_THRESHOLD
          DegradedThreshold,   \* DEGRADED_THRESHOLD
          MaxDelay             \* the doublings of _reconnect_delay up to its maximum

ASSUME DcAssumption ==
    /\ UnstableThreshold \in Nat \ {0}
    /\ DegradedThreshold \in Nat
    /\ UnstableThreshold < DegradedThreshold
    /\ MaxDelay \in Nat

VARIABLES
    dcUp,        \* whether the device can be reached
    dcLink,      \* whether the Modbus client is connected
    dcAt,        \* what the collector awaits
    dcHealth,    \* _health.state
    dcFailures,  \* _health.consecutive_failures
    dcDelay,     \* the doublings of _reconnect_delay
    dcMissed     \* history: the reads that failed since the latest snapshot, or the start

dcVars == <<dcUp, dcLink, dcAt, dcHealth, dcFailures, dcDelay, dcMissed>>

DcTypeOK ==
    /\ dcUp \in BOOLEAN
    /\ dcLink \in BOOLEAN
    /\ dcAt \in {"new", "connect", "read", "rest", "backoff", "reconnect", "degraded", "retry", "stopped"}
    /\ dcHealth \in {"disconnected", "connected", "unstable", "degraded"}
    /\ dcFailures \in 0..DegradedThreshold
    /\ dcDelay \in 0..MaxDelay
    /\ dcMissed \in 0..DegradedThreshold

DcInit ==
    /\ dcUp = TRUE
    /\ dcLink = FALSE
    /\ dcAt = "new"
    /\ dcHealth = "disconnected"
    /\ dcFailures = 0
    /\ dcDelay = 0
    /\ dcMissed = 0

-----------------------------------------------------------------------------

\* start(): the Modbus client may be connected already, by BMSClient.start().
DcStart ==
    /\ dcAt = "new"
    /\ dcLink' \in BOOLEAN
    /\ dcAt' = IF dcLink' THEN "read" ELSE "connect"
    /\ UNCHANGED <<dcUp, dcHealth, dcFailures, dcDelay, dcMissed>>

\* The loop runs whether or not the connection could be made.
DcConnected ==
    /\ dcAt = "connect"
    /\ dcAt' = "read"
    /\ dcLink' = dcUp
    /\ dcHealth' = IF dcUp THEN "connected" ELSE dcHealth
    /\ UNCHANGED <<dcUp, dcFailures, dcDelay, dcMissed>>

\* A snapshot, in either branch of the loop.
Success(after) ==
    /\ dcAt' = after
    /\ dcHealth' = "connected"
    /\ dcFailures' = 0
    /\ dcDelay' = 0
    /\ dcMissed' = 0
    /\ UNCHANGED dcLink

OneMore(n) == IF n < DegradedThreshold THEN n + 1 ELSE n

\* Mutant: the state changes one failure late.
FailureLate ==
    /\ dcFailures' = OneMore(dcFailures)
    /\ dcMissed' = OneMore(dcMissed)
    /\ IF dcFailures' >= DegradedThreshold
       THEN dcHealth' = "degraded" /\ dcAt' = "degraded" /\ UNCHANGED dcLink
       ELSE /\ dcHealth' = IF dcFailures' > UnstableThreshold THEN "unstable" ELSE dcHealth
            /\ dcAt' = "backoff"
            /\ dcLink' = FALSE
    /\ UNCHANGED dcDelay

\* A ModbusClientError: the next failure may change the health, and but for the degraded
\* state the connection is closed before the back-off.
Failure ==
    /\ dcFailures' = OneMore(dcFailures)
    /\ dcMissed' = OneMore(dcMissed)
    /\ IF dcFailures' >= DegradedThreshold
       THEN dcHealth' = "degraded" /\ dcAt' = "degraded" /\ UNCHANGED dcLink
       ELSE /\ dcHealth' = IF dcFailures' >= UnstableThreshold THEN "unstable" ELSE dcHealth
            /\ dcAt' = "backoff"
            /\ dcLink' = FALSE
    /\ UNCHANGED dcDelay

\* A reading over a connection that was lost meanwhile fails although the device is back.
DcRead ==
    /\ dcAt = "read"
    /\ \/ dcUp /\ dcLink /\ Success("rest")
       \/ Failure
    /\ UNCHANGED dcUp

\* Any other exception is logged and forgotten.
DcReadRaises ==
    /\ dcAt = "read"
    /\ dcAt' = "rest"
    /\ UNCHANGED <<dcUp, dcLink, dcHealth, dcFailures, dcDelay, dcMissed>>

DcRested ==
    /\ dcAt = "rest"
    /\ dcAt' = "read"
    /\ UNCHANGED <<dcUp, dcLink, dcHealth, dcFailures, dcDelay, dcMissed>>

DcBackedOff ==
    /\ dcAt = "backoff"
    /\ dcAt' = "reconnect"
    /\ dcDelay' = IF dcDelay < MaxDelay THEN dcDelay + 1 ELSE dcDelay
    /\ UNCHANGED <<dcUp, dcLink, dcHealth, dcFailures, dcMissed>>

DcReconnected ==
    /\ dcAt = "reconnect"
    /\ dcAt' = "read"
    /\ dcLink' = dcUp
    /\ UNCHANGED <<dcUp, dcHealth, dcFailures, dcDelay, dcMissed>>

\* Mutant: the degraded state only waits for a connection, and makes none.
DcRetryUnconnected ==
    /\ dcAt = "degraded"
    /\ dcAt' = IF dcLink THEN "retry" ELSE "degraded"
    /\ dcLink' = FALSE
    /\ UNCHANGED <<dcUp, dcHealth, dcFailures, dcDelay, dcMissed>>

\* The degraded state: a long interval, then disconnect, connect ...
DcRetry ==
    /\ dcAt = "degraded"
    /\ dcAt' = IF dcUp THEN "retry" ELSE "degraded"
    /\ dcLink' = dcUp
    /\ UNCHANGED <<dcUp, dcHealth, dcFailures, dcDelay, dcMissed>>

\* ... and a reading that decides.
DcConfirm ==
    /\ dcAt = "retry"
    /\ IF dcUp THEN Success("read")
       ELSE dcAt' = "degraded" /\ UNCHANGED <<dcLink, dcHealth, dcFailures, dcDelay, dcMissed>>
    /\ UNCHANGED dcUp

DcStop ==
    /\ dcAt \notin {"new", "connect", "stopped"}
    /\ dcAt' = "stopped"
    /\ dcHealth' = "disconnected"
    /\ UNCHANGED <<dcUp, dcLink, dcFailures, dcDelay, dcMissed>>

\* The device is switched off or on.
DeviceChanges ==
    /\ dcUp' = ~dcUp
    /\ UNCHANGED <<dcLink, dcAt, dcHealth, dcFailures, dcDelay, dcMissed>>

DcStep ==
    \/ DcConnected \/ DcRead \/ DcReadRaises \/ DcRested \/ DcBackedOff \/ DcReconnected
    \/ DcRetry \/ DcConfirm

DcNext == DcStart \/ DcStep \/ DcStop \/ DeviceChanges

\* The loop goes on, a reading does not raise something unexpected for ever, and a device
\* that is up and connected does answer in the end.
DcFairness ==
    /\ WF_dcVars(DcStep)
    /\ SF_dcVars(DcRead)
    /\ SF_dcVars(DcRead /\ dcAt' = "rest")

-----------------------------------------------------------------------------
(* Properties.                                                             *)

\* The health tells how many readings were missed since the latest snapshot, whichever
\* branch of the loop took it, and the long interval is used in the degraded state only.
HealthIsTrue ==
    /\ dcHealth = "connected" => dcMissed < UnstableThreshold
    /\ dcHealth = "unstable" => dcMissed \in UnstableThreshold..DegradedThreshold - 1
    /\ dcHealth = "degraded" => dcMissed >= DegradedThreshold
    /\ dcAt \in {"degraded", "retry"} <=> dcHealth = "degraded"

\* When the device stays reachable the collector is connected again and again, out of the
\* degraded state too, unless it is stopped.
CollectorRecovers == <>[]dcUp => []<>(dcHealth = "connected" \/ dcAt \in {"new", "stopped"})
=============================================================================
