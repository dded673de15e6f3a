------------------------------ MODULE Reporting -----------------------------
(***************************************************************************)
(* What the reporting loop does in one round: the alarms of the racks      *)
(* become the alarmStatus of the DERStatus, which is PUT, and each bit     *)
(* that differs from the status of the round before is POSTed as a LogEvent*)
(* of its own.  When a round is due, and what a failed round leads to, is  *)
(* in BMSClient.                                                           *)
(***************************************************************************)
EXTENDS FiniteSets, Naturals

CONSTANTS
    Racks,
    RpRounds,       \* bound: rounds
    RpRestarts      \* bound: restarts of the client

ASSUME ReportingAssumption == IsFiniteSet(Racks) /\ RpRounds \in Nat /\ RpRestarts \in Nat

VARIABLES
    rpAt,           \* what the round awaits
    rpAlarm,        \* current_alarm of the round
    rpFaulty,       \* whether the status of the round says FAULT
    rpPrevious,     \* _previous_alarm_status
    rpBit,          \* the bit whose event is posted
    rpRounds,
    rpRestarts,
    rpStatus,       \* the DERStatus on the server
    rpLog,          \* whether the last LogEvent on the server of a bit says that it is set
    rpBehind,       \* History: the bits with an event that was lost, or raised before a restart
    rpPut,          \* History: whether the last status reached the server
    rpRepeated      \* History: whether an event told again what the log said, for no such reason

rpCounts == <<rpRounds, rpRestarts>>
rpServer == <<rpStatus, rpLog>>
rpHistory == <<rpBehind, rpPut, rpRepeated>>
rpVars == <<rpAt, rpAlarm, rpFaulty, rpPrevious, rpBit, rpCounts, rpServer, rpHistory>>

\* Of the bits of the register, one of those that mean an emergency (7), the voltage (1), and
\* one that means nothing to the server.
Errors == {"temp", "voltage", "reserved"}
OverVoltage == 1
EmergencyLocal == 7
Bits == {OverVoltage, EmergencyLocal}

RpTypeOK ==
    /\ rpAt \in {"sleep", "status", "availability", "event"}
    /\ rpAlarm \subseteq Bits /\ rpPrevious \subseteq Bits /\ rpBit \in {0} \cup Bits
    /\ rpFaulty \in BOOLEAN /\ rpPut \in BOOLEAN /\ rpRepeated \in BOOLEAN
    /\ rpRounds \in 0..RpRounds /\ rpRestarts \in 0..RpRestarts
    /\ rpStatus \in [alarm : SUBSET Bits, faulty : BOOLEAN]
    /\ rpLog \in [Bits -> BOOLEAN] /\ rpBehind \subseteq Bits

RpInit ==
    /\ rpAt = "sleep" /\ rpAlarm = {} /\ rpFaulty = FALSE /\ rpPrevious = {} /\ rpBit = 0
    /\ rpRounds = 0 /\ rpRestarts = 0
    /\ rpStatus = [alarm |-> {}, faulty |-> FALSE] /\ rpLog = [b \in Bits |-> FALSE]
    /\ rpBehind = {} /\ rpPut = TRUE /\ rpRepeated = FALSE

-----------------------------------------------------------------------------

\* modbus_error_to_alarm_status() of one rack.
AlarmStatus(errors) ==
    {b \in Bits : \/ b = OverVoltage /\ "voltage" \in errors
                  \/ b = EmergencyLocal /\ "temp" \in errors}

\* _aggregate_alarm_status(); offline racks count.
Aggregated(snapshot) == UNION {AlarmStatus(snapshot[k]) : k \in Racks}

\* _report_status() with a snapshot and a DER path; without them it does nothing.  A rack may
\* say that it is faulty and name no alarm.
Report ==
    /\ rpAt = "sleep" /\ rpRounds < RpRounds
    /\ rpRounds' = rpRounds + 1
    /\ \E snapshot \in [Racks -> SUBSET Errors] :
           /\ rpAlarm' = Aggregated(snapshot)
           /\ rpFaulty' \in {TRUE, \E k \in Racks : snapshot[k] # {}}
    /\ rpAt' = "status"
    /\ UNCHANGED <<rpPrevious, rpBit, rpRestarts, rpServer, rpHistory>>

\* A status whose PUT brought no answer may have been put.
PutOrNot == {rpStatus} \cup IF rpAt = "status" THEN {[alarm |-> rpAlarm, faulty |-> rpFaulty]}
                           ELSE {}

\* An exception ends the round before its events.
RoundFails ==
    /\ rpAt \in {"status", "availability"}
    /\ rpAt' = "sleep"
    /\ rpStatus' \in PutOrNot
    /\ rpPut' = (rpAt = "availability" /\ rpPut)
    /\ UNCHANGED <<rpAlarm, rpFaulty, rpPrevious, rpBit, rpCounts, rpLog, rpBehind, rpRepeated>>

\* _put() answers False to a refusal, which nobody looks at; the round goes on.
StatusPut ==
    /\ rpAt = "status"
    /\ rpPut' \in BOOLEAN
    /\ rpStatus' = IF rpPut' THEN [alarm |-> rpAlarm, faulty |-> rpFaulty] ELSE rpStatus
    /\ rpAt' = "availability"
    /\ UNCHANGED <<rpAlarm, rpFaulty, rpPrevious, rpBit, rpCounts, rpLog, rpBehind, rpRepeated>>

Changed == (rpAlarm \ rpPrevious) \cup (rpPrevious \ rpAlarm)

\* The next changed bit in order; when there is none the alarm becomes the previous one.
ToEvent(after) ==
    LET left == {b \in Changed : b > after}
    IN  IF left = {}
        THEN rpAt' = "sleep" /\ rpBit' = 0 /\ rpPrevious' = rpAlarm
        ELSE /\ rpAt' = "event"
             /\ rpBit' = CHOOSE b \in left : \A c \in left : b <= c
             /\ UNCHANGED rpPrevious

\* The availability is PUT whatever became of the status, and the events come after it.
AvailabilityPut ==
    /\ rpAt = "availability" /\ ToEvent(0)
    /\ UNCHANGED <<rpAlarm, rpFaulty, rpCounts, rpServer, rpHistory>>

\* post_log_event() swallows what goes wrong, and the next bit is next; a POST that failed
\* for the client may have reached the server.
EventPosted ==
    /\ rpAt = "event"
    /\ LET set == rpBit \in rpAlarm IN
       \/ /\ rpLog' = [rpLog EXCEPT ![rpBit] = set]
          /\ rpRepeated' = (rpRepeated \/ (rpBit \notin rpBehind /\ rpLog[rpBit] = set))
          /\ rpBehind' = rpBehind \ {rpBit}
       \/ /\ rpLog' \in {rpLog, [rpLog EXCEPT ![rpBit] = set]}
          /\ rpBehind' = rpBehind \cup {rpBit} /\ UNCHANGED rpRepeated
    /\ ToEvent(rpBit)
    /\ UNCHANGED <<rpAlarm, rpFaulty, rpCounts, rpStatus, rpPut>>

\* The client is stopped, at any point of the round, and a new one starts with no previous
\* alarm: what the log says is set is raised again, or was cleared in between and never is.
RpRestarted ==
    /\ rpRestarts < RpRestarts
    /\ rpRestarts' = rpRestarts + 1
    /\ rpAt' = "sleep" /\ rpBit' = 0 /\ rpPrevious' = {}
    /\ rpLog' \in {rpLog} \cup IF rpAt = "event"
                              THEN {[rpLog EXCEPT ![rpBit] = rpBit \in rpAlarm]} ELSE {}
    /\ rpBehind' = rpBehind \cup {b \in Bits : rpLog[b] \/ rpLog'[b] \/ b = rpBit}
    /\ rpStatus' \in PutOrNot /\ rpPut' = (rpPut /\ rpAt # "status")
    /\ UNCHANGED <<rpAlarm, rpFaulty, rpRounds, rpRepeated>>

RpNext == Report \/ RoundFails \/ StatusPut \/ AvailabilityPut \/ EventPosted \/ RpRestarted

-----------------------------------------------------------------------------

\* Between rounds the log of the server tells of every bit what the client last saw of it,
\* but for the bits whose last event was lost or that were set before a restart: whatever
\* rounds failed half-way, a change is told later rather than never.
LogInStep == rpAt = "sleep" => \A b \in Bits \ rpBehind : rpLog[b] = (b \in rpPrevious)

\* No event is posted twice, and none without a change of its bit.
EventsAlternate == ~rpRepeated

\* An alarm that the log tells of is in the status of the server or a later status was lost;
\* and no alarm is shown there without FAULT.
StatusAndLogAgree ==
    /\ rpStatus.alarm # {} => rpStatus.faulty
    /\ rpAt = "sleep" /\ rpPut /\ rpAlarm = rpPrevious =>
           \A b \in Bits \ rpBehind : rpLog[b] = (b \in rpStatus.alarm)

ReportingSafe == LogInStep /\ EventsAlternate /\ StatusAndLogAgree
=============================================================================
