---------------------------- MODULE PowerControl ----------------------------
(***************************************************************************)
(* The path of every power command to the PCS: SafePowerController         *)
(* (power_control.py) in front of ModbusPowerWriter (power_writer.py) in   *)
(* front of ModbusBMSClient.write_register (modbus_client.py), with the    *)
(* process-wide EmergencyStop flag that any thread may raise.              *)
(*                                                                         *)
(* A requester is a coroutine with at most one call in flight.  A call is  *)
(* cut at every point where another coroutine or thread can run: after     *)
(* each look at the flag and at each await.  The Modbus device is a single *)
(* register P_SET (signed 16 bit, unit 0.1 kW); a reply may be lost after  *)
(* the device has applied the write.  ModbusPowerWriter._current_power_w,  *)
(* which the program writes and never reads, is left out.                  *)
(***************************************************************************)
EXTENDS Integers

CONSTANTS
    Requesters,     \* coroutines that call the controller
    Powers,         \* the set-points (W) they ask for
    SocReadings,    \* the SOC values (%) reported to the controller
    MaxCharge,      \* PowerLimits.max_charge_w
    MaxDischarge,   \* PowerLimits.max_discharge_w
    MinSoc,         \* PowerLimits.min_soc_percent
    MaxSoc,         \* PowerLimits.max_soc_percent
    Mode,           \* ControlMode: "dry_run" or "production"
    HasWriter,      \* whether a ModbusPowerWriter was injected
    MaxRetries,     \* ModbusPowerWriterConfig.max_retries
    BusRetries,     \* ModbusBMSClient._read_max_retries
    Nobody          \* the bus lock is free

ASSUME PowersAssumption == Powers \subseteq Int
ASSUME SocAssumption == SocReadings \subseteq 0..100
ASSUME LimitsAssumption ==   \* PowerLimits.__post_init__
    /\ MaxCharge \in Nat /\ MaxDischarge \in Nat
    /\ MinSoc \in 0..100 /\ MaxSoc \in 0..100 /\ MinSoc < MaxSoc
ASSUME ModeAssumption == Mode \in {"dry_run", "production"} /\ HasWriter \in BOOLEAN
ASSUME RetriesAssumption == MaxRetries \in Nat \ {0} /\ BusRetries \in Nat \ {0}
ASSUME NobodyAssumption == Nobody \notin Requesters

VARIABLES
    stopped,        \* EmergencyStop._stopped
    soc,            \* SafePowerController._current_soc
    connected,      \* the PCS client still has its connection
    lock,           \* ModbusBMSClient._lock: its holder or Nobody
    pset,           \* the device register P_SET, as the 16-bit code it holds
    pc,             \* where each requester's call stands
    req,            \* the call: operation and power
    attempt,        \* write_power_to_modbus: attempts already failed
    busTry,         \* write_register: transactions already failed
    result,         \* what the call reports
    delivered       \* history: last code this call put in a device register

device == <<lock, pset, delivered>>
call == <<req, attempt, busTry, result>>
vars == <<stopped, soc, connected, lock, pset,
          pc, req, attempt, busTry, result, delivered>>

-----------------------------------------------------------------------------
(***************************************************************************)
(* Values.                                                                 *)
(***************************************************************************)
Production == Mode = "production"

NoSoc == -1         \* current_soc is None
NoDelivery == -1    \* the call has written nothing yet

RegisterRange == 65536
Codes == 0..(RegisterRange - 1)

\* int(power_w * 0.01): watts to units of 0.1 kW, truncated towards zero.
ToUnits(p) == IF p >= 0 THEN p \div 100 ELSE -((-p) \div 100)

\* Mutants of RegisterOf: the mask left out; the sign left out.
RegisterUnmasked(p) == ToUnits(p)
RegisterUnsigned(p) == ToUnits(IF p < 0 THEN -p ELSE p) % RegisterRange

\* register_value & 0xFFFF: the code that goes on the wire.
RegisterOf(p) == ToUnits(p) % RegisterRange

\* What the device makes of a code: a signed 16-bit number of 0.1 kW, in watts.
Decode(c) == 100 * (IF 2 * c < RegisterRange THEN c ELSE c - RegisterRange)

PcsOnPulse == 1

Requests == [op : {"set"}, power : Powers] \cup
            [op : {"disconnect", "reconnect"}, power : {0}]

IdleRequest == [op |-> "none", power |-> 0]

\* The code a request writes: the set-point, or the pulse on PCS_ON.
CodeOf(q) == IF q.op = "reconnect" THEN PcsOnPulse ELSE RegisterOf(q.power)

Results == {"none", "blocked", "rejected", "simulated", "no_writer",
            "executed", "aborted", "failed"}

\* Mutant: only the SOC is looked at when discharging.
ValidWithoutDischargeLimit(p, s) ==
    /\ p < 0 => -p <= MaxCharge /\ (s = NoSoc \/ s < MaxSoc)
    /\ p > 0 => s = NoSoc \/ s > MinSoc

\* validate() returns no error for power p at state of charge s.
Valid(p, s) ==
    /\ p < 0 => -p <= MaxCharge /\ (s = NoSoc \/ s < MaxSoc)
    /\ p > 0 => p <= MaxDischarge /\ (s = NoSoc \/ s > MinSoc)

WithinLimits(p) == -MaxCharge <= p /\ p <= MaxDischarge

-----------------------------------------------------------------------------
\* P_SET survives a restart of the program: it starts with whatever an earlier
\* run under the same limits left there.  The connection may have failed.
Init ==
    /\ stopped = FALSE
    /\ soc = NoSoc
    /\ connected \in BOOLEAN
    /\ lock = Nobody
    /\ pset \in {0} \cup {RegisterOf(p) : p \in {q \in Powers : WithinLimits(q)}}
    /\ pc = [r \in Requesters |-> "idle"]
    /\ req = [r \in Requesters |-> IdleRequest]
    /\ attempt = [r \in Requesters |-> 0]
    /\ busTry = [r \in Requesters |-> 0]
    /\ result = [r \in Requesters |-> "none"]
    /\ delivered = [r \in Requesters |-> NoDelivery]

GoTo(r, label) == pc' = [pc EXCEPT ![r] = label]

Finish(r, outcome) ==
    /\ GoTo(r, "done")
    /\ result' = [result EXCEPT ![r] = outcome]

-----------------------------------------------------------------------------
(***************************************************************************)
(* SafePowerController: set_power_setpoint, disconnect_pcs, reconnect_pcs. *)
(***************************************************************************)
Call(r) ==
    /\ pc[r] = "idle"
    /\ \E q \in Requests : req' = [req EXCEPT ![r] = q]
    /\ GoTo(r, "entry")
    /\ UNCHANGED <<stopped, soc, connected, attempt, busTry, result, device>>

\* The first look at the flag; reconnect_pcs does not take it.
Enter(r) ==
    /\ pc[r] = "entry"
    /\ IF stopped /\ req[r].op # "reconnect"
       THEN Finish(r, "blocked")
       ELSE GoTo(r, "route") /\ UNCHANGED result
    /\ UNCHANGED <<stopped, soc, connected, req, attempt, busTry, device>>

\* Mutant: the control mode is not looked at.
RouteIgnoringMode(r) ==
    /\ pc[r] = "route"
    /\ IF req[r].op = "set" /\ ~Valid(req[r].power, soc)
          THEN Finish(r, "rejected")
       ELSE IF ~HasWriter
          THEN Finish(r, "no_writer")
       ELSE /\ GoTo(r, IF req[r].op = "reconnect" THEN "submit" ELSE "precheck")
            /\ UNCHANGED result
    /\ UNCHANGED <<stopped, soc, connected, req, attempt, busTry, device>>

\* Validation of a set-point, then DRY_RUN and the missing writer, which both
\* end the call without touching the PCS.
Route(r) ==
    /\ pc[r] = "route"
    /\ IF req[r].op = "set" /\ ~Valid(req[r].power, soc)
          THEN Finish(r, "rejected")
       ELSE IF ~Production
          THEN Finish(r, "simulated")
       ELSE IF ~HasWriter
          THEN Finish(r, "no_writer")
       ELSE /\ GoTo(r, IF req[r].op = "reconnect" THEN "submit" ELSE "precheck")
            /\ UNCHANGED result
    /\ UNCHANGED <<stopped, soc, connected, req, attempt, busTry, device>>

\* The double check just before the writer is called.
PreWriteCheck(r) ==
    /\ pc[r] = "precheck"
    /\ IF stopped
       THEN Finish(r, "blocked")
       ELSE GoTo(r, "attempt") /\ UNCHANGED result
    /\ UNCHANGED <<stopped, soc, connected, req, attempt, busTry, device>>

\* The caller takes the PowerControlResult.
Return(r) ==
    /\ pc[r] = "done"
    /\ GoTo(r, "idle")
    /\ req' = [req EXCEPT ![r] = IdleRequest]
    /\ attempt' = [attempt EXCEPT ![r] = 0]
    /\ busTry' = [busTry EXCEPT ![r] = 0]
    /\ result' = [result EXCEPT ![r] = "none"]
    /\ delivered' = [delivered EXCEPT ![r] = NoDelivery]
    /\ UNCHANGED <<stopped, soc, connected, lock, pset>>

-----------------------------------------------------------------------------
(***************************************************************************)
(* ModbusPowerWriter: write_power_to_modbus and reconnect.                 *)
(***************************************************************************)
\* Mutants: an attempt without the guard; a stop between two attempts reported
\* like one before the first.
BeginUnguarded(r) ==
    /\ pc[r] = "attempt"
    /\ GoTo(r, "submit")
    /\ UNCHANGED <<stopped, soc, connected, req, attempt, busTry, result, device>>

BlockedWhileRetrying(r) ==
    /\ pc[r] = "attempt"
    /\ IF stopped
       THEN Finish(r, "blocked")
       ELSE GoTo(r, "submit") /\ UNCHANGED result
    /\ UNCHANGED <<stopped, soc, connected, req, attempt, busTry, device>>

\* The guard at the head of each attempt.
BeginAttempt(r) ==
    /\ pc[r] = "attempt"
    /\ IF stopped
       THEN Finish(r, "aborted")
       ELSE GoTo(r, "submit") /\ UNCHANGED result
    /\ UNCHANGED <<stopped, soc, connected, req, attempt, busTry, device>>

\* Mutant: a set-point is tried again for ever.
AttemptFailedTriedForEver(r) ==
    /\ GoTo(r, "attempt")
    /\ busTry' = [busTry EXCEPT ![r] = 0]
    /\ UNCHANGED <<attempt, result>>

\* write_register returned False or raised: a set-point is tried again while
\* attempts are left, the pulse of reconnect never is.
AttemptFailed(r) ==
    LET again == req[r].op # "reconnect" /\ attempt[r] + 1 < MaxRetries
    IN  /\ attempt' = [attempt EXCEPT ![r] = IF again THEN @ + 1 ELSE @]
        /\ busTry' = [busTry EXCEPT ![r] = 0]
        /\ IF again
           THEN GoTo(r, "attempt") /\ UNCHANGED result
           ELSE Finish(r, "failed")

\* After the read-back, whose value is only logged.
Commit(r) ==
    /\ pc[r] = "verify"
    /\ Finish(r, "executed")
    /\ UNCHANGED <<stopped, soc, connected, req, attempt, busTry, device>>

-----------------------------------------------------------------------------
(***************************************************************************)
(* ModbusBMSClient.write_register.                                         *)
(***************************************************************************)
Submit(r) ==
    /\ pc[r] = "submit"
    /\ IF connected
       THEN GoTo(r, "wait") /\ UNCHANGED <<attempt, busTry, result>>
       ELSE AttemptFailed(r)
    /\ UNCHANGED <<stopped, soc, connected, req, device>>

Acquire(r) ==
    /\ pc[r] = "wait"
    /\ lock = Nobody
    /\ lock' = r
    /\ GoTo(r, "bus")
    /\ UNCHANGED <<stopped, soc, connected, pset, call, delivered>>

\* The device takes the code of r's request; only P_SET is kept as state.
Deliver(r) ==
    /\ delivered' = [delivered EXCEPT ![r] = CodeOf(req[r])]
    /\ pset' = IF req[r].op = "reconnect" THEN pset ELSE CodeOf(req[r])

NotDelivered == UNCHANGED <<pset, delivered>>

\* The device answers: the lock is released and the call goes on.
TransactionOk(r) ==
    /\ pc[r] = "bus" /\ connected
    /\ Deliver(r)
    /\ lock' = Nobody
    /\ busTry' = [busTry EXCEPT ![r] = 0]
    /\ IF req[r].op = "reconnect"
       THEN Finish(r, "executed")
       ELSE GoTo(r, "verify") /\ UNCHANGED result
    /\ UNCHANGED <<stopped, soc, connected, req, attempt>>

\* Mutant: the transaction is repeated under the lock until it succeeds.
RepeatUntilAnswered(r) ==
    /\ pc[r] = "bus" /\ connected
    /\ Deliver(r) \/ NotDelivered
    /\ busTry' = [busTry EXCEPT ![r] = (@ + 1) % BusRetries]
    /\ UNCHANGED <<stopped, soc, connected, lock, pc, req, attempt, result>>

\* An error response or a lost reply: the write may have been applied.  It is
\* repeated under the lock, without another look at the flag.
TransactionError(r) ==
    /\ pc[r] = "bus" /\ connected
    /\ Deliver(r) \/ NotDelivered
    /\ IF busTry[r] + 1 < BusRetries
       THEN /\ busTry' = [busTry EXCEPT ![r] = @ + 1]
            /\ UNCHANGED <<lock, pc, attempt, result>>
       ELSE lock' = Nobody /\ AttemptFailed(r)
    /\ UNCHANGED <<stopped, soc, connected, req>>

\* The client was disconnected while the call waited for the lock: using the
\* client that is gone raises, which is not a ModbusException to retry here.
TransactionLost(r) ==
    /\ pc[r] = "bus" /\ ~connected
    /\ NotDelivered
    /\ lock' = Nobody
    /\ AttemptFailed(r)
    /\ UNCHANGED <<stopped, soc, connected, req>>

-----------------------------------------------------------------------------
(***************************************************************************)
(* The rest of the program.                                                *)
(***************************************************************************)
\* Mutant: the cancelled task keeps the lock.
CancelKeepingLock(r) ==
    /\ pc[r] = "bus"
    /\ GoTo(r, "idle")
    /\ req' = [req EXCEPT ![r] = IdleRequest]
    /\ attempt' = [attempt EXCEPT ![r] = 0]
    /\ busTry' = [busTry EXCEPT ![r] = 0]
    /\ UNCHANGED <<stopped, soc, connected, result, device>>

\* A stop of the client cancels the caller's task at an await; a transaction
\* that was under way may or may not have reached the device.
CancelTask(r) ==
    /\ pc[r] \in {"wait", "bus", "verify"} \/ (pc[r] = "attempt" /\ attempt[r] > 0)
    /\ pset' = pset \/ (pc[r] = "bus" /\ connected /\ req[r].op # "reconnect"
                        /\ pset' = CodeOf(req[r]))
    /\ lock' = IF lock = r THEN Nobody ELSE lock
    /\ GoTo(r, "idle")
    /\ req' = [req EXCEPT ![r] = IdleRequest]
    /\ attempt' = [attempt EXCEPT ![r] = 0]
    /\ busTry' = [busTry EXCEPT ![r] = 0]
    /\ delivered' = [delivered EXCEPT ![r] = NoDelivery]
    /\ UNCHANGED <<stopped, soc, connected, result>>

\* EmergencyStop.trigger from any thread (ExternalIntegrationAPI.emergency_stop).
Trigger ==
    /\ stopped' = TRUE
    /\ UNCHANGED <<soc, connected, pc, call, device>>

\* ModbusPowerWriter.emergency_stop: the flag and the writer's own record of
\* the power, nothing on the wire.
WriterEmergencyStop ==
    /\ stopped' = TRUE
    /\ UNCHANGED <<soc, connected, pc, call, device>>

\* EmergencyStop.reset_by_server.
ResetByServer ==
    /\ stopped
    /\ stopped' = FALSE
    /\ UNCHANGED <<soc, connected, pc, call, device>>

UpdateCurrentState ==
    /\ soc' \in SocReadings
    /\ UNCHANGED <<stopped, connected, pc, call, device>>

\* BMSClient._stop disconnects the PCS client, which needs the lock.
Disconnect ==
    /\ connected /\ lock = Nobody
    /\ connected' = FALSE
    /\ UNCHANGED <<stopped, soc, pc, call, device>>

Step(r) ==
    \/ Enter(r) \/ Route(r) \/ PreWriteCheck(r)
    \/ BeginAttempt(r) \/ Submit(r) \/ Acquire(r)
    \/ TransactionOk(r) \/ TransactionError(r) \/ TransactionLost(r)
    \/ Commit(r)

Environment ==
    \/ Trigger \/ WriterEmergencyStop \/ ResetByServer
    \/ UpdateCurrentState \/ Disconnect

Next ==
    \/ \E r \in Requesters : Call(r) \/ Step(r) \/ Return(r) \/ CancelTask(r)
    \/ Environment

Spec == Init /\ [][Next]_vars

\* A coroutine that can run does run.  asyncio.Lock wakes its waiters in the
\* order they came, so a waiter is not passed over for ever.
FairSpec ==
    /\ Spec
    /\ \A r \in Requesters : WF_vars(Step(r)) /\ SF_vars(Acquire(r))

-----------------------------------------------------------------------------
(***************************************************************************)
(* Properties.                                                             *)
(***************************************************************************)
\* The values the variables range over.
TypeOK ==
    /\ stopped \in BOOLEAN
    /\ soc \in SocReadings \cup {NoSoc}
    /\ connected \in BOOLEAN
    /\ lock \in Requesters \cup {Nobody}
    /\ pset \in Codes
    /\ pc \in [Requesters -> {"idle", "entry", "route", "precheck", "attempt",
                              "submit", "wait", "bus", "verify", "done"}]
    /\ req \in [Requesters -> Requests \cup {IdleRequest}]
    /\ attempt \in [Requesters -> 0..(MaxRetries - 1)]
    /\ busTry \in [Requesters -> 0..(BusRetries - 1)]
    /\ result \in [Requesters -> Results]
    /\ delivered \in [Requesters -> Codes \cup {NoDelivery}]

\* Whatever the interleaving of callers, retries, lost replies, cancelled tasks
\* and restarts, the power the device is told to hold is within the configured
\* limits (SafePowerController: every request is validated).
SetpointWithinLimits == WithinLimits(Decode(pset))

\* r's call has passed the last guard of write_power_to_modbus.
PastGate(r) == pc[r] \in {"submit", "wait", "bus"} /\ req[r].op # "reconnect"

\* What a finished call reports is what happened on the wire: an executed call
\* delivered its own value, and a call that was blocked, rejected, simulated or
\* had no writer delivered nothing (PowerControlResult.executed).
ReportMatchesDevice ==
    \A r \in Requesters : pc[r] = "done" =>
        /\ result[r] = "executed" => delivered[r] = CodeOf(req[r])
        /\ result[r] \in {"blocked", "rejected", "simulated", "no_writer"}
              => delivered[r] = NoDelivery

\* While the emergency stop is on no further command passes the guard, retries
\* of commands that were already failing included, and once those that had
\* passed it are over P_SET does not move (write_power_to_modbus re-checks the
\* flag before every attempt).
EmergencyStopHolds ==
    [][stopped =>
         /\ \A r \in Requesters : PastGate(r)' => PastGate(r)
         /\ (\A r \in Requesters : ~PastGate(r)) => pset' = pset]_vars

\* In DRY_RUN no call moves P_SET or delivers anything.
DryRunNeverWrites ==
    [][~Production => pset' = pset /\ delivered' = delivered]_vars

\* The write lock is held by exactly the call that is on the bus, so two
\* transactions never overlap and a cancelled task never keeps the lock.
BusExclusive == \A r \in Requesters : pc[r] = "bus" <=> lock = r

\* The parts that make the invariants above inductive.  A set-point past the
\* validation is within the limits, zero included;
ValidatedPastRoute ==
    \A r \in Requesters :
        pc[r] \in {"precheck", "attempt", "submit", "wait", "bus", "verify"}
            => req[r].op = "reconnect" \/ WithinLimits(req[r].power)

\* nothing is delivered before the first transaction, and a call that has its
\* answer has delivered its own code.
DeliveryMatchesStage ==
    \A r \in Requesters :
        /\ pc[r] \in {"idle", "entry", "route", "precheck"} => delivered[r] = NoDelivery
        /\ pc[r] = "verify" => delivered[r] = CodeOf(req[r])

Safety ==
    /\ SetpointWithinLimits /\ ReportMatchesDevice /\ BusExclusive
    /\ ValidatedPastRoute /\ DeliveryMatchesStage

\* An emergency stop that stays on leaves the bus quiet: the commands already
\* past the guard end in bounded time.
EmergencyStopQuiesces ==
    stopped ~> (~stopped \/ \A r \in Requesters : ~PastGate(r))

\* Every call gets an answer, whatever the device does.
EveryCallEnds ==
    \A r \in Requesters : pc[r] = "entry" ~> pc[r] \in {"done", "idle"}

\* The set-point the device makes of an executed call is the requested one, to
\* the resolution of the register.
SetpointDelivered ==
    \A r \in Requesters :
        pc[r] = "done" /\ result[r] = "executed" /\ req[r].op # "reconnect"
            => Decode(delivered[r]) = 100 * ToUnits(req[r].power)
=============================================================================
