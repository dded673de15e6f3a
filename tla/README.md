# A verification of the BMS IEEE 2030.5 client

The program under `src/src/bms_2030_5_client/` connects a battery (a BMS and its power conversion
system, PCS, over Modbus) to an IEEE 2030.5 server. The server publishes *DERControls*: "between
these times hold 50 kW", "disconnect". The client polls them, decides which one applies, commands
the PCS and reports to the server what it did. Around this control path run the tasks that measure,
report and subscribe, the stores that survive a restart, and a web interface that starts and stops it
all. This directory holds TLA+ models of the control path and of what runs around it, TLC instances
that check them, and proofs checked by TLAPS. Paths below are relative to
`src/src/bms_2030_5_client/`.

## 1. Inventory

### 1.1 The control path

| Part | State | Operations | Interacts with |
|---|---|---|---|
| `EmergencyStop` (`power_control.py`) | the process-wide flag `_stopped`, behind a `threading.Lock` | `trigger`, `is_stopped`, `reset_by_server` | anyone, on any thread |
| `SafePowerController` (`power_control.py`) | control mode, limits, SOC last reported | `set_power_setpoint`, `disconnect_pcs`, `reconnect_pcs`, `update_current_state` | `ModbusPowerWriter`; called by the handler and by `DERClient` |
| `ModbusPowerWriter` (`modbus/power_writer.py`) | a power that is written and never read | `write_power_to_modbus` (retries, a look at the flag before each), `disconnect`, `reconnect`, `emergency_stop` | `ModbusBMSClient` |
| `ModbusBMSClient` (`modbus/modbus_client.py`) | the connection, `_lock` | `write_register` (retries under the lock), `disconnect` | the device |
| `DERControlHandler` (`dera/handler.py`) | `_events`, `_active_event`, `_default_der_control`, `_event_lock` | `handle_control`, `handle_control_list`, `cancel_control`, `set_default_der_control`, the tick of `_scheduler_loop` | `SafePowerController`, `EmergencyStop` |
| `DERClient` (`dera/der_client.py`) | `_tracked_fsa`, `_tracked_programs`, `_tracked_controls`, `_processed_mRIDs`, `_cancelled_mRIDs`, `_active_by_mode`, `_active_default`, a pending response per control | three asyncio tasks: `_fsa_poll_loop`, `_control_poll_loop`, `_scheduler_loop` | the server (GET, POST), the handler, the controller |

What is hard about them, and what makes each correct:

* **Power path.** A stop may come from another thread between any two statements. A reply may be lost
  after the device has applied the write, and there are retries around retries. Tasks are cancelled
  inside a transaction. Powers are scaled, truncated and masked to 16 bits. *Correct*: the register
  never exceeds the limits; no command passes the gate while the stop is on; answers are true; the
  bus is used by one call at a time; calls end.
* **Handler.** One lock is held across the awaits of a power command; the event in force is replaced
  before the command for set-points and after it for disconnections; a failing command may have been
  applied; events are evicted. *Correct*: the event in force that counts as completed is the one the
  PCS obeys, no other counts as completed, and what is due is executed.
* **Client.** Three tasks interleave at every await over the same dictionaries: a status is read, an
  HTTP request is awaited, and a status is written. *Correct*: each control is executed once, what
  the server is told happened and comes in the order of the protocol, higher priority wins,
  cancellations are seen, executions end.

### 1.2 What runs around it

| Part | State and operations | What is hard | What makes it correct |
|---|---|---|---|
| `TaskSupervisor` (`task_supervisor.py`) | states and restart counts of tasks; a monitor; `start_all`, `stop_all` | the back-off of one task delays the others; a stop during a back-off | a stopped supervisor is quiet, no task runs twice, crashes are handled |
| `BMSClient` (`client.py`, `main.py`) | what is open; two supervised loops, each with failures and a reconnection | a start that fails or is cancelled half-way; two loops that reconnect over each other; a stop in between | a stop closes everything and ends; the HTTP client in use is not a closed one |
| cycle count, `CycleStorage` (`client.py`, `cycle_storage.py`) | a count with its accumulated charge and discharge; file, temporary file, backup | a crash between two steps of a save; a damaged file | the record is balanced; what a save wrote to both files survives |
| metering (`client.py`, `db/`, `ieee2030_5/client.py`) | the MUP, its readings' mRIDs, both cached in the database | four layers of recovery that clear and refill the same caches; outages in the middle of each | readings belong to the MUP; uploads recover |
| registration (`client.py`, `db/client_wrapper.py`) | EndDevice and DER, in memory, in SQLite and on the server | lost answers, rows that cannot be written, crashes between request and row, a cleared database, a reset server | no more registrations than the code's error paths account for; what is cached exists |
| reporting (`client.py`, `ders/adapter.py`) | the alarms of the last round | a round that stops half-way; a lost event; a restart | the log on the server is in step with the alarms |
| `BMSDataCollector` (`modbus/modbus_client.py`) | the connection's health, failures, back-off | three branches that count failures and set the health | the health is true; the collector recovers |
| `DERControlPoller`, `DERControlIntegration` (`dera/poller.py`) | marks of processed controls | a cancelled handling, a failing callback, marks that are evicted | no control is handed over again while it is marked |
| `subs.SubscriptionManager` (`subs/manager.py`) | a life cycle per subscription; renewal by delete and create | half-done renewals, lost answers, reloads | no subscription on the server is forgotten |
| `subscription.SubscriptionManager` (`subscription/subscription_manager.py`) | subscriptions of assignments, programs and controls | notifications that change the set while it is being changed | the same |
| `NotificationHandler`, `NotificationServer` (`subscription/`) | counters; one task per request | a stop in the middle of requests | every request and every control is accounted for |
| `ExternalIntegrationAPI` (`external_api.py`) | a mailbox of one command, acknowledgements, timeouts | commands replaced while executed, late acknowledgements, acknowledgements of failures | a success that was acknowledged was executed |
| `PollingWorker` with `SepClient` (`polling/worker.py`, `core/sep_client.py`) | a thread with its loop and clients; targets | stop while starting; a page that shows anything | what is shown as running runs; what is shown as written is in the register, outside simulation |
| `ModbusWriter`, `ModbusRegisterWriter` (`modbus/`) | a connection, a lock | scaling, rounding, limits, words; a connection closed while a write waits; a simulation mode | outside simulation, success means that the device holds the value |
| `ClientManager`, `WorkerManager`, the control requests (`web/`) | a state and a thread each, no lock held across steps | requests and threads overwrite each other's state, and a stop raises when the thread ends under it; files that are no configuration | the state shown has a thread behind it; a stop stops; a reload reaches every part |
| recorders (`web/der_control_history.py`, `web/data_recorder.py`) | bounded lists with an index | eviction, repeated identifiers, clearing while recording | updates reach the newest record; what is shown is tracked |
| configuration (`runtime_config.py`, `config.py`, `cli/unlock_production.py`) | two file formats, a lock file bound to host and token | any order of saving, editing, copying, unlocking and revoking | nothing controls the PCS that was not unlocked; rewriting keeps the meaning |

### 1.3 How the parts interact

`ClientManager` or `WorkerManager` starts one `BMSClient` in a thread. It registers with the server,
starts the collector, and hands its reporting and metering loops to `TaskSupervisor`. In polling mode
it starts `DERClient`, in push mode the notification server and the subscription manager; either hands
controls to `DERControlHandler`, which is the only one to command the power path. `PollingWorker` and
the subscription manager of `subs/` belong to the web interface and share nothing with `BMSClient` but
the configuration file. The external program of `ExternalIntegrationAPI` bypasses the handler; what
the two share is the emergency stop and the state of charge.

## 2. Plan

Done, the most dangerous part first:

1. `PowerControl`, `PowerService`, `PowerControlRefines` with their proofs: the path of a command to
   the register, what it promises, and that the first implements the second.
2. `DERControlHandler`, which extends `PowerService`: the handler over what the power path promises,
   not over its details; the refinement is what allows that. `DERControlHandler_proofs` shows the
   handler's own promises and, the other half of the argument, that it uses the service as it is meant
   to be used.
3. `DERClient`, which extends `DERControlHandler`: its tasks call the handler's own actions.
   `DERClient_proofs` shows the promises of the client, and that those of the handler and of the power
   service hold under it. `ControlLife` is a control's life as the server may understand it,
   `DERClientRefines` the mapping, and that the client implements it is proved, too.
4. The parts of section 1.2, each a module of its own with its hazards as properties, and
   `BMSClient` over the actions of `TaskSupervisor`. `MCOperations` checks them. All their safety
   properties are proved: in `BMSClient_proofs` (the client and its supervisor), `Server_proofs` (what
   is exchanged with the server), `Device_proofs` (what goes to and comes from the device) and
   `Web_proofs` (managers, pages, configuration); and of their composition in `Operations_proofs`.

To do:

5. An abstract specification of the handler (a register with the control in force, which is replaced,
   cancelled or lost), implemented by `DERControlHandler`.
6. Composition of push mode with the handler: `NotificationPush` beside `DERControlHandler` as a further
   requester, and `DERClient`'s assignments beside `SubscriptionChain`.

## 3. The modules

### 3.1 PowerControl

A *requester* is a coroutine with at most one call in flight. A call is cut where another coroutine or
thread can run: after each look at the flag and at each await. `pc` says where it stands.

| `pc` | Code | Action |
|---|---|---|
| idle | no call | `Call` |
| entry | first look at the flag, `set_power_setpoint` and `disconnect_pcs` | `Enter` |
| route | validation, DRY_RUN, no writer | `Route` |
| precheck | second look at the flag ("double-check") | `PreWriteCheck` |
| attempt | third look, before every attempt of `write_power_to_modbus` | `BeginAttempt` |
| submit, wait | `connected`, `async with self._lock` | `Submit`, `Acquire` |
| bus | one transaction; its reply is ok, an error, or the exception of a client that was closed | `TransactionOk`, `TransactionError`, `TransactionLost` |
| verify | the read-back, whose value is only logged | `Commit` |
| done | the answer | `Return` |

`CancelTask` is the cancellation of the coroutine at any await, which releases the lock it holds. The
environment raises the flag (`Trigger`, `WriterEmergencyStop`), lowers it (`ResetByServer`), reports a
state of charge (`UpdateCurrentState`) and closes the connection (`Disconnect`).

Data: powers are watts, the register is a 16-bit code, `ToUnits` truncates towards zero as `int()`
does, `RegisterOf` masks as `& 0xFFFF` does, and `Decode` is what a signed register makes of it.
A transaction that fails may have been applied: the device's reply was lost. `delivered` is a history
variable; nothing in a guard reads it. Not modelled: `validate_ramp_rate` (never called),
`set_power_percent` and `PCSPowerAdapter` (unused), the read-back's own transaction (it only delays).

### 3.2 PowerService and PowerControlRefines

The abstract service has one gate and a register: `Pass` is possible only while the stop is off (the
pulse of `reconnect_pcs` passes always), only commands past the gate touch `pset`, and with their own
value; a call that succeeds has delivered its value, one that fails may have; in DRY_RUN nothing
passes. A caller may lift the stop as it calls: `reset_by_server` stands directly before `reconnect_pcs`
in the handler, without an await in between. `PowerControlRefines` gives the mapping: the stage of a call from `pc` and `result`, the
command from `req`, and `wrote` from `delivered`.

### 3.3 DERControlHandler

`events` is the sequence of all DERControlEvents that were made; `tracked` is the dictionary `_events`
from event ids to them; `active` is `_active_event`. Event ids may come again: a control that is handled
again replaces its event in the dictionary, but an old one may still be `_active_event`. `lock` is
`_event_lock`, and `pc[t]` says which operation its holder is in. `Branch` is the order of tests in
`_execute_control`: reconnect and energize first, then the emergency stop, disconnection,
de-energization, the set-point. `Execute` begins an event's command, `PowerReturned` is what follows
its answer, `Conclude` ends the operation (tracking, `_cleanup_old_events`, releasing the lock, or the
next event of a tick). Time is the window of each scheduled event: future, open or past.

Left out: the callback (a log and the web page's history), the retention time of finished events (the
eviction by number is in `CleanedUp`, with every choice among events of the same second), XML.

### 3.4 DERClient

`at[t]` is the await at which a task stands; `frame[t]` holds the local variables that survive it.
Between two awaits asyncio runs one task only: labels in `Running` are no awaits, and while a task
stands at one of them no other runs.

| Code | Actions |
|---|---|
| `_control_poll_loop`, `_poll_controls`, `_poll_program_controls` | `StartRound`, `PollProgram`, `Fetched`, `ProcessNext`, `EndRound` |
| `_process_control` | `ProcessKnown`, `ProcessNew`, `FutureReported`, `ExpiryReported` |
| `_execute_control` | `ExecuteControl`, `LossReported`, `ReceivedReported`, `StartedReported`, `CallHandler`, `HandlerReturned`, `CompletedReported` |
| `_resolve_conflict` | `ResolveConflict`, `SupersededReported` |
| `_cancel_all_active_controls` | `SweepModes`, `SweptModeReported`, `SweepScheduled`, `SweptControlReported`, `SweepHandler`, `SweepCancelled` |
| `_handle_server_cancel`, `_cancel_control` | `CancelCall`, `CancelCallReturned`, `CancelReported` |
| `_check_default_control` | `CheckDefaultControl`, `DefaultReturned` |
| `_retry_pending_responses` | `RetryNext`, `Retried` |
| `_scheduler_loop` | `Tick`, `RunScheduled` |
| `_poll_fsa` and what it calls | `PollFsa`, `ProcessFsaPrograms`, `HandleFsaRemoved`, `UntrackProgram`, `CancelNext`, `UntrackReported`, `FsaPolled` |
| `_send_response` | `Post`: the server takes it, or it becomes pending |

Iterating over a dictionary that another task changes during an await raises in Python; `SweepRaises`
and the guard on `size` in `PollProgram` model that. The server lists, cancels and removes controls and
assignments, each once (`ServerStep`, `FsaChanges`), and each interval goes from future to open to past
(`AdvanceTime`). `sent`, `owed` and `handed` are history variables.

Left out: `opModFixedVar` and `opModMaxLimW` (they go through the same table of modes and the handler
does not command anything for them), randomisation (it moves the start of an interval and nothing
else), `max_programs`, the retention of `_processed_mRIDs` (1000), the change of an assignment's
version, the history for the web pages. All programs of one assignment are tracked in one step, with
their default controls.

`ControlLife` is the abstract specification: what has been said of each control, how often the device was
given it, and which were carried out with success. `Sayable` is its point: RECEIVED and STARTED are first said
in this order before the control is given, never after EXPIRED; EXPIRED is for what was neither started nor
given; COMPLETED is for what was carried out; what takes a control back may come at any time. `Give` happens once,
after STARTED. In `DERClientRefines`, *said* is what `_send_response` was called for, whether or not it
got through (`sent` and `owed`); *given* is `handed`; *carried out* is what the handler has an executed event
of that did not fail. A repeated response, and all the book-keeping of the tasks, are stutters.

### 3.5 The parts around the control path

Each is cut at its awaits, or, where threads share it, between any two accesses that no lock joins. Each
has its own environment: a server or device that comes and goes, answers that are lost, crashes.
Variables carry the prefix of their module. *Orderly* surroundings are a constant of a behaviour
(`cmOrderly` ...); a property that the code keeps only without certain
overlaps says so in its formula, and section 6 says what the overlaps do. The runs explore both kinds, but of
`SubscriptionChain` and `WebControl`, whose safety properties speak of orderly behaviours only, the orderly
ones; that the others keep their types is proved (section 7.4). Loops over a Python set, as those of
`SubscriptionChain` over assignments and programs, take its elements in any order.

| Module | Code | Actions | Left out |
|---|---|---|---|
| `TaskSupervisor` | `task_supervisor.py` | `StartAll`, `TaskEnds`, `MonitorWakes`, `BackoffOver`, `StopAll`, `StopNext` | the length of a back-off |
| `BMSClient`, over the actions of `TaskSupervisor` | `client.py`: `start`, `stop`, the loops, `_reconnect_ieee2030_5` | `BeginStart` to `ControlStarted`, `StartCancelled`, `BeginStop`, `StopLoop`, `StopStep`, `Round`, `CloseHttp`, `OpenHttp`, `HttpOpened`, `BackedOff`, `Rested` | what a round reports, which is in the next four |
| `Registration` | `client.py`, `db/client_wrapper.py`, `ieee2030_5/client.py` | `LoadCached`, `Validate`, `Find`, `Register`, `Located`, `SaveEndDevice` (with `SaveFails`), `ListDers`, `CreateDer`, `DerLocated`, `SaveDer`; `ClearAll`, `ServerReset`, `RgCrash` | the other columns |
| `Metering` | `client.py`: `_register_meter`, `_upload_meter_readings` and the layers of recovery | `MtStart`, `MtVerify`, `MtRecover`, `MtFill`, `MtCreate`, `MtDescribe`, `MtUpload`; `ServerLoses`, `ServerChanges`, `MtCrash` | measured values |
| `Reporting` | `client.py`, `ders/adapter.py`: one round of reports | `Report`, `RoundFails`, `StatusPut`, `AvailabilityPut`, `EventPosted`, `RpRestarted` | all of the status but alarms and fault |
| `CycleTracking` | `client.py`, `cycle_storage.py` | `CtLoad`, `CtSample`, `CtReplace`, `CtCopy`, `CtSaveFails`, `CtCrash`, `CtDamage` | the layout of the file |
| `Configuration` | `runtime_config.py`, `config.py`, `client.py`, `cli/unlock_production.py` | `ConfigSaved`, `Edited`, `Converted`, `UnlockAsked`, `UnlockAnswered`, `Revoked`, `Moved`, `WorkerStarts`, `ManagerStarts`, `ClientStops` | fields that nothing decides by |
| `DataCollector` | `modbus/modbus_client.py`: `BMSDataCollector` | `DcStart`, `DcRead`, `DcReadRaises`, `DcBackedOff`, `DcReconnected`, `DcRetry`, `DcConfirm`, `DcStop` | the data |
| `ControlPoller` | `dera/poller.py` | `CpStart`, `CpGot`, `CpHandled`, `CpHandlingRaises`, `CpCalledBack`, `CpWakes`, `CpStop`, `CpSchedulerStopped` | what the handler does |
| `SubscriptionSync` | `subs/manager.py` | `SbEnable`, `SbDisable`, `Created`, `DeleteReturned`, `SbStart`, `SbReload`, `SbContinue`, `SbStop`, `RnWakes`, `RnNext`, `RnDeleted`, `RnCreated` | simulation mode, a server that always answers |
| `SubscriptionChain` | `subscription/subscription_manager.py` | `ChSetup`, `ChCleanup`, `Subscribe`, `Unsubscribe`, `ListAnswered`, `ProgramsAnswered`, `FsaGone`, `Notified` ... | the renewal loop, which nobody starts |
| `NotificationPush` | `subscription/notification_handler.py`, `notification_server.py` | `NpStart`, `Request`, `BadRequest`, `ManagerNotified`, `ControlNotified`, `Executed`, `CalledBack`, `NpStop`, `Stopped` | the XML |
| `ExternalApi` | `external_api.py` | `SetPowerCommand`, `XaEmergencyStop`, `CancelCommand`, `GetPowerCommand`, `Execute`, `AcknowledgeCommand`, `ReportStatus`, `SetController` | the powers |
| `PollingWorker` | `polling/worker.py`: the thread | `PwStart`, `PwSpawn`, `PwStop`, `PwCheck`, `PwSignal`, `PwJoined`, `PwMakeLoop` ... `PwEnd` | intervals, which are due or not |
| `PolledTarget` | `polling/worker.py`, `core/sep_client.py`: one target | `PtDue`, `GetFails`, `GetReturns`, `WriteEnds`, `PtSetEnabled` | XPath, but for what it finds |
| `RegisterWriters` | `modbus/modbus_writer.py`, `register_writer.py` | `WriteRegister`, `WriteBegins`, `Connected`, `WriteReturns`, `CloseAsked`, `Closed` | 32-bit floats, the history of writes |
| `ClientManager`, `WorkerManager` | `web/client_manager.py`, `web/worker_manager.py` | requests (`CmStart`, `CmStop` ..., `WmStart`, `WmStop`, `WmCheck`, `WmSignal` ...) and threads (`CmThreadStep`, `WmGoesOn`, `WmWake`) | notification of callbacks |
| `WebControl` | `web/app.py`, `web/notification_server.py` | `Requested`, `WbSaved`, `WorkerActed`, `SubsActed`, `NotifyActed`, `Notification`, `Counted`, `StatusAsked`; of the worker's thread `WorkerReads`, `WorkerRuns`, `WorkerFails` | pages; the threads and joins of the worker, which are in `WorkerManager` |
| `Recorders` | `web/der_control_history.py`, `web/data_recorder.py` | `ControlReceived`, `StatusUpdated`, `ResourceRecorded`, `ResourceRemoved`, `RequestCounted`, `RackAppended`, `HistoryCleared`, `BuffersCleared` ... | the contents of records |

`MCOperations` extends them all. A behaviour exercises one part, named by `part`, and leaves the others as
they start: the parts share no variable but those of `TaskSupervisor` under `BMSClient`, so their
product would show nothing more.

## 4. The runs

Every run is exhaustive within its bounds.

| Run | Shows | Bounds |
|---|---|---|
| `PowerControl_production` | the limits, true answers, the exclusive bus, the encoding; that the stop holds against retries and quiets the bus; that calls end; that the path implements `PowerService` | two callers; a charge, a discharge at its limit and one beyond it; no SOC reported (only the validation looks at it); two attempts of two transactions |
| `PowerControl_dry_run` | a writer that is injected in DRY_RUN is never used | as above, with an SOC within and at both limits |
| `DERControlHandler_safety` | what counts as completed is what the PCS obeys, and only one event does | one caller and the scheduler, two events of all six kinds and of one that mixes two, with a default control, one remembered |
| `DERControlHandler_live` | what is due is executed | as above with set-points and a list |
| `DERClient_setpoints` | completed is true, the client implements `ControlLife` | two programs of different primacy, one set-point each, future or open; local stops |
| `DERClient_sweep` | executed once, never left ACTIVE | three controls of one program: set-point, disconnection, one of duration 0 |
| `DERClient_poll_task` | higher priority wins | two programs, open intervals only, so that the scheduler task executes nothing; requests fail, stops |
| `DERClient_assignments` | programs come from assignments, cancellations are seen, scheduled controls start, executions end | one assignment that comes and goes, one control that is cancelled or removed, a default control, DRY_RUN |
| `DERClient_race`, `DERClient_recovery` | the two divergences of section 6 that have a counterexample here | as `setpoints`, or one program |
| `Operations` | the safety properties of all parts of section 3.5 | below |
| `Operations_live` | crashes of supervised tasks are handled; reconnections and stops end; due targets are polled, the collector and the metering recover | the same, orderly where a behaviour may be either, one loss of the server |

Why the bounds of the control path are enough. Two callers are enough for one to come between two
steps of the other, and the waiters of a lock are alike. Two attempts tell "first", "again" and "last"
apart, which is all the loops test. In the handler a third event could only repeat what the second does to
the first: the state between two operations is the event in force and what is remembered. In the client
two controls meet in every pair of roles (executing, superseded, swept, scheduled, cancelled) and the third
in `sweep` makes the dictionary change during the sweep. `MaxEvents` caps how many events
the handler makes and `MaxTracked` how many it remembers; `Starts`, `Happenings` are the bounds on what
intervals may be at first and on what may happen around the client.

The bounds of `Operations` and, but for fewer losses and faults, of `Operations_live`:

| Constant | Value | Why it is enough |
|---|---|---|
| `MaxRestarts`, `Threshold`, `MaxAttempts` | 1 | below, at and past the limit are all reached; two tasks, which are all there are |
| `CmThreads`, `WmThreads`, `PwThreads` | two each | a thread that is old and one that is new; the third would be new to a second that is old |
| `UnstableThreshold`, `DegradedThreshold`, `MaxDelay` | 2, 3, 2 | the order of the code's thresholds, each a step of its own |
| `MaxSoc`, `Full`, `MaxCycles`, `MaxFaults` | 3, 2, 3, 3 | a failed copy, a crash and a damaged file in a row, around cycles of two units; the count grows for ever, so `MaxCycles` caps it |
| `Keys`, `RequiredKeys`, `PartialThreshold`, `MaxLosses` | two, one, 2, 2 | one reading the registration insists on and one it does not; two losses in a row, at any time |
| `SbIds`, `Hrefs` | one, two | subscriptions are independent; a renewed one has a new name |
| `ChFsas`, `ChNames`, `ChTasks`, `ChEvents` | two, one, one, 3 | one assignment stays while the other comes and goes |
| `CpControls`, `Retention`, `CpStops` | three, 2, 2 | one more control than is remembered |
| `XaCommands`, `History` | 2, 1 | a command replaces one; one falls out of the history |
| `HiIds`, `HiMax`, `HiRecords`, `HiThreads` | three, 1, 4, two | the index is cleaned at twice the maximum; a record may come again |
| `Devices`, `RgFaults`, `RgStarts` | three, 3, 3 | a fault at each of two starts and a third one in between |
| `WordSize`, `RwValues`, `RwCallers` | 4 (words of two bits), from -8 to 8, two | both limits of each type and the values beyond them; ties of the rounding |
| `PtNumbers`, `PtLimits`, `PtPolls` | three, [1, 2], 3 | below, within and above the limits |
| `WbThreads`, `WbSaves`, `WbRequests` | two, 1, 3 | an older and a newer configuration |
| `Tokens`, `Hosts`, `CfChanges` | two each, 2 | the right and a wrong token, this host and another |
| `NpTasks`, `NpRequests`, `NpStarts` | two, 3, 2 | two requests in flight while a third comes, is cut off, or follows a restart |
| `Racks`, `RpRounds`, `RpRestarts` | two, 3, 1 | two alarms in a round; set, lost and told later |

`CHECK_DEADLOCK FALSE` is set for the handler, the client and the parts because their bounded surroundings
do come to an end, after which nothing is left to do. `PowerControl` never stops and its
deadlock check is on.

## 5. Fairness

* `PowerControl`: every coroutine that can take a step takes it (`WF` of `Step`): asyncio runs what is
  ready, a Modbus transaction ends in a reply or a timeout. The lock is `SF` of `Acquire`: asyncio.Lock
  wakes its waiters in the order of arrival, so a waiter is not passed over for ever. Callers
  and emergency stops are not fair: nobody has to call.
* `DERControlHandler`: `WF` of the steps of the lock's holder, `SF` of `StartTick` (the scheduler
  waits for the lock in the queue of asyncio.Lock), `SF` of `Answer`: the controller answers every call,
  which is what `EveryCallEnds` shows of `PowerControl`. It must be strong because the emergency stop may
  come and go and change which answer is possible.
* `DERClient`: `SF` of each task's steps and of `Answer`. Tasks wait for the event loop and
  for the handler's lock, both in order of arrival; an HTTP request ends in an answer or an exception.
  The server and the clock are not fair: `ScheduledControlsStart` speaks of a control whose start has
  come, `CancellationsAreSeen` of one that is cancelled.
* `Operations_live`: `WF` of what the event loop or the operating system runs once it can: the monitor and
  the stop of `TaskSupervisor` (`SupFairness`), the loops and the stop of `BMSClient` (`BmsFairness`), the
  threads of the managers and of the worker and the requests that have begun (`CmFairness`, `WmFairness`,
  `PwFairness`: a join ends with the thread or with its timeout), the metering (`MtFairness`). `DcFairness` is strong for a reading that succeeds: a device
  that is up and connected answers in the end. `CollectorRecovers` and `MeteringRecovers` have the
  device, or the server, stay reachable from some point on as their hypothesis; `MeteringRecovers` names the
  dead ends it excludes (`DeadEnd`, section 6.2). Nobody has to start,
  stop, crash or lose anything.

## 6. Divergences between the code and what it says

Two have a run that ends in a counterexample, and are findings in `PROJECT.json`:

* **Two tasks, one mode** (`DERClient_race`). `_active_by_mode` is written after the execution. The poll
  task and the scheduler task resolve their conflicts against an empty table, and the later write wins
  whatever its priority (`dera/der_client.py:1077`, "same mode: higher priority first").
* **The stop that cannot be lifted** (`DERClient_recovery`). `DERClient._execute_control` aborts everything
  while the emergency stop is on, so the `opModConnect=true` that the handler would evaluate before
  its own gate (`dera/handler.py:327`) never gets there. Only cancelling a disconnection that is in
  force lifts a stop.

Others became clear while the models were written or their invariants proved; no run is kept for them.

### 6.1 The control path

* The sweep of a disconnection marks a control that is about to start as superseded; the other task, back
  from its POST, sets it ACTIVE and hands it to the handler (`dera/der_client.py:806`; `:920`: all are
  cancelled). A cancellation by the server in that window has the same fate.
* The iteration of the sweep raises when another task tracks a control during one of its awaits. The exception
  ends the execution of the disconnection, which is reported aborted although nothing was wrong with it
  (`dera/der_client.py:952`).
* `_execute_control` of the handler looks at `opModEnergize=true` before `opModConnect=false`: a control
  with both is COMPLETED as an energize and never disconnects (`dera/handler.py:376`). A control with
  `opModConnect=true` and `opModFixedW` ignores the power. The proof of `ActiveMatchesDevice` did not go
  through until `Holds` said so.
* `handle_control_list` executes by ascending primacy, so the least important control comes last and
  supersedes the others (`dera/handler.py:292` says the opposite).
* `cancel_control` answers True and forgets the event though its zero set-point failed or was blocked
  (`dera/handler.py:564`), and cancelling a disconnection lifts a stop that was raised locally (`:555`).
* `_cleanup_old_events` evicts the oldest event whatever its status; its comment says the oldest
  completed one (`dera/handler.py:620`). A scheduled event whose whole window passes while the lock is
  held stays SCHEDULED for ever.
* `_check_control_recovery` is only reached for a control that is ACTIVE after its execution, which none
  is (`NeverActiveWhenIdle`): what was superseded never recovers, although `dera/der_client.py:163` lists
  it as a feature. For the same reason `_check_default_control`, which looks for ACTIVE controls, applies
  the default over a control in its interval (`dera/der_client.py:989`).
* `_handle_fsa_removed` untracks the programs of all assignments (`dera/der_client.py:429`: those of that
  FSA), and they are not fetched again; nor are those whose GET failed, until the version of the assignment
  changes (`:422`). `_untrack_program` reports its controls cancelled and leaves them in
  force on the PCS (`dera/der_client.py:480`: stops them).
* An interval of duration 0 is over when it begins (`models/ieee2030_5_models.py:916`: 0 is indefinite).
* A control that is already cancelled when it is first polled is executed (`dera/der_client.py:156`). One
  that is still listed after 1000 others is executed again (`:1510`).
* A control has one slot for a pending response; the next response overwrites or clears it
  (`dera/der_client.py:1170`: it is retried).
* `ModbusPowerWriter.emergency_stop` writes nothing (`modbus/power_writer.py:431`: sets the power to 0), and
  `validate_ramp_rate` is never called (`power_control.py:177`), so the ramp rate limits nothing.
* With limits above 3,276.7 kW, which `runtime_config.py:618` accepts up to 10 MW, a set-point wraps
  around in the 16-bit register and a discharge becomes a charge. This is the assumption
  `LimitsFitRegister` of the proofs.

### 6.2 The client and its tasks

* `restart_count` is never reset, so `max_restarts` crashes over the whole life of the process end a task
  (`task_supervisor.py:242`).
* Status PUTs and MUP POSTs swallow the errors of the server, so an outage does not count as a failure and the
  reconnection it should trigger does not come. `_reconnect_ieee2030_5` resets
  `_ieee2030_5_consecutive_failures`, which nobody counts. Two loops that reconnect at once leak an
  HTTP client.
* Subscription mode never has control of the PCS: `client.py:1086` uses `TimeSyncConfig`, which is not
  imported; the `NameError` is caught and logged. `NotificationHandler` is made without a
  control handler there, so a pushed control would not be executed either.
* The metering does not come back from a repair that fails after `_mup_href` was cleared, from an
  outage at the start, when the server loses the reading `timestamp`, or when it loses the whole MUP while
  the client runs and knows all its mRIDs: a refused POST is a failed result that is only logged, and
  it goes on posting to that MUP until it is restarted (`client.py:1796`). These are the four cases of
  `DeadEnd` that `MeteringRecovers` excludes.
* A reconnection whose certificates cannot be used leaves no HTTP client at all
  (`ieee2030_5/client.py:188`). The "Not connected" of every request after that is swallowed by the bodies of
  the loops like any other error, so unless something else fails nobody reconnects again.
  `HttpWorksBetweenReconnections` says when there may be none.
* An alarm event whose POST fails is lost, and logged as posted. Alarms that are still set are
  raised again after a restart, and those that were cleared in between are never cleared.
* A missing cycle file is not looked for in the backup; only a damaged one is (`cycle_storage.py:176`).
* A failed GET of the EndDevice list leads to a second registration (`db/client_wrapper.py:199`; the lists that were missed
  are what `RegisteredOnce` allows for). The same `except` takes an EndDevice that was found but could not
  be saved for one that was not found, and the wrapper registers a second one although it had the list; `rgMissed` counts it, too.
  The second look, `ieee2030_5/client.py:561`, gets the list without a
  type, in which it never finds an EndDevice. The fast recovery validates the EndDevice only, so a DER of a server that was
  reset and gave the old name again is stale. `get_end_device_by_sfdi` returns the oldest row.
* `DERControlPoller` asks its HTTP client for `get`, which `IEEE2030_5Client` does not have
  (`dera/poller.py:296`). A control whose handling is cancelled by `stop()`, or whose mark is evicted,
  is executed again.
* `BMSDataCollector` calls `disconnect()` of its failure branch outside of any `try`.
* `RackData.from_registers` accepts 23 registers and reads index 23; it reads 7019 and 7020, documented
  as `lecu_flag` and `rack_flag`, as current limits, and neither flag reaches the alarms.

### 6.3 Subscriptions and notifications

* `subs/manager.py`: `disable()` during a renewal is overwritten by ACTIVE; an `enable()` while another is
  pending, the renewal of an object that a reload has removed, and a stop and start around a
  renewal, each leave a subscription on the server that nobody knows of. A FAILED one is never renewed.
* `subscription/subscription_manager.py:363`: two notifications at a time make a second subscription, or raise a
  `KeyError`. `handle_fsa_change` drops the control subscriptions of all programs and subscribes neither those
  of the kept assignments again nor the program lists of added ones; it ignores an empty list.
  A POST that is answered without a Location leaves an
  entry without a href, for which no DELETE is ever sent (`:400`, `:431`): the subscription stays on the server
  after a cleanup, and `ChainSafe` counts it among the lost. Notifications during the cleanup subscribe again. The renewal loop is not started by `client.py`.
* The notification handler is set after the server listens: what comes earlier is answered 204 and not
  processed. Errors of the handler are answered 204. Requests that `stop()` cancels are counted nowhere.
  `_parse_der_control` sets no `href` and no `replyTo`, so no response is sent. `/derp` and `/derc` are told
  apart by different rules in the handler and in the manager.

### 6.4 The web interface, the worker and the files

* A stop during STARTING is lost by `ClientManager`, `WorkerManager` and `PollingWorker`: the thread sets
  RUNNING over it, or is not found (`web/client_manager.py:377`: "will detect state change and exit"). This is why
  `CmStopStops` is stated beside `CmOrderlyStopStops` and not checked. The final clause of a client thread stops the
  client of another thread. `WorkerManager` says RUNNING though the client's start failed.
* `stop()` of `WorkerManager` and of `PollingWorker` looks for the loop and the event without the lock under
  which nobody clears them either (`web/worker_manager.py:146`, `polling/worker.py:527`). When the thread ends
  in between, the call raises out of `stop()`, the request is answered with an error, and the state stays
  STOPPING or becomes what the thread says last; `stop()` then refuses, but `start()` does not.
* A reload while the worker is STARTING changes nothing and is answered as a success
  (`web/worker_manager.py:169`), so the worker may run on with the file it had read before. This is why
  `ReloadReachesAll` has no such reload.
* Save and apply validate what is not a mapping as if it were empty and write it as it is (`web/app.py:408`,
  `:457`). `RuntimeConfig.from_yaml` then raises; the legacy fallback takes a list or a string for a file that
  says nothing and runs the worker with its defaults, and a number or an empty file ends it in ERROR.
* A `PollingWorker` thread whose loop another thread has replaced ends without setting STOPPED. A Modbus or
  HTTP client that could not be made at the start is never made again.
* The renewal loop of the web interface's subscription manager belongs to an event loop that is closed
  after the request, so it never runs, and the manager is made with `simulation_mode=True` (`web/app.py:119`). A
  reload subscribes even when the manager is stopped. "Apply" reloads the worker only. Two
  reloads at a time may leave the older configuration. `notifications_received += ...` and the request
  counter of the recorder may lose counts.
* `record_fsa` and `record_program` never take back "removed"; the older record of a control that came
  again stays open; `record_rack_data` may raise `KeyError` when the buffers are cleared.
* `ExternalIntegrationAPI` replaces an emergency command by any later one; `get_api_status` uses an attribute
  that the client lacks (`external_api.py:753`); acknowledgements may outnumber commands,
  and one that reports a failure is counted and answered like a success (`external_api.py:551`).
* Both register writers and `PollingWorker` are in simulation mode by default: a write is then reported and
  shown as a success and nothing is written (`modbus/register_writer.py:252`, `modbus/modbus_writer.py:274`).
* One Modbus writer multiplies by the scale where the other divides, and one rounds half to even where
  the other truncates. A page value of NaN or infinity raises in `_convert_value` and is shown as an HTTP error.
* A legacy configuration is accepted by `RuntimeConfig.from_dict`, which ignores keys it does not know, and
  runs with the default server: the fallback at `web/worker_manager.py:216` only sees invalid files. NaN limits pass
  `_validate_range` and are refused by `PowerLimits`, after which the client runs without control.
  `runtime_to_legacy_config` makes `public_uri` the empty string, so `use_tls` (`client.py:1038`) is off.
  `to_dict` omits the rotation of the log. `confirm_production` is read from the file and used nowhere. Revoking the
  lock file leaves a running production controller alone.

## 7. What is proved

### 7.1 The power path

For every set of callers and powers, every SOC, all limits, both modes, with or without a writer, and any
numbers of retries (`PowerControl_proofs`):

| Theorem | Says |
|---|---|
| `TypeCorrect` | the variables keep their types |
| `SafetyInvariant` | `Safety`, from which the next three follow |
| `SetpointAlwaysWithinLimits` | the register never exceeds the limits |
| `SetpointsAreDelivered` | an executed set-point is in the register as it was asked for, to the unit |
| `ReportsAreTruthful` | answers are true |
| `BusIsExclusive` | the lock is held exactly by the call on the bus |
| `EmergencyStopAlwaysHolds` | no command passes the gate under a stop, and `P_SET` moves only for those past it |
| `DryRunIsDry` | in DRY_RUN no step moves the register |

and it also proves `PowerControlImplementsService`: initial states map to initial
states, and each action of `PowerControl` to one of `PowerService` or to a stutter.

Assumptions: those of the module on its constants, which are the checks of `PowerLimits.__post_init__`
and that there is at least one attempt; and `LimitsFitRegister` where the
register is decoded: both limits, in units of 100 W, fit a signed 16-bit number. The lemmas about
`RegisterOf` and `Decode` show that below it the encoding gives the power back to the unit, and that
truncation towards zero never leaves the limits.

The argument. `SetpointWithinLimits` is not inductive: a step may deliver what was validated
several steps ago. `Safety` adds `ValidatedPastRoute` (whatever is past the validation is within the
limits; the zero of a disconnection always is) and `DeliveryMatchesStage` (nothing is delivered before the
first transaction, and a call at `verify` has delivered its own code), from which `ReportMatchesDevice`
follows when the call finishes. `SetpointsAreDelivered` adds `ExecutedWasValid`: what was executed has been
validated, so that decoding the register gives it back. `BusExclusive` is inductive with the types. The
emergency stop is an action property: each action is looked at under `stopped`. The refinement needs `Safety` and the types in
the state before each step.

### 7.2 The handler

`DERControlHandler_proofs`, over `PowerService`, for any controls, lists and default controls, any callers,
and any numbers of events and of events remembered: `HandlerTypeCorrect`, `ActiveAlwaysMatchesDevice` and
`OneIsInForce`. Assumptions: the controls are among `Fields`, the lists are finite sets of them, at least
one event is remembered, and the scheduler is one of the requesters.

Both properties speak of the states between two operations, where the lock is free. `HInv` says what
holds in between: the book-keeping (`Book`), that only the holder of the lock is anywhere (`Places`), that
nobody else has a call at the power service, and that what a call has written is what `P_SET` still
is (`Calls`); which event the command under way belongs to and what has become of the event that was in force
before (`Working`), what a tick has still to run (`Ticking`) and, when nobody works, that every event but
the one in force is `Settled` and that one matches the device (`Resting`). The hard case is a control that is
handled again: its new event takes the identifier of one that may still be the one in force.
The lemmas before the invariant say what each operator does to the sequence of events.

The last section closes the argument that lets the handler stand on the abstract service.
`PowerControlImplementsService` says that the power path does whatever it does as the service may;
`HandlerUsesService` says that the handler asks nothing else of it: every step of the handler, the
lifting of a stop included, is a step of `PowerNext` or leaves the service alone, which needs of `HInv`
that only the holder of the lock has a call, and with a command that the service takes.
What the service guarantees (`ServiceIsGated`) then holds under the handler: while the emergency stop is
on no further command passes the gate and `P_SET` moves only for those that had passed it
(`StopHolds`), and in DRY_RUN it never moves (`DryRunHolds`).

### 7.3 The client

`DERClient_proofs`, over the handler and `PowerService`, for any programs, priorities, assignments,
controls, intervals and defaults, a server that lists, cancels and removes what it likes, a network that
loses any request, local emergency stops and any number of events. Assumptions: those of section 3.4 on
the constants, and that the poll task and the scheduler task are the requesters.

| Theorem | Says |
|---|---|
| `ControlsAreHandedOnce` (`HandedOnce`) | no control is handed to the handler twice while `_processed_mRIDs` remembers it |
| `ResponsesAreInOrder` (`ResponsesInOrder`) | the responses of a control follow each other as the protocol allows |
| `NoneStaysActive` (`NeverActiveWhenIdle`) | a control is ACTIVE only while a task executes it |
| `CompletionsAreTrue` (`CompletedIsTrue`) | what is reported completed was executed with success |
| `PolledProgramsAreAssigned` (`ProgramsComeFromFsas`) | no program of a forgotten assignment is polled |
| `ClientTypeCorrect` (`ClientTypeOK`) | the types, of the handler and the service too; a processed control has its entry in `_tracked_controls`, which is read without a check, and a cancellation that was seen is of a processed control |
| `HigherPriorityWinsInOneTask` (`HigherPriorityWins`) | while no interval begins after the client has started, no control is handed over while one that beats it has completed in one of its modes |
| `HandlerHoldsUnderClient` (`ActiveMatchesDevice`, `OneInForce`) | without default controls, section 7.2 holds for the two tasks that really call the handler |
| `ClientUsesService` | the client with its handler is a user of `PowerService`, default controls included |
| `ClientImplementsLife` (`ImplementsLife`) | the client implements `ControlLife`, whatever is interleaved |
| `LivesAreInOrder` | whatever implements `ControlLife` has `ResponsesInOrder`, `HandedOnce` and `CompletedIsTrue`; so `DERClient_setpoints` need not check the first |
| `ClientIsGated` | so `StopHolds` and `DryRunHolds` hold of everything the server can make the client do |

Two theorems about the code have a hypothesis, and each says something about it. `NothingToSchedule` leaves the
execution to the poll task: with both tasks executing the property is false, which is the
divergence of `DERClient_race`. `NoDefaultControls`: a default control goes to the power controller past
the handler (`dera/der_client.py`, `_check_default_control`), which then still has an event in force
that the PCS does not obey.

None of the first five is inductive; `EveryControlIsAccountedFor` proves `ClientInv`, which has three parts.

* `OnceInv` says what each label of `at` implies for the control the task has in hand (`Owns`), and for every
  control what its status, marks and responses imply for each other (`Fresh`, `Accounted`). The
  poll task's control is *not yet* in `_processed_mRIDs`, the scheduler task's *is*, so the two are
  never the same although both look before an await and mark after it. That is why the order of the code matters: the
  mark is set when the control is put down, and a control becomes SCHEDULED only in the step that
  marks it. `OneStep` is the frame rule of the proof: a step that concerns only the control its task has
  in hand, and does to all others only what is `Harmless`, keeps `OnceInv`.
* `SuccessInv` ties the client to the handler: a task that waits for it waits for an event of its own control,
  which is still active, and holds the lock; so no other task can have superseded or cancelled that
  event in the meantime. What was executed with success stays so (`Kept`).
* `AssignmentInv` follows the end of an assignment: whatever is still tracked is still to be untracked.

The others are proved from `ClientInv` and from what follows (`EveryControlIsTracked` proves the two
together).

* `TrackedInv`: the types of what the client sees (`WorldTypes`); that an entry of `_tracked_controls`
  is never removed, so that a mark implies an entry (`SeenInv`); that the lock is held by who is inside of
  an operation and the handler is never given a default control (`PathInv`). `AtThePath` lists all that a
  step of the client does with the handler and the service, and `StepsAtThePath` shows that it is nothing
  else; the proofs that speak of the handler under the client go over that list and not over all of
  `ClientNext`.
* `Decided`: a control that counts as completed holds all of its modes in `_active_by_mode`; no other one that counts
  as completed holds a mode of the control that is decided about, but for those it has still to be
  compared in; and the sweep clears modes of controls only that it has superseded.
  `NothingWaits` says that with `NothingToSchedule` the scheduler task has nothing in hand.
* `LifeInv`: an executed event that has not ended is awaited; an event is of a control that was given, and
  what was given was announced. With it a step maps to one of `ControlLife`. Outside of the handler's
  operations a step says at most one response (`AsideLives`), and `OnceInv` knows the moment to be one at which it
  may be said; a call gives the control (`CallHandlerLives`); its return, or the end of a
  cancellation, carries out at most the event that was awaited (`HandlerReturnedLives`, `CancellingLives`).
  COMPLETED is said only of an event that succeeded, which is `SuccessInv`.
* `HInv` with `NothingDue`: the lemmas about the handler's operations are stated for any caller, the
  scheduler of the handler among them while nothing is due, so that they serve `DERClient`, whose own scheduler
  task calls `handle_control`.

### 7.4 The parts around the control path

Each theorem is of the module's own behaviours (`SupSpec`, `BmsBehaviour`, `CpBehaviour` ...: `Init` and
`[][Next]`, with all surroundings, orderly or not), for all values of the constants, and states the types of
the module beside its property. Most properties are not inductive; the third column is what had to be
added.

| Theorem | Property | The invariant adds |
|---|---|---|
| `SupervisorIsSafe` | `SupSafe` | a stop has ended the tasks it has passed; the monitor sleeps through the back-off of a task that does not run |
| `ClientIsSafe` | `BmsSafe` | the loops are launched when all they use is open (`LoopsWithin`); how far `stop()` has come (`ClosedSoFar`); the HTTP client in use is open, or a loop is about to open another, or there is none for want of certificates (`ClientInUse`) |
| `PollerIsSafe` | `PollerSafe` | what is left of a batch has no control twice and none that is marked; the marks are the last that were handled |
| `RegistrationIsSafe` | `RegistrationSafe` | a DER is made only for an EndDevice that has none (`OneDer`); there is at most one EndDevice more than lists that were missed or not kept (`OneDevice`); what is remembered is there while nothing was lost (`StillThere`); where a run without faults has come to (`OnCourse`) |
| `MeteringIsSafe` | `MridsBelong` | no mRID is kept while the MUP is looked for (`NoneWhileMaking`); the mRIDs are asked for with the MUP in use (`SameMup`) |
| `SubscriptionsAreSafe` | `SubsSafe` | the caller and the renewal loop take turns, each with its mark on what it works on (`SbTakeTurns`); what is not active has nothing on the server that is not lost (`SbNothingLeft`); names are used once (`SbOwnNames`) |
| `ChainIsSafe` | `ChainSafe` | one task works (`ChOneTask`), and what its request is about has not changed since (`ChAsSent`, `ChSentFirst`); of what the server cancelled it has nothing (`ChCancelled`); how far the cleanup is |
| `PushIsSafe` | `PushSafe` | the sums of all counters and of the tasks at each step (`NpNumbers`); without a socket nothing runs but what `stop()` waits for (`NpClosed`) |
| `ReportingIsSafe` | `ReportingSafe` | what the log tells in the middle of a round, bit by bit (`RpToldSoFar`); what was put is what was found (`RpPutIsFound`) |
| `CollectorIsSafe` | `HealthIsTrue` | the failures counted are the readings missed, and are below the threshold outside of the long interval |
| `CyclesAreSafe` | `CyclesSafe` | both files, and what is in memory, are balanced and count no less than the last save that wrote both (`CtFiles`); what is copied is what is in memory (`CtCopied`); the first state of charge is the first for all of them (`CtFirstKnown`) |
| `PollingIsSafe` | `PwSafe` | whose loop there is lives (`PwEventIsLive`); in orderly use the thread is where the state and the call say (`PwInStep`) |
| `TargetIsSafe` | `PolledSafe` | a value that is about to be written is within the limits, and what was written is in the register |
| `WritersAreSafe` | `WritersSafe` | who is past the lock is not in its queue (`RwQueued`), in simulation nobody is (`RwNoneQueued`), and the arithmetic of words: a value split into words and put together, or masked to a signed number, is itself |
| `MailboxIsSafe` | `MailboxSafe` | the program holds no older command that it could still execute once a success of the current one is accepted (`XaSafe`) |
| `ClientManagerIsSafe` | `CmSafe` | where the thread is follows from the state (`CmStateTells`); one request at a time, and the one that starts a thread has seen the last one end (`CmOneRequest`, `CmLatestLives`); a connected client belongs to the thread that lives (`CmConnectedLives`) |
| `WorkerManagerIsSafe` | `WmSafe` | only the latest worker lives, and none before another is started (`WmLatestLives`) |
| `WebIsSafe` | `WebSafe` | one request at a time goes on with the file as it read it, and no reload finds the worker starting (`OneRequest`); each part is in step with the file once a reload has passed it, and all are since one succeeded (`PartsInStep`); a count lags only while it is being made (`CountInStep`) |
| `ConfigurationIsSafe` | `ConfigurationSafe` | a lock file that is there was confirmed on the host it names (`LockWasConfirmed`) |
| `HistoryIsSafe` | `HistorySafe` | records shown exist and the index is finite (`HiRecorded`); one call at a time, with the highest number (`HiOneAtATime`, `HiRequestsOrderly`); how far an upload or a clear is (`HiUploadsOrderly`) |

Assumptions are those of the modules on their constants: markers such as `NoThread` are not
names, thresholds are in the order of the code's, `WordSize` is even, and sets whose elements are
counted are finite (`NpTasks`, `CpControls`). `BmsAssumption` names the two tasks that `client.py`
registers; `SupervisorIsSafe` does not use it.

Where a model takes the newest or the oldest of some MUPs, the proof that there is one is by the
well-foundedness of the order of the numbers (`SmallestExists`), as induction over a predicate is out of
the prover's reach.

### 7.5 The composition

The runs check the parts together, in `MCSpec`, and the properties that group them
(`ManagersSafe`, `SubscriptionsSafe`, `MessagesSafe`, `SiteSafe`, `MCTypeOK`) are stated of it.
`Operations_proofs` carries the theorems of section 7.4 over: every part starts as it does alone
(`PartsStart`), a step of the composition is one of a part or leaves it alone (`PartsMove`), so a
behaviour of `MCSpec` is a behaviour of each of them (`PartsBehave`). From this follow `ManagersAreSafe`,
`SubscribersAreSafe`, `MessagesAreSafe`, `SiteIsSafe`, `ExchangesAreSafe` (`PollerSafe`,
`HealthIsTrue`, `MridsBelong`, `RegistrationSafe`, `CyclesSafe`) and `TypesAreKept`. The supervisor and the client
share variables, so a behaviour in which the supervisor is exercised alone is none of the client;
`ClientsAreSafe` (`SupSafe`, `BmsSafe`) has an invariant of its own, with the client at rest
in the one case and `BmsInv` in the other.

### 7.6 What is model-checked only

Liveness under fairness is out of the prover's reach: `EveryCallEnds` and `EmergencyStopQuiesces` of the
power path, `ScheduledEventsRun` of the handler, `ScheduledControlsStart`, `CancellationsAreSeen` and
`ExecutionsEnd` of the client, and the properties of `Operations_live`. TLC checks them on the
instances of section 4. Every safety property that a passing run checks is proved,
`HigherPriorityWins` under the hypothesis that the run has too.

## 8. What is not modelled

* The XML of messages (`ieee2030_5/xml_utils.py`, most of `models/`), TLS and time synchronisation: a
  request is an answer or an exception to the parts above.
* The protocol maps (`protocols/`), which are tables, and the decoding of measurements.
* `mup/` and `ders/` but for the alarms and the readings that `client.py` sends: stateless mappings.
* The pages of the web interface, its browser, mapping editor and log buffer: presentation.
* The tables of the database that nothing decides by.
* `opModFixedVar`, `opModMaxLimW`, randomisation and the change of an assignment's version in `DERClient`
  (section 3.4), and the retention times of events.
* Time itself: an interval is future, open or past, a back-off or a period passes or does not.
