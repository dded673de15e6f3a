---------------------------- MODULE PowerService ----------------------------
(***************************************************************************)
(* What SafePowerController promises the code that commands the PCS: a     *)
(* call passes a gate that the emergency stop closes, only calls past the  *)
(* gate touch P_SET, with their own value, and a call that reports success *)
(* has delivered that value.  A failed call may have delivered it too.     *)
(* PowerControl implements this; the modules of the DER control path are   *)
(* built on it.                                                            *)
(***************************************************************************)
CONSTANTS
    Requesters,     \* the coroutines that call the controller
    Values,         \* what P_SET may be told to hold
    Zero,           \* the value of zero power
    DryRun          \* ControlMode.DRY_RUN

ASSUME ValuesAssumption == Zero \in Values
ASSUME DryRunAssumption == DryRun \in BOOLEAN

VARIABLES
    stopped,        \* EmergencyStop._stopped
    pset,           \* what the PCS is told to hold
    stage,          \* where each requester's call stands
    command,        \* the call itself
    wrote           \* the call has delivered its command at least once

powerCall == <<stage, command, wrote>>
powerVars == <<stopped, pset, powerCall>>

Commands == [op : {"set"}, value : Values] \cup
            [op : {"disconnect", "reconnect"}, value : {Zero}]
NoCommand == [op |-> "none", value |-> Zero]

\* Commands that move P_SET; the pulse of reconnect_pcs does not.
MovesPset(c) == c.op # "reconnect"

PowerTypeOK ==
    /\ stopped \in BOOLEAN
    /\ pset \in Values
    /\ stage \in [Requesters -> {"idle", "called", "passed", "ok", "error"}]
    /\ command \in [Requesters -> Commands \cup {NoCommand}]
    /\ wrote \in [Requesters -> BOOLEAN]

PowerInit ==
    /\ stopped = FALSE
    /\ pset \in Values
    /\ stage = [r \in Requesters |-> "idle"]
    /\ command = [r \in Requesters |-> NoCommand]
    /\ wrote = [r \in Requesters |-> FALSE]

-----------------------------------------------------------------------------
To(r, label) == stage' = [stage EXCEPT ![r] = label]

Begin(r, c) ==
    /\ stage[r] = "idle"
    /\ To(r, "called")
    /\ command' = [command EXCEPT ![r] = c]
    /\ UNCHANGED wrote

\* The last look at the flag before a write; reconnect_pcs takes none.
Pass(r) ==
    /\ stage[r] = "called" /\ ~DryRun
    /\ ~stopped \/ command[r].op = "reconnect"
    /\ To(r, "passed")
    /\ UNCHANGED <<stopped, pset, command, wrote>>

\* The command may be delivered any number of times once it has passed.
Deliver(r) ==
    /\ wrote' = [wrote EXCEPT ![r] = TRUE]
    /\ pset' = IF MovesPset(command[r]) THEN command[r].value ELSE pset

Write(r) ==
    /\ stage[r] = "passed"
    /\ Deliver(r)
    /\ UNCHANGED <<stopped, stage, command>>

\* A failed attempt goes back before the gate, or ends the call, and may have
\* been applied by the device all the same.
Fail(r) ==
    /\ stage[r] = "passed"
    /\ Deliver(r) \/ UNCHANGED <<pset, wrote>>
    /\ To(r, "called") \/ To(r, "error")
    /\ UNCHANGED <<stopped, command>>

\* Blocked, rejected, or given up before the gate.
Refuse(r) ==
    /\ stage[r] = "called"
    /\ To(r, "error")
    /\ UNCHANGED <<stopped, pset, command, wrote>>

Succeed(r) ==
    /\ \/ stage[r] = "passed" /\ Deliver(r)
       \/ stage[r] = "passed" /\ wrote[r] /\ UNCHANGED <<pset, wrote>>
       \/ stage[r] = "called" /\ DryRun /\ UNCHANGED <<pset, wrote>>
    /\ To(r, "ok")
    /\ UNCHANGED <<stopped, command>>

\* The caller takes the answer.
Take(r) ==
    /\ stage[r] \in {"ok", "error"}
    /\ To(r, "idle")
    /\ command' = [command EXCEPT ![r] = NoCommand]
    /\ wrote' = [wrote EXCEPT ![r] = FALSE]

\* The caller's task is cancelled during the call.
Abandon(r) ==
    /\ stage[r] \in {"called", "passed"}
    /\ pset' = pset \/ (stage[r] = "passed" /\ MovesPset(command[r])
                        /\ pset' = command[r].value)
    /\ To(r, "idle")
    /\ command' = [command EXCEPT ![r] = NoCommand]
    /\ wrote' = [wrote EXCEPT ![r] = FALSE]
    /\ UNCHANGED stopped

Trigger ==
    /\ stopped' = TRUE
    /\ UNCHANGED <<pset, powerCall>>

Reset ==
    /\ stopped' = FALSE
    /\ UNCHANGED <<pset, powerCall>>

\* One step of r's call inside the controller.
PowerStep(r) == Pass(r) \/ Write(r) \/ Fail(r) \/ Refuse(r) \/ Succeed(r)

\* A caller may lift the stop as it calls, without an await in between.
PowerNext ==
    \/ \E r \in Requesters :
           \/ \E c \in Commands : Begin(r, c) /\ stopped' \in {stopped, FALSE} /\ UNCHANGED pset
           \/ PowerStep(r)
           \/ Take(r) /\ UNCHANGED <<stopped, pset>>
           \/ Abandon(r)
    \/ Trigger \/ Reset

PowerSpec == PowerInit /\ [][PowerNext]_powerVars
=============================================================================
