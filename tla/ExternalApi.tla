----------------------------- MODULE ExternalApi ----------------------------
(***************************************************************************)
(* ExternalIntegrationAPI: a mailbox of one power command between the      *)
(* client and an external program that drives the PCS over any protocol.   *)
(* The program gets the command, executes it and acknowledges it; it holds *)
(* the object the API keeps, so it sees what happens to the command later. *)
(* A status that the program reports goes on to the SafePowerController.   *)
(***************************************************************************)
EXTENDS Naturals, Sequences

CONSTANTS
    XaCommands,     \* bound: the commands that are ever set
    History,        \* _max_history
    XaSocs          \* the states of charge the program may report

ASSUME MailboxAssumption == XaCommands \in Nat \ {0} /\ History \in Nat \ {0}

VARIABLES
    xaSent,         \* _command_sequence, which numbers the current command
    xaAcked,        \* _total_commands_acked
    xaActive,       \* the numbers of the commands that are active
    xaTimed,        \* those that were set for a duration
    xaHistory,      \* the numbers in _command_history
    xaStopped,      \* EmergencyStop
    xaController,   \* whether a power controller is set
    xaSoc,          \* the last state of charge reported, and the one the controller knows
    xaProgram,      \* the external program: what it does, and with which command
    xaApplied,      \* the command it applied last, 0 for none
    xaConfirmed     \* History: the numbers of which a success was acknowledged and accepted

NoCommand == 0

xaMailbox == <<xaSent, xaAcked, xaActive, xaTimed, xaHistory, xaConfirmed>>
xaStatus == <<xaController, xaSoc>>
xaVars == <<xaMailbox, xaStopped, xaStatus, xaProgram, xaApplied>>

Numbers == 1..XaCommands
Program(at, command) == [at |-> at, command |-> command]

XaTypeOK ==
    /\ xaSent \in 0..XaCommands /\ xaAcked \in 0..XaCommands + 1
    /\ xaActive \subseteq 1..xaSent /\ xaTimed \subseteq 1..xaSent
    /\ xaHistory \in Seq(Numbers) /\ Len(xaHistory) <= History
    /\ xaStopped \in BOOLEAN /\ xaController \in BOOLEAN
    /\ xaSoc \in [{"reported", "controller"} -> XaSocs]
    /\ xaProgram \in [at : {"idle", "got", "executed", "failed"}, command : 0..XaCommands]
    /\ xaApplied \in 0..XaCommands /\ xaConfirmed \subseteq Numbers

XaInit ==
    /\ xaSent = 0 /\ xaAcked = 0
    /\ xaActive = {} /\ xaTimed = {} /\ xaHistory = << >>
    /\ xaStopped = FALSE /\ xaController \in BOOLEAN
    /\ \E soc \in XaSocs : xaSoc = [of \in {"reported", "controller"} |-> soc]
    /\ xaProgram = Program("idle", NoCommand) /\ xaApplied = NoCommand /\ xaConfirmed = {}

-----------------------------------------------------------------------------

\* set_power_command(): the new command takes the place of the current one, whatever the
\* priorities of the two, and the old object is left as it is.
NewCommand(timed) ==
    LET n == xaSent + 1 IN
    /\ n <= XaCommands
    /\ xaSent' = n
    /\ xaActive' = xaActive \cup {n}
    /\ xaTimed' = IF timed THEN xaTimed \cup {n} ELSE xaTimed
    /\ LET all == Append(xaHistory, n)
       IN  xaHistory' = IF Len(all) > History THEN Tail(all) ELSE all
    /\ UNCHANGED <<xaAcked, xaConfirmed>>

SetPowerCommand ==
    /\ \E timed \in BOOLEAN : NewCommand(timed)
    /\ UNCHANGED <<xaStopped, xaStatus, xaProgram, xaApplied>>

\* emergency_stop().
XaEmergencyStop ==
    /\ xaStopped' = TRUE /\ NewCommand(FALSE)
    /\ UNCHANGED <<xaStatus, xaProgram, xaApplied>>

\* cancel_command(), of the current command or of the number that is given.
CancelCommand ==
    /\ xaSent # 0
    /\ \E n \in Numbers :
           xaActive' = IF n = xaSent THEN xaActive \ {n} ELSE xaActive
    /\ UNCHANGED <<xaSent, xaAcked, xaTimed, xaHistory, xaConfirmed>>
    /\ UNCHANGED <<xaStopped, xaStatus, xaProgram, xaApplied>>

\* get_power_command(): only here an expired command becomes inactive.  The program reads
\* is_active when it has the command, and does nothing with one that is not.
GetPowerCommand ==
    /\ xaProgram.at = "idle"
    /\ \/ xaActive' = xaActive
       \/ xaSent \in xaTimed /\ xaActive' = xaActive \ {xaSent}
    /\ xaProgram' = IF xaSent \in xaActive' THEN Program("got", xaSent) ELSE xaProgram
    /\ UNCHANGED <<xaSent, xaAcked, xaTimed, xaHistory, xaConfirmed>>
    /\ UNCHANGED <<xaStopped, xaStatus, xaApplied>>

\* The program drives the PCS, or fails to, which it may acknowledge too or let be.
Execute ==
    /\ xaProgram.at = "got"
    /\ \/ xaApplied' = xaProgram.command /\ xaProgram' = [xaProgram EXCEPT !.at = "executed"]
       \/ /\ xaProgram' \in {Program("idle", NoCommand), [xaProgram EXCEPT !.at = "failed"]}
          /\ UNCHANGED xaApplied
    /\ UNCHANGED <<xaMailbox, xaStopped, xaStatus>>

\* Mutant: what is acknowledged is the current command, whatever the number.
AcceptedAny(n) == xaSent # 0

\* acknowledge_command() accepts the number of the current command only.
Accepted(n) == xaSent # 0 /\ n = xaSent

\* The program acknowledges, and does so again when the answer was lost.  A failure is accepted
\* and counted like a success.
AcknowledgeCommand ==
    LET accepted == Accepted(xaProgram.command)
        success == xaProgram.at = "executed"
    IN  /\ xaProgram.at \in {"executed", "failed"}
        /\ xaAcked <= XaCommands
        /\ xaAcked' = IF accepted THEN xaAcked + 1 ELSE xaAcked
        /\ xaConfirmed' = IF accepted /\ success THEN xaConfirmed \cup {xaSent} ELSE xaConfirmed
        /\ xaProgram' = Program("idle", NoCommand) \/ UNCHANGED xaProgram
        /\ UNCHANGED <<xaSent, xaActive, xaTimed, xaHistory>>
        /\ UNCHANGED <<xaStopped, xaStatus, xaApplied>>

\* report_bms_status().
ReportStatus ==
    /\ \E soc \in XaSocs :
           xaSoc' = [reported |-> soc,
                     controller |-> IF xaController THEN soc ELSE xaSoc.controller]
    /\ UNCHANGED <<xaMailbox, xaStopped, xaController, xaProgram, xaApplied>>

\* set_power_controller(): the controller learns of a status with the next report.
SetController ==
    /\ ~xaController /\ xaController' = TRUE
    /\ UNCHANGED <<xaMailbox, xaStopped, xaSoc, xaProgram, xaApplied>>

XaNext ==
    \/ SetPowerCommand \/ XaEmergencyStop \/ CancelCommand
    \/ GetPowerCommand \/ Execute \/ AcknowledgeCommand \/ ReportStatus \/ SetController

-----------------------------------------------------------------------------

\* A command of which the API accepted a success was executed: while it is the current one it
\* is what the program applied last, even when commands are replaced, cancelled or run out
\* between its steps, and when acknowledgements are late, repeated or follow a failure.
MailboxSafe == xaSent \in xaConfirmed => xaApplied = xaSent
=============================================================================
