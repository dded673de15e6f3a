------------------------- MODULE PowerControlRefines -------------------------
(***************************************************************************)
(* PowerControl keeps the promise of PowerService.  The abstract P_SET is  *)
(* the 16-bit code; a call is past the gate from the last look at the flag *)
(* before a transaction until it is answered or must look again.           *)
(***************************************************************************)
EXTENDS PowerControl

\* The codes P_SET may be told to hold.
CommandCodes == {RegisterOf(0)} \cup {RegisterOf(p) : p \in Powers}

\* Where r's call stands, seen from its caller.
StageOf(r) ==
    IF pc[r] = "idle" THEN "idle"
    ELSE IF pc[r] \in {"entry", "route", "precheck", "attempt"} THEN "called"
    ELSE IF pc[r] \in {"submit", "wait", "bus", "verify"} THEN "passed"
    ELSE IF result[r] \in {"executed", "simulated"} THEN "ok" ELSE "error"

CommandOf(r) == [op |-> req[r].op, value |-> RegisterOf(req[r].power)]

stageBar == [r \in Requesters |-> StageOf(r)]
commandBar == [r \in Requesters |-> CommandOf(r)]
wroteBar == [r \in Requesters |-> delivered[r] # NoDelivery]

Service == INSTANCE PowerService WITH
    Values <- CommandCodes,
    Zero <- RegisterOf(0),
    DryRun <- ~Production,
    stage <- stageBar,
    command <- commandBar,
    wrote <- wroteBar

\* SafePowerController, the writer and the Modbus client together do nothing
\* that the abstract power service does not allow: every step of theirs is a
\* step of it or leaves it alone.
ImplementsService == Service!PowerSpec
=============================================================================
