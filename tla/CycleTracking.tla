--------------------------- MODULE CycleTracking ----------------------------
(***************************************************************************)
(* The cycle count of the battery: how BMSClient derives it from the state *)
(* of charge and how CycleStorage (cycle_storage.py) keeps it across       *)
(* crashes.                                                                *)
(*                                                                         *)
(* save() writes a temporary file, renames it over the primary one and     *)
(* copies that to the backup; the program may crash in between.  A file is *)
(* a record, missing, or damaged, which its size, magic number, version    *)
(* and checksum tell.                                                      *)
(***************************************************************************)
EXTENDS Integers

CONSTANTS MaxSoc,     \* the states of charge are 0 to this
          Full,       \* the charge, and the discharge, that make a cycle
          MaxCycles,  \* a bound on the charge and on the discharge, in cycles
          MaxFaults   \* a bound on the crashes and the damages of a file

ASSUME CtAssumption ==
    MaxSoc \in Nat /\ Full \in Nat \ {0} /\ MaxCycles \in Nat /\ MaxFaults \in Nat

VARIABLES
    ctAt,       \* what the client does: load, run, or the next step of save()
    ctData,     \* _cycle_count, _charge_accumulated, _discharge_accumulated, _last_soc
    ctPrimary,  \* the file
    ctBackup,   \* its backup
    ctFirst,    \* history: the first state of charge recorded
    ctKept,     \* history: the cycles in the last save that wrote both files
    ctFaults    \* the crashes and damages so far

ctVars == <<ctAt, ctData, ctPrimary, ctBackup, ctFirst, ctKept, ctFaults>>

NoSoc == -1

\* CycleTrackingData; _last_soc None is NoSoc, NaN in the file.
CycleData == [count : 0..MaxCycles, charge : 0..MaxCycles * Full + MaxSoc,
              discharge : 0..MaxCycles * Full + MaxSoc, last : NoSoc..MaxSoc]
NewCycles == [count |-> 0, charge |-> 0, discharge |-> 0, last |-> NoSoc]

\* The file of a record, and one without.
CycleFile == [kind : {"missing", "damaged", "ok"}, data : CycleData]
File(data) == [kind |-> "ok", data |-> data]
Broken(kind) == [kind |-> kind, data |-> NewCycles]

CtTypeOK ==
    /\ ctAt \in {"load", "run", "replace", "copy"}
    /\ ctData \in CycleData
    /\ ctPrimary \in CycleFile
    /\ ctBackup \in CycleFile
    /\ ctFirst \in NoSoc..MaxSoc
    /\ ctKept \in 0..MaxCycles
    /\ ctFaults \in 0..MaxFaults

CtInit ==
    /\ ctAt = "load"
    /\ ctData = NewCycles
    /\ ctPrimary = Broken("missing")
    /\ ctBackup = Broken("missing")
    /\ ctFirst = NoSoc
    /\ ctKept = 0
    /\ ctFaults = 0

-----------------------------------------------------------------------------

\* Mutant: the backup is not looked at.
LoadedPrimary(primary, backup) == primary

\* load(): only a primary file that is there and damaged makes it look at the backup.
Loaded(primary, backup) ==
    IF primary.kind = "damaged" THEN backup ELSE primary

\* _init_cycle_tracking(): without a record the defaults are saved at once.
CtLoad ==
    /\ ctAt = "load"
    /\ LET file == Loaded(ctPrimary, ctBackup)
       IN  /\ ctData' = IF file.kind = "ok" THEN file.data ELSE NewCycles
           /\ ctAt' = IF file.kind = "ok" THEN "run" ELSE "replace"
    /\ UNCHANGED <<ctPrimary, ctBackup, ctFirst, ctKept, ctFaults>>

\* The tracking in _upload_meter_readings(), for a state of charge soc.
Tracked(d, soc) ==
    LET rise == IF d.last # NoSoc /\ soc > d.last THEN soc - d.last ELSE 0
        fall == IF d.last # NoSoc /\ soc < d.last THEN d.last - soc ELSE 0
        charge == d.charge + rise
        discharge == d.discharge + fall
        turn == IF charge >= Full /\ discharge >= Full THEN 1 ELSE 0
    IN  [count |-> d.count + turn, charge |-> charge - turn * Full,
         discharge |-> discharge - turn * Full, last |-> soc]

CtSample(soc) ==
    /\ ctAt = "run"
    /\ LET d == Tracked(ctData, soc)
       IN  /\ d.count * Full + d.charge <= MaxCycles * Full
           /\ d.count * Full + d.discharge <= MaxCycles * Full
           /\ ctData' = d
    /\ ctFirst' = IF ctData.last = NoSoc THEN soc ELSE ctFirst
    /\ ctAt' = "replace"
    /\ UNCHANGED <<ctPrimary, ctBackup, ctKept, ctFaults>>

\* save(): the temporary file is complete before it replaces the primary one.
CtReplace ==
    /\ ctAt = "replace"
    /\ ctPrimary' = File(ctData)
    /\ ctAt' = "copy"
    /\ UNCHANGED <<ctData, ctBackup, ctFirst, ctKept, ctFaults>>

CtCopy ==
    /\ ctAt = "copy"
    /\ ctBackup' = ctPrimary
    /\ ctKept' = ctPrimary.data.count
    /\ ctAt' = "run"
    /\ UNCHANGED <<ctData, ctPrimary, ctFirst, ctFaults>>

\* A step of save() raises: an exception is logged and the client goes on.  A copy that raises
\* may have done nothing, a part of its work or all of it.
CtSaveFails ==
    /\ ctAt \in {"replace", "copy"}
    /\ ctFaults < MaxFaults
    /\ ctFaults' = ctFaults + 1
    /\ ctAt' = "run"
    /\ ctBackup' \in {ctBackup} \cup IF ctAt = "copy" THEN {Broken("damaged"), ctPrimary} ELSE {}
    /\ UNCHANGED <<ctData, ctPrimary, ctFirst, ctKept>>

\* A crash loses what is in memory, and tears the copy it interrupts.
CtCrash ==
    /\ ctAt # "load"
    /\ ctFaults < MaxFaults
    /\ ctFaults' = ctFaults + 1
    /\ ctAt' = "load"
    /\ ctData' = NewCycles
    /\ IF ctAt = "copy" THEN ctBackup' \in {ctBackup, Broken("damaged")} ELSE UNCHANGED ctBackup
    /\ UNCHANGED <<ctPrimary, ctFirst, ctKept>>

\* The environment damages the primary file while the program is down and the backup is
\* whole: with both gone there is nothing to restore.
CtDamage ==
    /\ ctAt = "load"
    /\ ctPrimary.kind = "ok"
    /\ ctBackup.kind = "ok"
    /\ ctFaults < MaxFaults
    /\ ctFaults' = ctFaults + 1
    /\ ctPrimary' = Broken("damaged")
    /\ UNCHANGED <<ctAt, ctData, ctBackup, ctFirst, ctKept>>

CtNext ==
    \/ CtLoad
    \/ \E soc \in 0..MaxSoc : CtSample(soc)
    \/ CtReplace
    \/ CtCopy
    \/ CtSaveFails
    \/ CtCrash
    \/ CtDamage

-----------------------------------------------------------------------------
(* Properties.                                                             *)

\* What was counted as charge, less what was counted as discharge, is the change of the
\* state of charge since the first record, whatever was lost and restored in between: no
\* step of the battery is counted twice or half.
Balanced ==
    ctData.last # NoSoc => ctData.charge - ctData.discharge = ctData.last - ctFirst

\* What a save wrote to both files is never lost: whatever copies failed, and whatever crashed
\* or was damaged since, a restart does not count fewer cycles.
CountSurvives == [][ctAt = "load" /\ ctAt' # "load" => ctData'.count >= ctKept]_ctVars

\* The record of the cycles is balanced, and what was saved survives.
CyclesSafe == []Balanced /\ CountSurvives
=============================================================================
