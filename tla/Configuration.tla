---------------------------- MODULE Configuration ---------------------------
(***************************************************************************)
(* The way from the configuration file to the power controller: the file   *)
(* is saved by the web interface or edited by hand, read by the worker or  *)
(* by the client manager, and the controller is made from it, for          *)
(* production only when the command line has unlocked it.  What the        *)
(* controller then does is in PowerControl.                                *)
(***************************************************************************)
EXTENDS Naturals

CONSTANTS
    Tokens,         \* safety_token
    Hosts,          \* platform.node()
    NoToken,
    CfChanges       \* bound: changes of the file, the lock file and the host

ASSUME ConfigurationAssumption == NoToken \notin Tokens /\ Hosts # {} /\ CfChanges \in Nat

VARIABLES
    cfFile,         \* the configuration file
    cfEnv,          \* POWER_CONTROL_MODE and POWER_CONTROL_SAFETY_TOKEN
    cfHost,
    cfLock,         \* the lock file: none, or one with a host and the token it is signed with
    cfCli,          \* the tokens of the unlock commands that wait for YES
    cfRunning,      \* the client's configuration: none, that of the file, or the defaults
    cfController,   \* the power controller of the client
    cfChanges,
    cfConfirmed,    \* History: what was unlocked on the command line and not revoked since
    cfUnlocked      \* History: whether the token of the controller was, when it was made

cfSurroundings == <<cfEnv, cfHost, cfChanges>>
cfClient == <<cfRunning, cfController, cfUnlocked>>
cfVars == <<cfFile, cfSurroundings, cfLock, cfCli, cfClient, cfConfirmed>>

\* A file in the format of RuntimeConfig or of the legacy Config.  "other" stands for what a
\* validator refuses: ports, addresses, intervals, enumerations, the mode of the power control
\* and limits the wrong way round; rotation for max_bytes and backup_count of the logging.  One
\* unusual value in a file is enough.
Files ==
    {f \in [format : {"runtime"}, other : {"valid", "invalid"}, rotation : {"default", "given"},
            mode : {"dry_run", "production"},
            limits : {"sane", "nan"}, token : Tokens \cup {NoToken}] :
        /\ f.other = "valid" \/ (f.rotation = "default" /\ f.limits = "sane")
        /\ f.rotation = "default" \/ f.limits = "sane"}
    \cup [format : {"legacy"}, other : {"valid", "invalid"}, rotation : {"default"},
          mode : {"dry_run"}, limits : {"sane"}, token : {NoToken}]

Locks == {<< >>} \cup {<<t, h>> : t \in Tokens, h \in Hosts}
NoController == [mode |-> "none", limits |-> "sane", token |-> NoToken, host |-> "none"]

CfTypeOK ==
    /\ cfFile \in Files /\ cfHost \in Hosts /\ cfLock \in Locks /\ cfCli \subseteq Tokens
    /\ cfEnv \in [mode : {"dry_run", "production"}, token : Tokens \cup {NoToken}]
    /\ cfRunning \in {"none", "file", "defaults", "legacyFile"}
    /\ cfController.mode \in {"none", "dry_run", "production"}
    /\ cfController.limits \in {"sane", "nan"}
    /\ cfController.token \in Tokens \cup {NoToken} /\ cfController.host \in Hosts \cup {"none"}
    /\ cfChanges \in 0..CfChanges
    /\ cfConfirmed \subseteq Tokens \X Hosts /\ cfUnlocked \in BOOLEAN

-----------------------------------------------------------------------------
(***************************************************************************)
(* Reading and writing the file.                                           *)
(***************************************************************************)
\* RuntimeConfig.from_dict() raises on a value that a validator refuses.  NaN passes them: it
\* is neither below nor above a bound.  Unknown keys, those of a legacy file, are ignored.
Readable(file) == file.other = "valid"

\* RuntimeConfig of a file that is accepted: a legacy file leaves every default.
Meant(file) == [mode |-> file.mode, limits |-> file.limits, token |-> file.token,
                rotation |-> file.rotation,
                server |-> IF file.format = "legacy" THEN "default" ELSE "configured"]

\* to_dict() writes all sections but max_bytes and backup_count.
Rewritten(file) ==
    [format |-> "runtime", other |-> file.other, rotation |-> "default", mode |-> file.mode,
     limits |-> file.limits, token |-> file.token]

\* Config.from_yaml() of a file that RuntimeConfig refuses validates nothing, and raises on the
\* keys of the new format, if there are any that the old one has not.
LegacyReads(file) ==
    IF file.format = "legacy" THEN {"legacyFile"} ELSE {"none", "defaults"}

-----------------------------------------------------------------------------
(***************************************************************************)
(* The lock file and the controller.                                       *)
(***************************************************************************)
\* verify_lockfile()
VerifyLockfile(token) == cfLock = <<token, cfHost>>

\* SafePowerController(): PowerLimits looks at the limits again and NaN is not between them;
\* production needs a token, of the file or else of the environment, and the lock file.
\* An exception leaves the client without control.
MadeFrom(mode, limits, token) ==
    LET signed == IF token # NoToken THEN token ELSE cfEnv.token
    IN  IF \/ limits # "sane"
           \/ mode = "production" /\ ~(signed # NoToken /\ VerifyLockfile(signed))
        THEN NoController
        ELSE [mode |-> mode, limits |-> limits, host |-> cfHost,
              token |-> IF mode = "production" THEN signed ELSE NoToken]

\* _init_power_controller(): with a runtime configuration, or from_env().
FromFile == MadeFrom(cfFile.mode, cfFile.limits, cfFile.token)
FromEnv == MadeFrom(cfEnv.mode, "sane", NoToken)

-----------------------------------------------------------------------------

CfInit ==
    /\ cfFile \in {f \in Files : Readable(f)}
    /\ cfEnv \in {[mode |-> "dry_run", token |-> NoToken]}
                 \cup [mode : {"production"}, token : Tokens \cup {NoToken}]
    /\ cfHost = (CHOOSE h \in Hosts : TRUE) /\ cfLock = << >> /\ cfCli = {}
    /\ cfRunning = "none" /\ cfController = NoController
    /\ cfChanges = 0 /\ cfConfirmed = {} /\ cfUnlocked = FALSE

Changes == cfChanges < CfChanges /\ cfChanges' = cfChanges + 1

\* /api/config/save and /api/config/apply write what RuntimeConfig accepts.
ConfigSaved ==
    /\ Changes
    /\ cfFile' \in {f \in Files : Readable(f)}
    /\ UNCHANGED <<cfEnv, cfHost, cfLock, cfCli, cfClient, cfConfirmed>>

\* By hand it may become what they refuse.
Edited ==
    /\ Changes
    /\ cfFile' \in {f \in Files : ~Readable(f)}
    /\ UNCHANGED <<cfEnv, cfHost, cfLock, cfCli, cfClient, cfConfirmed>>

\* RuntimeConfig.to_yaml(), and from_yaml() before it.
Converted ==
    /\ Readable(cfFile)
    /\ cfFile' = Rewritten(cfFile)
    /\ UNCHANGED <<cfSurroundings, cfLock, cfCli, cfClient, cfConfirmed>>

\* bms-unlock-production reads the token and asks; meanwhile the file may be changed.
UnlockAsked ==
    /\ cfFile.token # NoToken
    /\ cfCli' = cfCli \cup {cfFile.token}
    /\ UNCHANGED <<cfFile, cfSurroundings, cfLock, cfClient, cfConfirmed>>

\* YES writes the lock file, over the one there is; anything else aborts.
UnlockAnswered ==
    /\ \E token \in cfCli :
           /\ cfCli' = cfCli \ {token}
           /\ \/ /\ cfLock' = <<token, cfHost>>
                 /\ cfConfirmed' = cfConfirmed \cup {<<token, cfHost>>}
              \/ UNCHANGED <<cfLock, cfConfirmed>>
    /\ UNCHANGED <<cfFile, cfSurroundings, cfClient>>

\* bms-unlock-production --revoke; a controller that was made stays.
Revoked ==
    /\ Changes
    /\ cfLock' = << >> /\ cfConfirmed' = {}
    /\ UNCHANGED <<cfFile, cfEnv, cfHost, cfCli, cfClient>>

\* The data directory comes to another host, and nothing that ran is left.
Moved ==
    /\ Changes
    /\ cfHost' \in Hosts \ {cfHost}
    /\ cfRunning' = "none" /\ cfController' = NoController /\ cfUnlocked' = FALSE /\ cfCli' = {}
    /\ UNCHANGED <<cfFile, cfEnv, cfLock, cfConfirmed>>

WasUnlocked == <<cfController'.token, cfHost>> \in cfConfirmed

\* _async_worker(): RuntimeConfig when it can be read, or else the legacy Config.
WorkerStarts ==
    /\ cfRunning = "none"
    /\ \/ Readable(cfFile) /\ cfRunning' = "file" /\ cfController' = FromFile
       \/ /\ ~Readable(cfFile)
          /\ cfRunning' \in LegacyReads(cfFile)
          /\ cfController' = IF cfRunning' = "none" THEN NoController ELSE FromEnv
    /\ cfUnlocked' = WasUnlocked
    /\ UNCHANGED <<cfFile, cfSurroundings, cfLock, cfCli, cfConfirmed>>

\* _run_client() reads its own legacy file, and runtime.yaml beside it for the power alone.
ManagerStarts ==
    /\ cfRunning = "none"
    /\ cfRunning' = "legacyFile"
    /\ cfController' = IF Readable(cfFile) THEN FromFile ELSE FromEnv
    /\ cfUnlocked' = WasUnlocked
    /\ UNCHANGED <<cfFile, cfSurroundings, cfLock, cfCli, cfConfirmed>>

ClientStops ==
    /\ cfRunning # "none"
    /\ cfRunning' = "none" /\ cfController' = NoController /\ cfUnlocked' = FALSE
    /\ UNCHANGED <<cfFile, cfSurroundings, cfLock, cfCli, cfConfirmed>>

CfNext ==
    \/ ConfigSaved \/ Edited \/ Converted \/ UnlockAsked \/ UnlockAnswered \/ Revoked \/ Moved
    \/ WorkerStarts \/ ManagerStarts \/ ClientStops

-----------------------------------------------------------------------------

\* A controller that may write to the PCS was made on a host where somebody had confirmed its
\* token, whatever files were copied, saved or edited before.
ProductionWasUnlocked == cfController.mode = "production" => cfUnlocked

\* No controller enforces limits that are not limits, though a validator lets them pass.
LimitsAreSane == cfController.limits = "sane"

\* A file that is read and written again means the same, but for the rotation of the log.
RewritingKeeps ==
    Readable(cfFile) /\ cfFile.format = "runtime" =>
        /\ Readable(Rewritten(cfFile))
        /\ Meant(Rewritten(cfFile)) = [Meant(cfFile) EXCEPT !.rotation = "default"]

ConfigurationSafe == ProductionWasUnlocked /\ LimitsAreSane /\ RewritingKeeps
=============================================================================
