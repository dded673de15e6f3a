---------------------------- MODULE MCOperations ----------------------------
(***************************************************************************)
(* The components that run beside the control of the battery, model-checked*)
(* together: a behaviour exercises one part and leaves the others as they  *)
(* start.  A part that is left alone has nothing that must happen, so its  *)
(* fairness asks for nothing.                                              *)
(***************************************************************************)
EXTENDS BMSClient, ClientManager, WorkerManager, PollingWorker, DataCollector,
        CycleTracking, Metering, SubscriptionSync, SubscriptionChain,
        ControlPoller, ExternalApi, Recorders, Registration, RegisterWriters,
        PolledTarget, WebControl, NotificationPush, Reporting, Configuration

CONSTANTS Exercised,    \* the parts of a run
          OnlyOrderly   \* whether the surroundings are orderly in all behaviours

VARIABLE part

MCOrder == <<"reporting", "metering">>
MCTargets == <<"x", "y">>
MCLimits == <<1, 2>>
MCValues == {-8, -3, -1, 0, 1, 2, 3, 8}

bmsParts == <<clientVars>>
managerParts == <<cmVars, wmVars>>
deviceParts == <<pwVars, dcVars>>
dataParts == <<ctVars, mtVars>>
pushParts == <<sbVars, chVars>>

serverParts == <<cpVars, rgVars>>
siteParts == <<xaVars, hiVars>>
writeParts == <<rwVars, ptVars>>
webParts == <<wbVars, cfVars>>
messageParts == <<npVars, rpVars>>
laterParts == <<writeParts, webParts, messageParts>>

otherParts == <<deviceParts, dataParts, pushParts, serverParts, siteParts, laterParts>>

allVars == <<part, bmsParts, managerParts, otherParts>>

\* The choices of the parts that are left alone are fixed.  Of the chain and of the web
\* interface only orderly behaviours are explored: their properties speak of no others.
MCInit ==
    /\ part \in Exercised
    /\ SupInit /\ DcInit /\ CtInit /\ MtInit /\ CpInit /\ RpInit
    /\ BmsInit /\ (part # "client" \/ OnlyOrderly => subscribes) /\ (part # "client" => certified)
    /\ CmInit /\ (part # "manager" \/ OnlyOrderly => cmOrderly)
    /\ WmInit /\ (part # "worker" => wmOrderly)
    /\ PwInit /\ (part # "polling" \/ OnlyOrderly => pwOrderly)
    /\ SbInit /\ (part # "subs" => sbOrderly)
    /\ ChInit /\ chOrderly /\ chEvents = ChEvents
    /\ RgInit /\ (part # "registration" => rgServer = << >> /\ ~rgWrapper)
    /\ XaInit /\ (part # "mailbox" => ~xaController /\ xaSoc["reported"] = CHOOSE s \in XaSocs : TRUE)
    /\ HiInit /\ (part # "recorders" => hiPart = "controls")
    /\ RwInit /\ (part # "writers" => rwWriter = "blocking" /\ rwSimulated)
    /\ PtInit /\ (part # "target" => ptLimited /\ ptWrites /\ ptClient /\ ptEnabled /\ ptSimulated)
    /\ WbInit /\ (part # "web" => wbFile = NoConfig) /\ wbOrderly
    /\ CfInit /\ (part # "configuration" => /\ cfFile = (CHOOSE f \in Files : Readable(f))
                                           /\ cfEnv.mode = "dry_run")
    /\ NpInit /\ (part # "notifications" => npHandler.control /\ npHandler.manager)

MCNext ==
    /\ UNCHANGED part
    /\ \/ part = "supervisor" /\ SupNext /\ UNCHANGED <<bmsVars, managerParts, otherParts>>
       \/ part = "client" /\ BmsNext /\ UNCHANGED <<managerParts, otherParts>>
       \/ part = "manager" /\ CmNext /\ UNCHANGED <<wmVars, bmsParts, otherParts>>
       \/ part = "worker" /\ WmNext /\ UNCHANGED <<cmVars, bmsParts, otherParts>>
       \/ /\ part \in {"polling", "collector", "cycles", "metering", "subs", "chain"}
          /\ UNCHANGED <<bmsParts, managerParts, serverParts, siteParts, laterParts>>
          /\ \/ part = "polling" /\ PwNext /\ UNCHANGED <<dcVars, dataParts, pushParts>>
             \/ part = "collector" /\ DcNext /\ UNCHANGED <<pwVars, dataParts, pushParts>>
             \/ part = "cycles" /\ CtNext /\ UNCHANGED <<mtVars, deviceParts, pushParts>>
             \/ part = "metering" /\ MtNext /\ UNCHANGED <<ctVars, deviceParts, pushParts>>
             \/ part = "subs" /\ SbNext /\ UNCHANGED <<chVars, deviceParts, dataParts>>
             \/ part = "chain" /\ ChNext /\ UNCHANGED <<sbVars, deviceParts, dataParts>>
       \/ /\ part \in {"poller", "registration", "mailbox", "recorders"}
          /\ UNCHANGED <<bmsParts, managerParts, deviceParts, dataParts, pushParts, laterParts>>
          /\ \/ part = "poller" /\ CpNext /\ UNCHANGED <<rgVars, siteParts>>
             \/ part = "registration" /\ RgNext /\ UNCHANGED <<cpVars, siteParts>>
             \/ part = "mailbox" /\ XaNext /\ UNCHANGED <<hiVars, serverParts>>
             \/ part = "recorders" /\ HiNext /\ UNCHANGED <<xaVars, serverParts>>
       \/ /\ part \in {"writers", "target", "web", "configuration", "notifications", "reporting"}
          /\ UNCHANGED <<bmsParts, managerParts, deviceParts, dataParts, pushParts>>
          /\ UNCHANGED <<serverParts, siteParts>>
          /\ \/ part = "writers" /\ RwNext /\ UNCHANGED <<ptVars, webParts, messageParts>>
             \/ part = "target" /\ PtNext /\ UNCHANGED <<rwVars, webParts, messageParts>>
             \/ part = "web" /\ WbNext /\ UNCHANGED <<cfVars, writeParts, messageParts>>
             \/ part = "configuration" /\ CfNext /\ UNCHANGED <<wbVars, writeParts, messageParts>>
             \/ part = "notifications" /\ NpNext /\ UNCHANGED <<rpVars, writeParts, webParts>>
             \/ part = "reporting" /\ RpNext /\ UNCHANGED <<npVars, writeParts, webParts>>

MCSpec ==
    /\ MCInit /\ [][MCNext]_allVars
    /\ SupFairness /\ BmsFairness /\ CmFairness /\ WmFairness /\ PwFairness /\ DcFairness /\ MtFairness

-----------------------------------------------------------------------------

\* The part that is exercised keeps its types; among them the bounds on restarts, attempts,
\* failures and partial uploads.
MCTypeOK ==
    /\ part = "supervisor" => SupTypeOK
    /\ part = "client" => BmsTypeOK
    /\ part = "manager" => CmTypeOK
    /\ part = "worker" => WmTypeOK
    /\ part = "polling" => PwTypeOK
    /\ part = "collector" => DcTypeOK
    /\ part = "cycles" => CtTypeOK
    /\ part = "metering" => MtTypeOK
    /\ part = "subs" => SbTypeOK
    /\ part = "chain" => ChTypeOK
    /\ part = "poller" => CpTypeOK
    /\ part = "registration" => RgTypeOK
    /\ part = "mailbox" => XaTypeOK
    /\ part = "recorders" => HiTypeOK
    /\ part = "writers" => RwTypeOK
    /\ part = "target" => PtTypeOK
    /\ part = "web" => WbTypeOK
    /\ part = "configuration" => CfTypeOK
    /\ part = "notifications" => NpTypeOK
    /\ part = "reporting" => RpTypeOK

\* What the web interface starts, stops, reloads and shows is what the threads behind it do,
\* with the configuration that was saved, and for production only when it was unlocked.
ManagersSafe == CmSafe /\ WmSafe /\ WebSafe /\ ConfigurationSafe

\* The subscriptions on the server are those that the client keeps.
SubscriptionsSafe == SubsSafe /\ ChainSafe

\* What is polled and written reaches its register, outside simulation, and what the server
\* pushed is counted.
MessagesSafe == PwSafe /\ PolledSafe /\ WritersSafe /\ PushSafe

\* What is exchanged with the external program and shown on the site's pages is what happened.
SiteSafe == MailboxSafe /\ HistorySafe /\ ReportingSafe

\* Stops of the client and of the worker come to an end, and stop what they were asked to.
ManagersStop == CmOrderlyStopStops /\ WmStopEnds

\* Polling, collecting and metering go on after every failure the code provides for.
DevicesRecover == PwDueIsPolled /\ CollectorRecovers /\ MeteringRecovers
=============================================================================
