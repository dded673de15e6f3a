-------------------------- MODULE Operations_proofs --------------------------
(***************************************************************************)
(* The parts that are run together keep what each of them promises: in a   *)
(* behaviour of all of them every part behaves as it does alone.           *)
(***************************************************************************)
EXTENDS MCOperations, BMSClient_proofs, Server_proofs, Web_proofs, Device_proofs

\* Every part starts as it starts alone.
LEMMA PartsStart ==
    MCInit => /\ SupInit /\ BmsInit /\ CmInit /\ WmInit /\ PwInit /\ DcInit /\ CtInit /\ MtInit
              /\ SbInit /\ ChInit /\ CpInit /\ RgInit /\ XaInit /\ HiInit
              /\ RwInit /\ PtInit /\ WbInit /\ CfInit /\ NpInit /\ RpInit
BY DEF MCInit

\* A step is one of the part that is exercised, and leaves the others alone.
LEMMA PartsMove ==
    [MCNext]_allVars => /\ [CmNext]_cmVars /\ [WmNext]_wmVars /\ [PwNext]_pwVars /\ [DcNext]_dcVars
                        /\ [CtNext]_ctVars /\ [MtNext]_mtVars /\ [SbNext]_sbVars /\ [ChNext]_chVars
                        /\ [CpNext]_cpVars /\ [RgNext]_rgVars /\ [XaNext]_xaVars /\ [HiNext]_hiVars
                        /\ [RwNext]_rwVars /\ [PtNext]_ptVars /\ [WbNext]_wbVars /\ [CfNext]_cfVars
                        /\ [NpNext]_npVars /\ [RpNext]_rpVars
<1> USE DEF managerParts, otherParts, deviceParts, dataParts, pushParts, serverParts, siteParts,
            laterParts, writeParts, webParts, messageParts
<1>1. ASSUME UNCHANGED <<managerParts, otherParts>>
      PROVE  /\ UNCHANGED <<cmVars, wmVars, pwVars, dcVars, ctVars, mtVars, sbVars, chVars>>
             /\ UNCHANGED <<cpVars, rgVars, xaVars, hiVars, rwVars, ptVars, wbVars, cfVars>>
             /\ UNCHANGED <<npVars, rpVars>>
  BY <1>1
<1>2. ASSUME MCNext
      PROVE  /\ [CmNext]_cmVars /\ [WmNext]_wmVars /\ [PwNext]_pwVars /\ [DcNext]_dcVars
             /\ [CtNext]_ctVars /\ [MtNext]_mtVars /\ [SbNext]_sbVars /\ [ChNext]_chVars
             /\ [CpNext]_cpVars /\ [RgNext]_rgVars /\ [XaNext]_xaVars /\ [HiNext]_hiVars
             /\ [RwNext]_rwVars /\ [PtNext]_ptVars /\ [WbNext]_wbVars /\ [CfNext]_cfVars
             /\ [NpNext]_npVars /\ [RpNext]_rpVars
  BY <1>2 DEF MCNext
<1>3. QED
  BY <1>1, <1>2 DEF allVars

\* A behaviour of all the parts is one of each.
LEMMA PartsBehave ==
    MCSpec => /\ CmBehaviour /\ WmBehaviour /\ PwBehaviour /\ DcBehaviour /\ CtBehaviour
              /\ MtBehaviour /\ SbBehaviour /\ ChBehaviour /\ CpBehaviour /\ RgBehaviour
              /\ XaBehaviour /\ HiBehaviour /\ RwBehaviour /\ PtBehaviour /\ WbBehaviour
              /\ CfBehaviour /\ NpBehaviour /\ RpBehaviour
BY PartsStart, PartsMove, PTL
   DEF MCSpec, CmBehaviour, WmBehaviour, PwBehaviour, DcBehaviour, CtBehaviour, MtBehaviour,
       SbBehaviour, ChBehaviour, CpBehaviour, RgBehaviour, XaBehaviour, HiBehaviour, RwBehaviour,
       PtBehaviour, WbBehaviour, CfBehaviour, NpBehaviour, RpBehaviour

-----------------------------------------------------------------------------
(***************************************************************************)
(* The client and its supervisor, which is exercised alone as well.        *)
(***************************************************************************)

\* A client that is not exercised has not been started.
ClientAtRest == BmsTypeOK /\ phase = "new"

ClientInv ==
    /\ SupInv /\ SupRest
    /\ part = "supervisor" => ClientAtRest
    /\ part # "supervisor" => BmsInv

\* Neither is anything started at first.
LEMMA ClientStarts == MCInit => ClientInv
<1> SUFFICES ASSUME MCInit PROVE ClientInv
  OBVIOUS
<1>1. SupInv /\ SupRest /\ BmsInv /\ BmsInit
  BY PartsStart, SupInitially, SupRestInitially, BmsInitially
<1>2. BmsTypeOK /\ phase = "new"
  BY <1>1 DEF BmsInv, BmsInit
<1>3. QED
  BY <1>1, <1>2 DEF ClientInv, ClientAtRest

\* The supervisor moves alone or with the client.
LEMMA ClientMoves ==
    /\ [MCNext]_allVars => part' = part /\ [SupNext]_supVars
    /\ [MCNext]_allVars /\ part = "supervisor" => UNCHANGED bmsVars
    /\ [MCNext]_allVars /\ part # "supervisor" => [BmsNext]_clientVars
<1>1. ASSUME [MCNext]_allVars
      PROVE  /\ part' = part
             /\ \/ part = "supervisor" /\ SupNext /\ UNCHANGED bmsVars
                \/ part = "client" /\ BmsNext
                \/ UNCHANGED clientVars
  BY <1>1 DEF MCNext, allVars, bmsParts
<1>2. UNCHANGED clientVars => UNCHANGED supVars /\ UNCHANGED bmsVars
  BY DEF clientVars
<1>3. QED
  BY <1>1, <1>2, BmsRunsSupervisor

\* So the client keeps its promises whichever of them moves.
LEMMA ClientKeeps == ClientInv /\ [MCNext]_allVars => ClientInv'
<1> SUFFICES ASSUME ClientInv, [MCNext]_allVars PROVE ClientInv'
  OBVIOUS
<1>1. part' = part /\ SupInv' /\ SupRest'
  BY ClientMoves, SupPreserved, SupRestKept DEF ClientInv
<1>2. CASE part = "supervisor"
  <2>1. UNCHANGED bmsVars /\ ClientAtRest
    BY <1>2, ClientMoves DEF ClientInv
  <2>2. ClientAtRest'
    BY <2>1 DEF ClientAtRest, BmsTypeOK, bmsVars, loopVars
  <2>3. QED
    BY <1>1, <1>2, <2>2 DEF ClientInv
<1>3. CASE part # "supervisor"
  BY <1>1, <1>3, ClientMoves, BmsPreserved DEF ClientInv
<1>4. QED
  BY <1>2, <1>3

\* What the client and the supervisor promise.
LEMMA ClientPromises == ClientInv => SupTypeOK /\ BmsTypeOK /\ SupSafe /\ BmsSafe
<1> SUFFICES ASSUME ClientInv PROVE SupTypeOK /\ BmsTypeOK /\ SupSafe /\ BmsSafe
  OBVIOUS
<1>1. SupTypeOK /\ SupSafe
  BY SupTyped, SupIsSafe DEF ClientInv
<1>2. CASE part = "supervisor"
  BY <1>1, <1>2 DEF ClientInv, ClientAtRest, BmsSafe, StopClosesEverything,
                    HttpWorksBetweenReconnections
<1>3. CASE part # "supervisor"
  BY <1>1, <1>3, BmsIsSafe DEF ClientInv, BmsInv
<1>4. QED
  BY <1>2, <1>3

\* When stop() has returned nothing is left open or alive, and nothing that it supervises runs
\* twice; for every part that is exercised.
THEOREM ClientsAreSafe == MCSpec => [](SupSafe /\ BmsSafe)
BY ClientStarts, ClientKeeps, ClientPromises, PTL DEF MCSpec

-----------------------------------------------------------------------------

\* The part that is exercised keeps its types, and with them the bounds on restarts, attempts,
\* failures, partial uploads and marks; for all values of the constants.
THEOREM TypesAreKept == MCSpec => []MCTypeOK
<1>1. MCSpec => [](SupTypeOK /\ BmsTypeOK)
  BY ClientStarts, ClientKeeps, ClientPromises, PTL DEF MCSpec
<1>2. MCSpec => [](CmTypeOK /\ WmTypeOK /\ PwTypeOK /\ DcTypeOK /\ CtTypeOK)
  BY PartsBehave, ClientManagerIsSafe, WorkerManagerIsSafe, PollingIsSafe, CollectorIsSafe,
     CyclesAreSafe, PTL
<1>3. MCSpec => [](MtTypeOK /\ SbTypeOK /\ ChTypeOK /\ CpTypeOK /\ RgTypeOK)
  BY PartsBehave, MeteringIsSafe, SubscriptionsAreSafe, ChainIsSafe, PollerIsSafe,
     RegistrationIsSafe, PTL
<1>4. MCSpec => [](XaTypeOK /\ HiTypeOK /\ RwTypeOK /\ PtTypeOK)
  BY PartsBehave, MailboxIsSafe, HistoryIsSafe, WritersAreSafe, TargetIsSafe, PTL
<1>5. MCSpec => [](WbTypeOK /\ CfTypeOK /\ NpTypeOK /\ RpTypeOK)
  BY PartsBehave, WebIsSafe, ConfigurationIsSafe, PushIsSafe, ReportingIsSafe, PTL
<1>6. /\ SupTypeOK /\ BmsTypeOK
      /\ CmTypeOK /\ WmTypeOK /\ PwTypeOK /\ DcTypeOK /\ CtTypeOK
      /\ MtTypeOK /\ SbTypeOK /\ ChTypeOK /\ CpTypeOK /\ RgTypeOK
      /\ XaTypeOK /\ HiTypeOK /\ RwTypeOK /\ PtTypeOK
      /\ WbTypeOK /\ CfTypeOK /\ NpTypeOK /\ RpTypeOK
   => MCTypeOK
  BY DEF MCTypeOK
<1>7. QED
  BY <1>1, <1>2, <1>3, <1>4, <1>5, <1>6, PTL

\* What the web interface starts, stops, reloads and shows is what the threads behind it do,
\* with the configuration that was saved, and for production only when it was unlocked; for any
\* threads, requests, tokens, hosts and numbers of changes.
THEOREM ManagersAreSafe == MCSpec => []ManagersSafe
BY PartsBehave, ClientManagerIsSafe, WorkerManagerIsSafe, WebIsSafe, ConfigurationIsSafe, PTL
   DEF ManagersSafe

\* The subscriptions on the server are those that the client keeps, whether it renews them or
\* walks down the chain of its assignments; for any resources and names.
THEOREM SubscribersAreSafe == MCSpec => []SubscriptionsSafe
BY PartsBehave, SubscriptionsAreSafe, ChainIsSafe, PTL DEF SubscriptionsSafe

\* What is polled and written reaches its register, and what the server pushed is counted; for
\* any threads, values, word sizes and notifications.
THEOREM MessagesAreSafe == MCSpec => []MessagesSafe
BY PartsBehave, PollingIsSafe, TargetIsSafe, WritersAreSafe, PushIsSafe, PTL DEF MessagesSafe

\* What is exchanged with the external program and shown on the site's pages is what happened;
\* for any commands, records and uploads.
THEOREM SiteIsSafe == MCSpec => []SiteSafe
BY PartsBehave, MailboxIsSafe, HistoryIsSafe, ReportingIsSafe, PTL DEF SiteSafe

\* The rest of what the runs look at: no control is handled again, the health of the connection
\* is true, every mRID is posted to its own MUP, what is registered exists, and no cycle is lost
\* that a save wrote to both files.
THEOREM ExchangesAreSafe ==
    MCSpec => [](PollerSafe /\ HealthIsTrue /\ MridsBelong /\ RegistrationSafe) /\ CyclesSafe
BY PartsBehave, PollerIsSafe, CollectorIsSafe, MeteringIsSafe, RegistrationIsSafe, CyclesAreSafe,
   PTL
=============================================================================
